--------------------------- MODULE ResolverProofs ---------------------------
(* One call of resolve(), for every reference, every scheme and every order   *)
(* of build_hull's loop: the hull is the query and all that is connected      *)
(* with it (HullClosed, HullMinimal, HullIsComponent), its loop keeps         *)
(* advancing, the coordinates stay in the numberings (TypeOK), no path of     *)
(* assemble loses a counterpart or leaves a target of a complex hull without  *)
(* a connector (NothingLost, TargetsLinked), and a single verse is not given  *)
(* a relation its spans contradict (SingleVerseAnswer).                       *)
(*                                                                            *)
(* Then what the endpoints promise, for every stored text, every request and  *)
(* every chain: the two lookups of a stored row agree (LookupsAlwaysAgree),   *)
(* the hull is complete for every reference asked, whatever calls came        *)
(* before (HullIsClosedInRequests), a response lists the row of every         *)
(* counterpart (CounterpartRowsAreListed) and of every verse asked            *)
(* (AskedRowsAreListed), and a chapter every stored whole verse whose path    *)
(* could be built (ChaptersAreCovered).  The last three rest on PortInv: the  *)
(* shape of a request's state, the resolver's own invariants while it works   *)
(* on the reference asked, and what a chapter has listed.                     *)
EXTENDS ResolvePort, FiniteSetTheorems, FunctionTheorems, SequenceTheorems, TLAPS

-----------------------------------------------------------------------------
(* The loop invariant of build_hull: what is owed to the component is already *)
(* collected or still on the worklist.                                       *)
HullInv ==
    pc = "hull" =>
        /\ Node("source", query.members) \subseteq seen \cup worklist
        /\ \A n \in seen : Neighbours(n) \subseteq seen \cup worklist

(* A step leaves the call as it is ... *)
LEMMA QueryIsFixed == [Next]_vars => query' = query
<1> SUFFICES ASSUME [Next]_vars PROVE query' = query
  OBVIOUS
<1>1. CASE Assemble
  BY <1>1 DEF Assemble
<1>2. ASSUME NEW n \in worklist, PopNode(n) PROVE query' = query
  BY <1>2 DEF PopNode
<1>3. ASSUME NEW order \in Orders, FinishHull(order) PROVE query' = query
  BY <1>3 DEF FinishHull
<1>4. CASE UNCHANGED vars
  BY <1>4 DEF vars
<1> QED
  BY <1>1, <1>2, <1>3, <1>4 DEF Next

(* ... and so are the neighbours. *)
LEMMA NeighboursAreFixed ==
    ASSUME query' = query
    PROVE  \A n : Neighbours(n)' = Neighbours(n)
  BY DEF Neighbours, Node

(* The loop starts from the query alone, whoever calls build_hull. *)
LEMMA CallStartsClean ==
    ASSUME NEW by, CallBuildHull(by), query' = query
    PROVE  /\ seen' = {}
           /\ worklist' = Node("source", query.members)
           /\ Node("source", query.members)' = Node("source", query.members)
  BY DEF CallBuildHull, Node

(* The step that ends a call of build_hull starts another one or returns. *)
LEMMA AtomicCallsOrReturns ==
    ASSUME Atomic
    PROVE  CallBuildHull("atomic") \/ pc' = "done"
  BY DEF Atomic, Return

(* Outside its loop a call enters it from the start or is over. *)
LEMMA OutsideTheLoop ==
    ASSUME Assemble \/ \E order \in Orders : FinishHull(order)
    PROVE  CallBuildHull("trigger") \/ CallBuildHull("atomic") \/ pc' = "done"
<1>1. CASE Assemble
  BY <1>1, AtomicCallsOrReturns DEF Assemble
<1>2. ASSUME NEW order \in Orders, FinishHull(order)
      PROVE  CallBuildHull("atomic") \/ pc' = "done"
  BY <1>2, AtomicCallsOrReturns DEF FinishHull, Return
<1> QED
  BY <1>1, <1>2

-----------------------------------------------------------------------------
(* Popping a node moves it to the collected ones and owes its neighbours. *)
LEMMA PopKeepsHullInv ==
    ASSUME HullInv, NEW n \in worklist, PopNode(n)
    PROVE  HullInv'
<1> DEFINE owed == seen \cup worklist
<1>1. query' = query /\ pc = "hull"
  BY DEF PopNode
<1>2. /\ owed \subseteq owed'
      /\ seen' \subseteq seen \cup {n}
      /\ n \notin seen => Neighbours(n) \subseteq owed'
  BY DEF PopNode
<1>3. Node("source", query.members)' \subseteq owed'
  BY <1>1, <1>2 DEF HullInv, Node
<1>4. ASSUME NEW m \in seen' PROVE Neighbours(m)' \subseteq owed'
  <2>1. Neighbours(m)' = Neighbours(m)
    BY <1>1, NeighboursAreFixed
  <2>2. CASE m \in seen
    BY <2>1, <2>2, <1>1, <1>2 DEF HullInv
  <2>3. CASE m \notin seen
    BY <2>1, <2>3, <1>2
  <2> QED
    BY <2>2, <2>3
<1> QED
  BY <1>3, <1>4 DEF HullInv

(* Every step keeps the loop invariant. *)
LEMMA HullInvIsInductive == HullInv /\ [Next]_vars => HullInv'
<1> SUFFICES ASSUME HullInv, [Next]_vars PROVE HullInv'
  OBVIOUS
<1>1. CASE Assemble \/ \E order \in Orders : FinishHull(order)
  <2>1. ASSUME NEW by, CallBuildHull(by) PROVE HullInv'
    BY <2>1, QueryIsFixed, CallStartsClean DEF HullInv
  <2>2. CASE pc' = "done"
    BY <2>2 DEF HullInv
  <2> QED
    BY <1>1, <2>1, <2>2, OutsideTheLoop
<1>2. ASSUME NEW n \in worklist, PopNode(n) PROVE HullInv'
  BY <1>2, PopKeepsHullInv
<1>3. CASE UNCHANGED vars
  <2>1. /\ query' = query /\ pc' = pc /\ seen' = seen /\ worklist' = worklist
    BY <1>3 DEF vars
  <2>2. Node("source", query.members)' = Node("source", query.members)
    BY <2>1 DEF Node
  <2> QED
    BY <2>1, <2>2, NeighboursAreFixed DEF HullInv
<1> QED
  BY <1>1, <1>2, <1>3 DEF Next

(* Once nothing is owed, the collected nodes are closed under all four       *)
(* neighbour relations.                                                      *)
LEMMA NothingOwedIsClosed == HullInv => HullClosed
<1> SUFFICES ASSUME HullInv, LoopOver PROVE
        /\ query.members \subseteq OfKind("source")
        /\ \A s \in OfKind("source") :
                up_set(s, query.srcHops) \subseteq OfKind("pivot")
        /\ \A p \in OfKind("pivot") :
                /\ src_of_pivot(p, query.srcHops) \subseteq OfKind("source")
                /\ down_set(p, query.tgtHops) \subseteq OfKind("target")
        /\ \A t \in OfKind("target") :
                piv_of_target(t, query.tgtHops) \subseteq OfKind("pivot")
  BY DEF HullClosed
<1>1. /\ Node("source", query.members) \subseteq seen
      /\ \A n \in seen : Neighbours(n) \subseteq seen
  BY DEF HullInv, LoopOver
<1>2. \A kind, S : Node(kind, S) \subseteq seen => S \subseteq OfKind(kind)
  <2> SUFFICES ASSUME NEW kind, NEW S, Node(kind, S) \subseteq seen, NEW x \in S
               PROVE  x \in OfKind(kind)
    OBVIOUS
  <2>1. [kind |-> kind, verse |-> x] \in seen
    BY DEF Node
  <2> QED
    BY <2>1 DEF OfKind
<1>3. ASSUME NEW kind, NEW x \in OfKind(kind)
      PROVE  \E n \in seen : n.kind = kind /\ n.verse = x
  BY DEF OfKind
<1>4. query.members \subseteq OfKind("source")
  BY <1>1, <1>2
<1>5. ASSUME NEW s \in OfKind("source")
      PROVE  up_set(s, query.srcHops) \subseteq OfKind("pivot")
  BY <1>1, <1>2, <1>3 DEF Neighbours
<1>6. ASSUME NEW p \in OfKind("pivot")
      PROVE  /\ src_of_pivot(p, query.srcHops) \subseteq OfKind("source")
             /\ down_set(p, query.tgtHops) \subseteq OfKind("target")
  <2>1. PICK n \in seen : n.kind = "pivot" /\ n.verse = p
    BY <1>3
  <2>2. /\ Node("source", src_of_pivot(p, query.srcHops)) \subseteq Neighbours(n)
        /\ Node("target", down_set(p, query.tgtHops)) \subseteq Neighbours(n)
    BY <2>1 DEF Neighbours
  <2> QED
    BY <2>1, <2>2, <1>1, <1>2
<1>7. ASSUME NEW t \in OfKind("target")
      PROVE  piv_of_target(t, query.tgtHops) \subseteq OfKind("pivot")
  BY <1>1, <1>2, <1>3 DEF Neighbours
<1> QED
  BY <1>4, <1>5, <1>6, <1>7

(* The hull is the complete connected component of the query, for every      *)
(* call and whatever order the loop took: the promise of build_hull.         *)
THEOREM HullIsClosed == Spec => []HullClosed
<1>1. Init => HullInv
  BY DEF Init, HullInv
<1> QED
  BY <1>1, HullInvIsInductive, NothingOwedIsClosed, PTL DEF Spec

-----------------------------------------------------------------------------
(* C contains the query and, with a node, every neighbour of it. *)
Component(C) ==
    /\ Node("source", query.members) \subseteq C
    /\ \A n \in C : Neighbours(n) \subseteq C

Within(C) == pc = "hull" /\ Component(C) => seen \cup worklist \subseteq C

(* Every step keeps it. *)
LEMMA WithinIsInductive ==
    ASSUME NEW CONSTANT C
    PROVE  Within(C) /\ [Next]_vars => Within(C)'
<1> SUFFICES ASSUME Within(C), [Next]_vars, pc' = "hull", Component(C)'
             PROVE  (seen \cup worklist)' \subseteq C
  BY DEF Within
<1>1. query' = query
  BY QueryIsFixed
<1>2. Node("source", query.members)' = Node("source", query.members)
  BY <1>1 DEF Node
<1>3. Component(C)
  BY <1>1, <1>2, NeighboursAreFixed DEF Component
<1>4. CASE Assemble \/ \E order \in Orders : FinishHull(order)
  <2>1. ASSUME NEW by, CallBuildHull(by) PROVE (seen \cup worklist)' \subseteq C
    BY <2>1, <1>1, <1>3, CallStartsClean DEF Component
  <2> QED
    BY <1>4, <2>1, OutsideTheLoop
<1>5. ASSUME NEW n \in worklist, PopNode(n)
      PROVE  (seen \cup worklist)' \subseteq C
  <2>1. seen \cup worklist \subseteq C
    BY <1>3, <1>5 DEF Within, PopNode
  <2>2. Neighbours(n) \subseteq C
    BY <2>1, <1>3 DEF Component
  <2>3. (seen \cup worklist)' \subseteq seen \cup worklist \cup Neighbours(n)
    BY <1>5 DEF PopNode
  <2> QED
    BY <2>1, <2>2, <2>3
<1>6. CASE UNCHANGED vars
  BY <1>3, <1>6 DEF vars, Within
<1> QED
  BY <1>4, <1>5, <1>6 DEF Next

(* The hull holds nothing that is not connected with the query: it lies in   *)
(* every set that contains the query and is closed under neighbours.         *)
THEOREM HullMinimal ==
    ASSUME NEW CONSTANT C
    PROVE  Spec => [](pc = "hull" /\ Component(C) => seen \subseteq C)
<1>1. Init => Within(C)
  BY DEF Init, Within
<1>2. Within(C) /\ [Next]_vars => Within(C)'
  BY WithinIsInductive
<1>3. Within(C) => (pc = "hull" /\ Component(C) => seen \subseteq C)
  BY DEF Within
<1> QED
  BY <1>1, <1>2, <1>3, PTL DEF Spec

-----------------------------------------------------------------------------
(* No turn of build_hull's loop leaves things as they are: it collects a node *)
(* or takes one off the worklist, for every call.                            *)
THEOREM LoopAlwaysAdvances == Spec => LoopAdvances
<1> DEFINE Advance ==
        \/ seen \subseteq seen' /\ seen' # seen
        \/ seen' = seen /\ worklist' \subseteq worklist /\ worklist' # worklist
        InLoop == pc = "hull" /\ pc' = "hull" /\ caller' = caller
<1>1. [Next]_vars => [InLoop => Advance]_vars
  <2> SUFFICES ASSUME Next, InLoop PROVE Advance
    OBVIOUS
  <2>1. CASE Assemble
    BY <2>1 DEF Assemble
  <2>2. ASSUME NEW n \in worklist, PopNode(n) PROVE Advance
    <3>1. CASE n \in seen
      BY <2>2, <3>1 DEF PopNode
    <3>2. CASE n \notin seen
      BY <2>2, <3>2 DEF PopNode
    <3> QED
      BY <3>1, <3>2
  <2>3. ASSUME NEW order \in Orders, FinishHull(order) PROVE FALSE
    <3>1. caller = "trigger" /\ Atomic
      BY <2>3 DEF FinishHull, Return
    <3>2. caller' = "atomic"
      BY <3>1, AtomicCallsOrReturns DEF CallBuildHull
    <3> QED
      BY <3>1, <3>2
  <2> QED
    BY <2>1, <2>2, <2>3 DEF Next
<1> QED
  BY <1>1, PTL DEF Spec, LoopAdvances

-----------------------------------------------------------------------------
(* --------------- least numbers, and verses in their order --------------- *)

(* The least of some numbers is one of them.  The numbers below them all are *)
(* 0 .. c - 1, if there are c of them, so that c is such a number.           *)
LEMMA LeastIsOne ==
    ASSUME NEW numbers, numbers \subseteq Nat, numbers # {}
    PROVE  /\ Min(numbers) \in numbers
           /\ \A i \in numbers : Min(numbers) =< i
<1>0. PICK n \in numbers : n \in Nat
  OBVIOUS
<1> DEFINE Sooner == {i \in 0 .. n : \A j \in numbers : i < j}
           c == Cardinality(Sooner)
<1>1. IsFiniteSet(Sooner) /\ c \in Nat
  <2>1. IsFiniteSet(0 .. n)
    BY <1>0, FS_Interval
  <2> QED
    BY <2>1, FS_Subset, FS_CardinalityType
<1>2. n \notin Sooner
  BY <1>0
<1>3. \A i \in Sooner : 0 .. i \subseteq Sooner
  BY <1>0
<1>4. \A k \in Nat : Cardinality(0 .. k) = k + 1 /\ IsFiniteSet(0 .. k)
  BY FS_Interval
<1> HIDE DEF Sooner
<1>5. c \notin Sooner
  <2> SUFFICES ASSUME c \in Sooner PROVE FALSE
    OBVIOUS
  <2>1. Cardinality(0 .. c) =< c
    BY <1>1, <1>3, FS_Subset
  <2> QED
    BY <1>1, <1>4, <2>1
<1>6. c # 0 => c - 1 \in Sooner
  <2> SUFFICES ASSUME c # 0, c - 1 \notin Sooner PROVE FALSE
    OBVIOUS
  <2>1. Sooner \subseteq 0 .. c - 2
    <3> SUFFICES ASSUME NEW i \in Sooner PROVE i \in 0 .. c - 2
      OBVIOUS
    <3>1. i \in Nat
      BY DEF Sooner
    <3>2. c - 1 \notin 0 .. i
      BY <1>3
    <3> QED
      BY <1>1, <3>1, <3>2
  <2>2. CASE c = 1
    <3>1. Sooner = {}
      BY <2>1, <2>2
    <3> QED
      BY <3>1, <2>2, FS_EmptySet
  <2>3. CASE c # 1
    <3>1. c - 2 \in Nat
      BY <1>1, <2>3
    <3>2. c =< Cardinality(0 .. c - 2)
      BY <1>4, <2>1, <3>1, FS_Subset
    <3>3. Cardinality(0 .. c - 2) = c - 2 + 1
      BY <1>4, <3>1
    <3> QED
      BY <1>1, <3>2, <3>3
  <2> QED
    BY <2>2, <2>3
<1>7. c \in 0 .. n /\ \A j \in numbers : c =< j
  <2>1. CASE c = 0
    BY <1>0, <2>1
  <2>2. CASE c # 0
    <3>1. c - 1 \in Sooner
      BY <1>6, <2>2
    <3>2. c - 1 \in 0 .. n /\ \A j \in numbers : c - 1 < j
      BY <3>1 DEF Sooner
    <3>3. \A j \in numbers : c =< j
      BY <1>1, <3>2
    <3> QED
      BY <1>0, <1>1, <3>2, <3>3
  <2> QED
    BY <2>1, <2>2
<1>8. c \in numbers
  BY <1>5, <1>7 DEF Sooner
<1> HIDE DEF c
<1> QED
  BY <1>7, <1>8 DEF Min

(* Induction on the natural numbers, over a set instead of an operator. *)
LEMMA Induction ==
    ASSUME NEW S, 0 \in S, \A k \in Nat : k \in S => k + 1 \in S
    PROVE  Nat \subseteq S
<1> SUFFICES ASSUME Nat \ S # {} PROVE FALSE
  OBVIOUS
<1> DEFINE m == Min(Nat \ S)
<1>1. m \in Nat \ S /\ \A i \in Nat \ S : m =< i
  BY LeastIsOne
<1> HIDE DEF m
<1>2. m # 0 /\ m - 1 \in Nat /\ m - 1 \in S
  BY <1>1
<1> QED
  BY <1>1, <1>2
(* Verses of one part in their order. *)
Alike(S) ==
    /\ S \subseteq Verses
    /\ \A x, y \in S : x.part = y.part

(* Some verses are finitely many, and each is made of its coordinates. *)
LEMMA VersesOf ==
    ASSUME NEW S, S \subseteq Verses
    PROVE  /\ IsFiniteSet(S) /\ Cardinality(S) \in Nat
           /\ \A x \in S : x = VerseId(x.c, x.v, x.part) /\ x.c \in Nat /\ x.v \in Nat
  BY CallsAssumption, FS_Subset, FS_CardinalityType

(* Verses of one part are strictly and totally ordered. *)
LEMMA AlikeOrder ==
    ASSUME NEW S, Alike(S)
    PROVE  /\ \A x \in S : ~ Before(x, x)
           /\ \A x, y \in S : x # y => Before(x, y) \/ Before(y, x)
           /\ \A x, y, z \in S : Before(x, y) /\ Before(y, z) => Before(x, z)
<1>1. \A x \in S : x = VerseId(x.c, x.v, x.part) /\ x.c \in Nat /\ x.v \in Nat
  BY VersesOf DEF Alike
<1>2. \A x \in S : PartRank(x.part) \in {0, 1}
  BY DEF PartRank
<1>3. \A x, y \in S : PartRank(x.part) = PartRank(y.part)
  BY DEF Alike
<1>4. \A x, y \in S : Before(x, y) <=> (x.c < y.c \/ (x.c = y.c /\ x.v < y.v))
  BY <1>1, <1>2, <1>3 DEF Before
<1>5. ASSUME NEW x \in S, NEW y \in S, x.c = y.c, x.v = y.v PROVE x = y
  <2>1. x = VerseId(x.c, x.v, x.part) /\ y = VerseId(y.c, y.v, y.part)
    BY <1>1
  <2>2. x.part = y.part
    BY DEF Alike
  <2> QED
    BY <1>5, <2>1, <2>2
<1>6. ASSUME NEW x \in S, NEW y \in S, x # y PROVE Before(x, y) \/ Before(y, x)
  BY <1>1, <1>4, <1>5, <1>6
<1>7. ASSUME NEW x \in S, NEW y \in S, NEW z \in S, Before(x, y), Before(y, z)
      PROVE  Before(x, z)
  BY <1>1, <1>4, <1>7
<1>8. ASSUME NEW x \in S PROVE ~ Before(x, x)
  BY <1>1, <1>4
<1> QED
  BY <1>6, <1>7, <1>8

(* How many come before a verse. *)
Rank(S, x) == Cardinality({y \in S : Before(y, x)})

(* How many are before a verse numbers the verses without a gap. *)
LEMMA RanksNumber ==
    ASSUME NEW S, Alike(S)
    PROVE  /\ \A x, y \in S : Rank(S, x) = Rank(S, y) => x = y
           /\ \A k \in 1 .. Cardinality(S) : \E x \in S : Rank(S, x) = k - 1
           /\ \A x \in S : Rank(S, x) \in 0 .. Cardinality(S) - 1
<1> DEFINE n == Cardinality(S)
           g == [x \in S |-> Rank(S, x) + 1]
<1>1. IsFiniteSet(S) /\ n \in Nat
  BY VersesOf DEF Alike
<1>2. ASSUME NEW x \in S PROVE Rank(S, x) \in 0 .. n - 1
  <2> DEFINE B == {y \in S : Before(y, x)}
  <2>1. B \in SUBSET S /\ x \notin B
    BY AlikeOrder
  <2>2. Cardinality(B) <= n /\ Cardinality(B) # n /\ Cardinality(B) \in Nat
    BY <1>1, <2>1, FS_Subset, FS_CardinalityType
  <2> HIDE DEF n, B
  <2>3. Cardinality(B) \in 0 .. n - 1
    BY <1>1, <2>2
  <2> QED
    BY <2>3 DEF Rank, B
<1>3. ASSUME NEW x \in S, NEW y \in S, Before(x, y) PROVE Rank(S, x) # Rank(S, y)
  <2> DEFINE A == {z \in S : Before(z, x)}
             B == {z \in S : Before(z, y)}
  <2>1. A \in SUBSET B /\ x \in B /\ x \notin A
    BY <1>3, AlikeOrder
  <2>2. IsFiniteSet(B)
    BY <1>1, FS_Subset
  <2> HIDE DEF A, B
  <2>3. Cardinality(A) # Cardinality(B)
    BY <2>1, <2>2, FS_Subset
  <2> QED
    BY <2>3 DEF Rank, A, B
<1>4. \A x, y \in S : Rank(S, x) = Rank(S, y) => x = y
  BY <1>3, AlikeOrder
<1>5. g \in Injection(S, 1 .. n)
  <2>1. g \in [S -> 1 .. n]
    <3> HIDE DEF n
    <3> QED BY <1>1, <1>2
  <2>2. ASSUME NEW x \in S, NEW y \in S, g[x] = g[y] PROVE x = y
    <3>1. Rank(S, x) + 1 = Rank(S, y) + 1
      BY <2>2
    <3>2. Rank(S, x) \in Int /\ Rank(S, y) \in Int
      BY <1>1, <1>2
    <3>3. Rank(S, x) = Rank(S, y)
      BY <3>1, <3>2
    <3> QED BY <3>3, <1>4
  <2> HIDE DEF g, n
  <2> QED
    BY <2>1, <2>2, Fun_IsInj
<1>6. IsFiniteSet(1 .. n) /\ Cardinality(1 .. n) = n
  <2> HIDE DEF n
  <2> QED BY <1>1, FS_Interval
<1>7. g \in Surjection(S, 1 .. n)
  <2> HIDE DEF g
  <2> QED BY <1>5, <1>6, FS_Injection
<1>8. ASSUME NEW k \in 1 .. n PROVE \E x \in S : Rank(S, x) = k - 1
  <2>1. PICK x \in S : g[x] = k
    BY <1>7 DEF Surjection
  <2>2. Rank(S, x) + 1 = k /\ Rank(S, x) \in Int /\ k \in Int
    BY <1>1, <1>2, <2>1
  <2> QED
    BY <2>2
<1> QED
  BY <1>2, <1>4, <1>8

(* Sorting verses of one part lists each of them. *)
LEMMA SortVerses ==
    ASSUME NEW S, Alike(S)
    PROVE  /\ Cardinality(S) \in Nat
           /\ sort_verses(S) \in [1 .. Cardinality(S) -> S]
           /\ Len(sort_verses(S)) = Cardinality(S)
           /\ \A x \in S : \E i \in 1 .. Cardinality(S) : sort_verses(S)[i] = x
<1> DEFINE n == Cardinality(S)
           s == sort_verses(S)
<1>1. n \in Nat
  BY VersesOf DEF Alike
<1>2. s = [i \in 1 .. n |-> CHOOSE x \in S : Rank(S, x) = i - 1]
  BY DEF sort_verses, Rank
<1>3. ASSUME NEW i \in 1 .. n PROVE s[i] \in S /\ Rank(S, s[i]) = i - 1
  <2>1. \E x \in S : Rank(S, x) = i - 1
    BY RanksNumber
  <2>2. s[i] = CHOOSE x \in S : Rank(S, x) = i - 1
    BY <1>2
  <2> HIDE DEF s
  <2> QED
    BY <2>1, <2>2
<1>4. s \in [1 .. n -> S]
  BY <1>2, <1>3
<1>5. Len(s) = n
  <2> HIDE DEF s, n
  <2>1. s \in Seq(S)
    BY <1>1, <1>4
  <2> QED
    BY <1>1, <1>4, <2>1, LenProperties
<1>6. ASSUME NEW x \in S PROVE \E i \in 1 .. n : s[i] = x
  <2>1. Rank(S, x) \in 0 .. n - 1
    BY RanksNumber
  <2> HIDE DEF n, s
  <2>2. PICK i \in 1 .. n : i - 1 = Rank(S, x)
    <3> DEFINE r == Rank(S, x)
    <3>1. r \in 0 .. n - 1
      BY <2>1
    <3> HIDE DEF r
    <3>2. \E i \in 1 .. n : i - 1 = r
      BY <1>1, <3>1
    <3> QED
      BY <3>2 DEF r
  <2>3. s[i] \in S /\ Rank(S, s[i]) = Rank(S, x)
    BY <1>3, <2>2
  <2> QED
    BY <2>2, <2>3, RanksNumber
<1> QED
  BY <1>1, <1>4, <1>5, <1>6

-----------------------------------------------------------------------------
(* ------------------------- one hop stays inside ------------------------- *)

(* The row found for a verse covers it: among finitely many candidates with  *)
(* natural widths there is a narrowest one, and a lowest of those.           *)
LEMMA FindsCovering ==
    ASSUME NEW rows, RowsOK(rows), NEW x, NEW upward \in BOOLEAN
    PROVE  LET i == find_covering_record(rows, x, upward)
           IN  i = 0 \/ (i \in DOMAIN rows /\ covers(Side(rows[i], upward), x))
<1> DEFINE candidates ==
            {i \in DOMAIN rows :
                /\ covers(Side(rows[i], upward), x)
                /\ rows[i].relation = "partial" => rows[i].part = x.part}
           W(i) == width(Side(rows[i], upward))
           best(i) ==
                \A j \in candidates \ {i} :
                    W(i) < W(j) \/ (W(i) = W(j) /\ i < j)
<1>1. candidates \subseteq Nat
  <2>1. DOMAIN rows = 1 .. Len(rows) /\ Len(rows) \in Nat
    BY DEF RowsOK
  <2> QED
    BY <2>1
<1>2. \A i \in candidates : W(i) \in Nat
  <2> SUFFICES ASSUME NEW i \in candidates PROVE W(i) \in Nat
    OBVIOUS
  <2>1. Side(rows[i], upward) # None /\ RowOK(rows[i])
    BY DEF covers, RowsOK
  <2>2. RangeOK(Side(rows[i], upward))
    BY <2>1 DEF RowOK, Side
  <2> QED
    BY <2>2 DEF RangeOK, width
<1>4. find_covering_record(rows, x, upward)
        = IF candidates = {} THEN 0 ELSE CHOOSE i \in candidates : best(i)
  BY DEF find_covering_record
<1> HIDE DEF W, candidates
<1>3. candidates # {} => \E i \in candidates : best(i)
  <2> SUFFICES ASSUME candidates # {} PROVE \E i \in candidates : best(i)
    OBVIOUS
  <2>1. {W(i) : i \in candidates} \subseteq Nat /\ {W(i) : i \in candidates} # {}
    BY <1>2
  <2>2. PICK w \in {W(i) : i \in candidates} : \A i \in candidates : w =< W(i)
    BY <2>1, LeastIsOne
  <2>3. {i \in candidates : W(i) = w} \subseteq Nat /\ {i \in candidates : W(i) = w} # {}
    BY <1>1
  <2>4. PICK i \in {k \in candidates : W(k) = w} :
            \A j \in {k \in candidates : W(k) = w} : i =< j
    BY <2>3, LeastIsOne
  <2>5. ASSUME NEW j \in candidates \ {i} PROVE W(i) < W(j) \/ (W(i) = W(j) /\ i < j)
    <3>1. W(i) = w /\ w =< W(j) /\ W(i) \in Nat /\ W(j) \in Nat /\ i \in Nat /\ j \in Nat
      BY <1>1, <1>2, <2>2, <2>4
    <3>2. CASE W(j) = w
      BY <2>4, <2>5, <3>1, <3>2
    <3>3. CASE W(j) # w
      BY <3>1, <3>3
    <3> QED
      BY <3>2, <3>3
  <2>6. best(i)
    BY <2>5
  <2> QED
    BY <2>4, <2>6
<1> HIDE DEF best
<1>5. candidates # {} => find_covering_record(rows, x, upward) \in candidates
  BY <1>3, <1>4
<1> QED
  BY <1>4, <1>5 DEF candidates

(* The verses that carry one part. *)
OfPart(part) == {x \in Verses : x.part = part}

(* A projection stays inside the numberings and carries the part along.  It  *)
(* is empty only for an excluded verse, which it never is on the way down.   *)
ProjectionOK(p, part, upward) ==
    /\ p.verses \subseteq OfPart(part)
    /\ p.siblings \subseteq OfPart(part)
    /\ p.relation \in Relations
    /\ p.excluded \in BOOLEAN
    /\ p.verses = {} <=> p.excluded
    /\ p.relation = "exclude" => p.excluded
    /\ ~ upward => ~ p.excluded

(* A range expands into verses of the part it is expanded with. *)
LEMMA ExpandOfPart ==
    ASSUME NEW r, RangeOK(r), NEW x \in Verses
    PROVE  /\ expand(r, x.part) \subseteq OfPart(x.part)
           /\ expand(r, x.part) # {}
           /\ \A v \in r.lo .. r.hi : VerseId(r.c, v, x.part) \in OfPart(x.part)
<1>1. expand(r, x.part) \subseteq Verses /\ r.lo \in r.lo .. r.hi
  BY DEF RangeOK
<1>2. \A v \in r.lo .. r.hi : VerseId(r.c, v, x.part) \in expand(r, x.part)
  BY DEF expand
<1>3. \A y \in expand(r, x.part) : y.part = x.part
  BY DEF expand, VerseId
<1> QED
  BY <1>1, <1>2, <1>3 DEF OfPart

(* Pairing by index lands inside the other range. *)
LEMMA ZipStaysInside ==
    ASSUME NEW from, NEW to, RangeOK(from), RangeOK(to), NEW x \in Verses,
           covers(from, x)
    PROVE  _zip_project(x, from, to) \in OfPart(x.part)
<1> DEFINE at == to.lo + x.v - from.lo
<1>1. /\ x.v \in Nat /\ from.lo \in Nat /\ to.lo \in Nat /\ to.hi \in Nat
      /\ from.lo =< x.v /\ to.lo =< to.hi
  <2>1. x.v \in from.lo .. from.hi
    BY DEF covers
  <2> QED
    BY <2>1, CallsAssumption DEF RangeOK
<1>2. at \in Nat /\ to.lo =< at
  BY <1>1
<1> HIDE DEF at
<1>3. Min({at, to.hi}) \in {at, to.hi} /\ Min({at, to.hi}) =< to.hi
  BY <1>1, <1>2, LeastIsOne
<1>4. Min({at, to.hi}) \in to.lo .. to.hi
  BY <1>1, <1>2, <1>3
<1> QED
  BY <1>4, ExpandOfPart DEF _zip_project, at

(* What a row does to a verse it covers stays inside the numbering. *)
LEMMA ProjectsThrough ==
    ASSUME NEW row, RowOK(row), NEW x \in Verses, NEW upward \in BOOLEAN,
           covers(Side(row, upward), x)
    PROVE  ProjectionOK(project_through(x, row, upward), x.part, upward)
<1> DEFINE relation == IF upward THEN row.relation
                       ELSE invert_relation(row.relation)
           from == Side(row, upward)
           far  == Side(row, ~upward)
           to   == IF far = None /\ relation = "merge"
                   THEN RefRange(from.c, from.lo, from.lo) ELSE far
<1>1. RangeOK(from) /\ from.lo \in from.lo .. from.hi /\ from.lo \in Nat
  BY DEF RowOK, Side, covers, RangeOK
<1>2. far # None => RangeOK(far)
  BY DEF RowOK, Side
<1>3. relation \in Relations
  BY DEF RowOK, Relations, invert_relation
<1>4. far = None => upward /\ relation \in {"exclude", "merge"}
  BY DEF RowOK, Side, covers
<1>5. far # None => relation # "exclude"
  BY DEF RowOK, Side, covers, invert_relation
<1>6. from # None
  BY DEF covers
<1>7. ASSUME far # None \/ relation = "merge"
      PROVE /\ VerseId(to.c, to.lo, x.part) \in OfPart(x.part)
            /\ far # None => RangeOK(to)
  <2>1. CASE far # None
    <3>1. RangeOK(to) /\ to.lo \in to.lo .. to.hi
      BY <1>2, <2>1 DEF RangeOK
    <3> QED
      BY <3>1, ExpandOfPart
  <2>2. CASE far = None
    <3>1. to = RefRange(from.c, from.lo, from.lo)
      BY <1>7, <2>2
    <3>2. to.c = from.c /\ to.lo = from.lo
      BY <3>1 DEF RefRange
    <3> QED
      BY <1>1, <2>2, <3>2, ExpandOfPart
  <2> QED
    BY <2>1, <2>2
<1>8. project_through(x, row, upward) =
        IF relation = "exclude" \/ to = None
        THEN Projection({}, "exclude", TRUE, {})
        ELSE CASE relation = "merge" ->
                    Projection({VerseId(to.c, to.lo, x.part)}, relation,
                               FALSE, expand(from, x.part))
               [] relation = "split" ->
                    Projection(expand(to, x.part), relation, FALSE, {})
               [] OTHER ->
                    Projection({_zip_project(x, from, to)}, relation,
                               FALSE, {})
  BY DEF project_through
<1>9. far # None => to = far
  OBVIOUS
<1> HIDE DEF relation, from, far, to
<1>10. CASE relation = "exclude" \/ to = None
  <2>1. upward
    BY <1>4, <1>5, <1>9, <1>10 DEF to
  <2> QED
    BY <1>8, <1>10, <2>1 DEF ProjectionOK, Projection, Relations
<1>11. CASE ~ (relation = "exclude" \/ to = None) /\ relation = "merge"
  <2>1. project_through(x, row, upward) =
            Projection({VerseId(to.c, to.lo, x.part)}, relation,
                               FALSE, expand(from, x.part))
    BY <1>8, <1>11
  <2>2. VerseId(to.c, to.lo, x.part) \in OfPart(x.part)
    BY <1>7, <1>11
  <2>3. expand(from, x.part) \subseteq OfPart(x.part)
    BY <1>1, ExpandOfPart
  <2> QED
    BY <1>3, <1>11, <2>1, <2>2, <2>3 DEF ProjectionOK, Projection
<1>12. CASE ~ (relation = "exclude" \/ to = None) /\ relation = "split"
  <2>1. project_through(x, row, upward)
            = Projection(expand(to, x.part), relation, FALSE, {})
    BY <1>8, <1>12
  <2>2. RangeOK(to)
    BY <1>4, <1>7, <1>12
  <2>3. expand(to, x.part) \subseteq OfPart(x.part) /\ expand(to, x.part) # {}
    BY <2>2, ExpandOfPart
  <2> QED
    BY <1>3, <1>12, <2>1, <2>3 DEF ProjectionOK, Projection
<1>13. CASE ~ (relation = "exclude" \/ to = None) /\ relation \notin {"split", "merge"}
  <2>1. project_through(x, row, upward)
            = Projection({_zip_project(x, from, to)}, relation, FALSE, {})
    BY <1>8, <1>13
  <2>2. RangeOK(to)
    BY <1>4, <1>7, <1>13
  <2>3. _zip_project(x, from, to) \in OfPart(x.part)
    BY <1>1, <2>2, ZipStaysInside DEF from
  <2> QED
    BY <1>3, <1>13, <2>1, <2>3 DEF ProjectionOK, Projection
<1> QED
  BY <1>10, <1>11, <1>12, <1>13

(* ... and so does a hop, with or without a covering row. *)
LEMMA Projects ==
    ASSUME NEW rows, RowsOK(rows), NEW x \in Verses, NEW upward \in BOOLEAN
    PROVE  ProjectionOK(project_verse(x, rows, upward), x.part, upward)
<1> DEFINE i == find_covering_record(rows, x, upward)
<1>1. CASE i = 0
  <2>1. project_verse(x, rows, upward) = Projection({x}, "one_to_one", FALSE, {})
    BY <1>1 DEF project_verse
  <2> QED
    BY <2>1 DEF ProjectionOK, Projection, OfPart, Relations
<1>2. CASE i # 0
  <2>1. i \in DOMAIN rows /\ covers(Side(rows[i], upward), x)
    BY <1>2, FindsCovering
  <2>2. project_verse(x, rows, upward) = project_through(x, rows[i], upward)
    BY <1>2 DEF project_verse
  <2> HIDE DEF i
  <2>3. RowOK(rows[i])
    BY <2>1 DEF RowsOK
  <2> QED
    BY <2>1, <2>2, <2>3, ProjectsThrough
<1> QED
  BY <1>1, <1>2

-----------------------------------------------------------------------------
(* ------------------- recursion, and one hop of a walk ------------------- *)

(* Functions defined by recursion on a number, with values in a set. *)
Steps(n, S) == [1 .. n -> [S -> S]]

(* What a recursion from a by step gives: step[k] leads from k - 1 to k. *)
Recursions(n, S, a, step) ==
    {f \in [0 .. n -> S] : /\ f[0] = a
                           /\ \A k \in 1 .. n : f[k] = step[k][f[k - 1]]}

(* A recursion defines a function, so that CHOOSE finds it. *)
LEMMA RecursionDefines ==
    ASSUME NEW n, n \in Nat, NEW S, NEW a, a \in S,
           NEW step, step \in Steps(n, S)
    PROVE  Recursions(n, S, a, step) # {}
<1> DEFINE D == {m \in Nat : m <= n =>
                    \E f \in [0 .. m -> S] :
                        f[0] = a /\ \A k \in 1 .. m : f[k] = step[k][f[k - 1]]}
<1>1. 0 \in D
  <2> DEFINE f == [k \in 0 .. 0 |-> a]
  <2>1. f \in [0 .. 0 -> S] /\ f[0] = a /\ 1 .. 0 = {}
    OBVIOUS
  <2> HIDE DEF f
  <2> QED
    BY <2>1
<1>2. ASSUME NEW m \in Nat, m \in D PROVE m + 1 \in D
  <2> SUFFICES ASSUME m + 1 <= n
               PROVE  \E f \in [0 .. m + 1 -> S] :
                        /\ f[0] = a
                        /\ \A k \in 1 .. m + 1 : f[k] = step[k][f[k - 1]]
    OBVIOUS
  <2>1. PICK f \in [0 .. m -> S] :
            f[0] = a /\ \A k \in 1 .. m : f[k] = step[k][f[k - 1]]
    BY <1>2
  <2> DEFINE g == [k \in 0 .. m + 1 |->
                        IF k = m + 1 THEN step[m + 1][f[m]] ELSE f[k]]
  <2>2. step[m + 1][f[m]] \in S
    <3>1. m + 1 \in 1 .. n /\ f[m] \in S
      BY <2>1
    <3> QED
      BY <3>1 DEF Steps
  <2>3. g \in [0 .. m + 1 -> S]
    BY <2>1, <2>2
  <2>4. g[0] = a
    BY <2>1
  <2>5. ASSUME NEW k \in 1 .. m + 1 PROVE g[k] = step[k][g[k - 1]]
    <3>1. CASE k = m + 1
      <4>1. g[k] = step[m + 1][f[m]] /\ g[m] = f[m] /\ k - 1 = m
        BY <3>1
      <4> HIDE DEF g
      <4> QED
        BY <3>1, <4>1
    <3>2. CASE k # m + 1
      <4>1. k \in 1 .. m /\ g[k] = f[k] /\ g[k - 1] = f[k - 1]
        BY <3>2
      <4> HIDE DEF g
      <4> QED
        BY <2>1, <4>1
    <3> QED
      BY <3>1, <3>2
  <2> HIDE DEF g
  <2> QED
    BY <2>3, <2>4, <2>5
<1>3. n \in D
  <2> HIDE DEF D
  <2> QED
    BY <1>1, <1>2, Induction
<1>4. PICK f \in [0 .. n -> S] :
            f[0] = a /\ \A k \in 1 .. n : f[k] = step[k][f[k - 1]]
  BY <1>3
<1> QED
  BY <1>4 DEF Recursions

(* What holds at 0 and is handed on holds up to n. *)
LEMMA StaysUpTo ==
    ASSUME NEW n \in Nat, NEW good, 0 \in good,
           \A k \in 1 .. n : k - 1 \in good => k \in good
    PROVE  0 .. n \subseteq good
<1> DEFINE D == {m \in Nat : m <= n => m \in good}
<1>1. 0 \in D
  OBVIOUS
<1>2. ASSUME NEW m \in Nat, m \in D PROVE m + 1 \in D
  <2> SUFFICES ASSUME m + 1 <= n PROVE m + 1 \in good
    OBVIOUS
  <2>1. m \in good /\ m + 1 \in 1 .. n /\ m + 1 - 1 = m
    BY <1>2
  <2> QED
    BY <2>1
<1> HIDE DEF D
<1>3. Nat \subseteq D
  BY <1>1, <1>2, Induction
<1> QED
  BY <1>3 DEF D

(* Composing two relations gives a relation, excluding only what was         *)
(* excluded.                                                                 *)
LEMMA ComposeInside ==
    ASSUME NEW left \in Relations, NEW right \in Relations
    PROVE  /\ compose(left, right) \in Relations
           /\ compose(left, right) = "exclude" => left = "exclude" \/ right = "exclude"
  BY DEF compose, Relations

(* The walks of some verses of one part. *)
Walks(part) ==
    [verses : SUBSET OfPart(part), relation : Relations, excluded : BOOLEAN,
     siblings : SUBSET OfPart(part)]

(* Only an exclusion names the relation so, and only a climb meets one. *)
HonestWalk(w, upward) ==
    /\ w.relation = "exclude" => w.excluded
    /\ ~ upward => ~ w.excluded

(* Verses that carry one part can be sorted. *)
LEMMA OfPartAlike ==
    ASSUME NEW part, NEW S \in SUBSET OfPart(part)
    PROVE  Alike(S)
  BY DEF OfPart, Alike

(* One hop leads from a walk to a walk, and takes every verse through its    *)
(* row.                                                                      *)
LEMMA AppliesHop ==
    ASSUME NEW part, NEW w \in Walks(part), NEW rows, RowsOK(rows),
           NEW upward \in BOOLEAN
    PROVE  LET next == ApplyHop(w, rows, upward)
           IN  /\ next \in Walks(part)
               /\ next.verses = UNION {project_verse(x, rows, upward).verses :
                                            x \in w.verses}
               /\ HonestWalk(w, upward) => HonestWalk(next, upward)
               /\ w.verses # {} /\ ~ upward => next.verses # {}
               /\ w.excluded => next.excluded
<1> DEFINE through(x) == project_verse(x, rows, upward)
           current == sort_verses(w.verses)
           n == Len(current)
           R == CHOOSE f : f = [k \in 0 .. n |->
                    IF k = 0 THEN w.relation
                    ELSE compose(f[k - 1], through(current[k]).relation)]
           next == ApplyHop(w, rows, upward)
<1>1. next = Projection(UNION {through(x).verses : x \in w.verses},
                   R[n],
                   w.excluded \/ \E x \in w.verses : through(x).excluded,
                   w.siblings \cup UNION {through(x).siblings : x \in w.verses})
  BY DEF ApplyHop
<1>2. /\ w.verses \subseteq OfPart(part) /\ w.relation \in Relations
      /\ w.excluded \in BOOLEAN /\ w.siblings \subseteq OfPart(part)
  BY DEF Walks
<1>3. ASSUME NEW x \in w.verses
      PROVE  /\ ProjectionOK(through(x), part, upward) /\ x \in OfPart(part)
  <2>1. x \in Verses /\ x.part = part /\ x \in OfPart(part)
    BY <1>2 DEF OfPart
  <2> QED
    BY <2>1, Projects
<1>4. n \in Nat /\ \A k \in 1 .. n : current[k] \in w.verses
  <2>1. Alike(w.verses)
    BY <1>2, OfPartAlike
  <2> QED
    BY <2>1, SortVerses
<1> HIDE DEF through, current, n, next
<1>5. \A k \in 1 .. n : through(current[k]).relation \in Relations
  BY <1>3, <1>4 DEF ProjectionOK
<1>6. R = [k \in 0 .. n |-> IF k = 0 THEN w.relation
                    ELSE compose(R[k - 1], through(current[k]).relation)]
  <2> DEFINE step == [k \in 1 .. n |-> [r \in Relations |->
                        compose(r, through(current[k]).relation)]]
  <2>1. step \in Steps(n, Relations)
    BY <1>5, ComposeInside DEF Steps
  <2>2. Recursions(n, Relations, w.relation, step) # {}
    <3> HIDE DEF step
    <3> QED
      BY <1>2, <1>4, <2>1, RecursionDefines
  <2>3. PICK f \in Recursions(n, Relations, w.relation, step) : TRUE
    BY <2>2
  <2>4. f = [k \in 0 .. n |-> IF k = 0 THEN w.relation
                    ELSE compose(f[k - 1], through(current[k]).relation)]
    <3>1. /\ f \in [0 .. n -> Relations] /\ f[0] = w.relation
          /\ \A k \in 1 .. n : f[k] = step[k][f[k - 1]]
      BY <2>3 DEF Recursions
    <3>2. ASSUME NEW k \in 1 .. n
          PROVE  f[k] = compose(f[k - 1], through(current[k]).relation)
      <4>1. f[k - 1] \in Relations
        BY <1>4, <3>1
      <4> QED
        BY <3>1, <4>1
    <3> QED
      BY <1>4, <3>1, <3>2
  <2> QED
    BY <2>4
<1> HIDE DEF R
<1>7. R[n] \in Relations
  <2> DEFINE good == {k \in 0 .. n : R[k] \in Relations}
  <2>1. 0 \in good
    BY <1>2, <1>4, <1>6
  <2>2. ASSUME NEW k \in 1 .. n, k - 1 \in good PROVE k \in good
    <3>1. R[k] = compose(R[k - 1], through(current[k]).relation)
      BY <1>4, <1>6
    <3> QED
      BY <1>5, <2>2, <3>1, ComposeInside
  <2> HIDE DEF good
  <2>3. n \in good
    BY <1>4, <2>1, <2>2, StaysUpTo
  <2> QED
    BY <2>3 DEF good
<1>8. (R[n] = "exclude" => w.relation = "exclude" \/ \E x \in w.verses : through(x).excluded)
  <2> DEFINE good == {k \in 0 .. n : /\ R[k] \in Relations
                                     /\ R[k] = "exclude" =>
                                          \/ w.relation = "exclude"
                                          \/ \E x \in w.verses : through(x).excluded}
  <2>1. 0 \in good
    BY <1>2, <1>4, <1>6
  <2>2. ASSUME NEW k \in 1 .. n, k - 1 \in good PROVE k \in good
    <3>1. R[k] = compose(R[k - 1], through(current[k]).relation)
      BY <1>4, <1>6
    <3>2. through(current[k]).relation = "exclude" => \E x \in w.verses : through(x).excluded
      BY <1>3, <1>4 DEF ProjectionOK
    <3>3. /\ R[k - 1] \in Relations
          /\ R[k - 1] = "exclude" =>
                \/ w.relation = "exclude"
                \/ \E x \in w.verses : through(x).excluded
      BY <2>2
    <3>4. /\ R[k] \in Relations
          /\ R[k] = "exclude" =>
                \/ R[k - 1] = "exclude"
                \/ through(current[k]).relation = "exclude"
      BY <1>5, <3>1, <3>3, ComposeInside
    <3> QED
      BY <3>2, <3>3, <3>4
  <2> HIDE DEF good
  <2>3. n \in good
    BY <1>4, <2>1, <2>2, StaysUpTo
  <2> QED
    BY <2>3 DEF good
<1>9. /\ next.verses = UNION {through(x).verses : x \in w.verses}
      /\ next.relation = R[n]
      /\ next.excluded = (w.excluded \/ \E x \in w.verses : through(x).excluded)
  BY <1>1 DEF Projection
<1>10. next \in Walks(part)
  <2>1. UNION {through(x).verses : x \in w.verses} \subseteq OfPart(part)
    BY <1>3 DEF ProjectionOK
  <2>2. w.siblings \cup UNION {through(x).siblings : x \in w.verses} \subseteq OfPart(part)
    BY <1>2, <1>3 DEF ProjectionOK
  <2>3. (w.excluded \/ \E x \in w.verses : through(x).excluded) \in BOOLEAN
    OBVIOUS
  <2> QED
    BY <1>1, <1>7, <2>1, <2>2, <2>3 DEF Projection, Walks
<1>11. HonestWalk(w, upward) => HonestWalk(next, upward)
  BY <1>3, <1>8, <1>9 DEF HonestWalk, ProjectionOK
<1>12. w.verses # {} /\ ~ upward => next.verses # {}
  BY <1>3, <1>9 DEF ProjectionOK
<1> QED
  BY <1>9, <1>10, <1>11, <1>12 DEF next, through

-----------------------------------------------------------------------------
(* -------------------------------- walks --------------------------------- *)

(* The stages of a walk: what apply_hops computes, by the number of hops. *)
StagesOf(verses, hops, upward) ==
    CHOOSE walk : walk = [k \in 0 .. Len(hops) |->
        IF k = 0 THEN Projection(verses, "one_to_one", FALSE, {})
        ELSE ApplyHop(walk[k - 1], hops[k], upward)]

(* The stages follow from each other. *)
IsWalk(walk, verses, part, hops, upward) ==
    /\ Len(hops) \in Nat
    /\ walk[0] = Projection(verses, "one_to_one", FALSE, {})
    /\ \A k \in 1 .. Len(hops) :
            /\ RowsOK(hops[k]) /\ walk[k - 1] \in Walks(part)
            /\ walk[k] = ApplyHop(walk[k - 1], hops[k], upward)

(* There are such stages, each follows from the one before, and the walk is  *)
(* the last of them.                                                         *)
LEMMA WalkUnfolds ==
    ASSUME NEW part, NEW verses, verses \subseteq OfPart(part),
           NEW hops, HopsOK(hops), NEW upward \in BOOLEAN
    PROVE  LET walk == StagesOf(verses, hops, upward)
           IN  /\ IsWalk(walk, verses, part, hops, upward)
               /\ apply_hops(verses, hops, upward) = walk[Len(hops)]
<1> DEFINE n == Len(hops)
           start == Projection(verses, "one_to_one", FALSE, {})
           walk == StagesOf(verses, hops, upward)
           step == [k \in 1 .. n |-> [w \in Walks(part) |->
                        ApplyHop(w, hops[k], upward)]]
<1>1. n \in Nat /\ \A k \in 1 .. n : RowsOK(hops[k])
  <2>1. n \in Nat /\ DOMAIN hops = 1 .. n
    BY DEF HopsOK
  <2> QED
    BY <2>1 DEF HopsOK
<1>2. start \in Walks(part)
  BY DEF Projection, Walks, Relations
<1> HIDE DEF n
<1>3. step \in Steps(n, Walks(part))
  BY <1>1, AppliesHop DEF Steps
<1>4. Recursions(n, Walks(part), start, step) # {}
  <2> HIDE DEF step, start
  <2> QED
    BY <1>1, <1>2, <1>3, RecursionDefines
<1>5. PICK f \in Recursions(n, Walks(part), start, step) : TRUE
  BY <1>4
<1>6. f = [k \in 0 .. n |-> IF k = 0 THEN start
                            ELSE ApplyHop(f[k - 1], hops[k], upward)]
  <2>1. /\ f \in [0 .. n -> Walks(part)] /\ f[0] = start
        /\ \A k \in 1 .. n : f[k] = step[k][f[k - 1]]
    <3> HIDE DEF step, start
    <3> QED
      BY <1>5 DEF Recursions
  <2>2. ASSUME NEW k \in 1 .. n PROVE f[k] = ApplyHop(f[k - 1], hops[k], upward)
    <3>1. f[k - 1] \in Walks(part)
      BY <1>1, <2>1
    <3> QED
      BY <2>1, <3>1
  <2> HIDE DEF step, start
  <2> QED
    BY <1>1, <2>1, <2>2
<1>7. walk = [k \in 0 .. n |-> IF k = 0 THEN start
                               ELSE ApplyHop(walk[k - 1], hops[k], upward)]
  BY <1>6 DEF StagesOf, n
<1> HIDE DEF walk, start
<1>8. walk[0] = start
  BY <1>1, <1>7
<1>9. \A k \in 1 .. n : walk[k] = ApplyHop(walk[k - 1], hops[k], upward)
  BY <1>1, <1>7
<1>10. \A k \in 0 .. n : walk[k] \in Walks(part)
  <2> DEFINE good == {k \in 0 .. n : walk[k] \in Walks(part)}
  <2>1. 0 \in good
    BY <1>1, <1>2, <1>8
  <2>2. ASSUME NEW k \in 1 .. n, k - 1 \in good PROVE k \in good
    BY <1>1, <1>9, <2>2, AppliesHop
  <2>3. 0 .. n \subseteq good
    <3> HIDE DEF good
    <3> QED
      BY <1>1, <2>1, <2>2, StaysUpTo
  <2> QED
    BY <2>3
<1>11. apply_hops(verses, hops, upward) = walk[n]
  BY DEF apply_hops, walk, n, StagesOf
<1>12. \A k \in 1 .. n : k - 1 \in 0 .. n
  BY <1>1
<1> QED
  BY <1>1, <1>8, <1>9, <1>10, <1>11, <1>12 DEF IsWalk, walk, n, start

(* A walk stays inside the numberings and keeps the part; only an exclusion  *)
(* names its relation so; and a descent meets none and loses nothing.        *)
LEMMA WalkStaysInside ==
    ASSUME NEW part, NEW verses, verses \subseteq OfPart(part),
           NEW hops, HopsOK(hops), NEW upward \in BOOLEAN
    PROVE  LET walk == apply_hops(verses, hops, upward)
           IN  /\ walk \in Walks(part)
               /\ HonestWalk(walk, upward)
               /\ verses # {} /\ ~ upward => walk.verses # {}
<1> DEFINE n == Len(hops)
           walk == StagesOf(verses, hops, upward)
           good == {k \in 0 .. n : /\ walk[k] \in Walks(part)
                                   /\ HonestWalk(walk[k], upward)
                                   /\ verses # {} /\ ~ upward => walk[k].verses # {}}
<1>1. /\ n \in Nat /\ walk[0] = Projection(verses, "one_to_one", FALSE, {})
      /\ \A k \in 1 .. n : /\ RowsOK(hops[k]) /\ walk[k - 1] \in Walks(part)
                           /\ walk[k] = ApplyHop(walk[k - 1], hops[k], upward)
      /\ apply_hops(verses, hops, upward) = walk[n]
  <2>1. IsWalk(walk, verses, part, hops, upward)
        /\ apply_hops(verses, hops, upward) = walk[n]
    BY WalkUnfolds
  <2> HIDE DEF walk
  <2> QED
    BY <2>1 DEF IsWalk
<1> HIDE DEF walk, n
<1>2. 0 \in good
  <2>1. walk[0] \in Walks(part)
    BY <1>1 DEF Projection, Walks, Relations
  <2>2. HonestWalk(walk[0], upward) /\ (verses # {} => walk[0].verses # {})
    BY <1>1 DEF Projection, HonestWalk
  <2>3. 0 \in 0 .. n
    BY <1>1
  <2> QED
    BY <2>1, <2>2, <2>3
<1>3. ASSUME NEW k \in 1 .. n, k - 1 \in good PROVE k \in good
  BY <1>1, <1>3, AppliesHop
<1>4. n \in good
  <2> HIDE DEF good
  <2> QED
    BY <1>1, <1>2, <1>3, StaysUpTo
<1> QED
  BY <1>1, <1>4

(* One hop of some verses, and of a union of them. *)
Through(S, rows, upward) == UNION {project_verse(x, rows, upward).verses : x \in S}

(* A hop of a union is the union of the hops. *)
LEMMA ThroughUnion ==
    ASSUME NEW sets, NEW rows, NEW upward
    PROVE  Through(UNION sets, rows, upward)
             = UNION {Through(S, rows, upward) : S \in sets}
  BY DEF Through

(* Verses walk together as each walks by itself. *)
LEMMA WalksTogether ==
    ASSUME NEW part, NEW verses, verses \subseteq OfPart(part),
           NEW hops, HopsOK(hops), NEW upward \in BOOLEAN
    PROVE  apply_hops(verses, hops, upward).verses
             = UNION {apply_hops({x}, hops, upward).verses : x \in verses}
<1> DEFINE n == Len(hops)
           at(S, k) == StagesOf(S, hops, upward)[k].verses
           alone(k) == {at({x}, k) : x \in verses}
           good == {k \in 0 .. n : at(verses, k) = UNION alone(k)}
<1>1. ASSUME NEW S, S \subseteq OfPart(part)
      PROVE  /\ n \in Nat /\ at(S, 0) = S
             /\ \A k \in 1 .. n : at(S, k) = Through(at(S, k - 1), hops[k], upward)
             /\ apply_hops(S, hops, upward).verses = at(S, n)
  <2> DEFINE walk == StagesOf(S, hops, upward)
  <2>1. /\ IsWalk(walk, S, part, hops, upward)
        /\ apply_hops(S, hops, upward) = walk[n]
    BY <1>1, WalkUnfolds
  <2> HIDE DEF walk
  <2>2. walk[0].verses = S /\ n \in Nat
    BY <2>1 DEF IsWalk, Projection
  <2>3. ASSUME NEW k \in 1 .. n
        PROVE  walk[k].verses = Through(walk[k - 1].verses, hops[k], upward)
    <3>1. /\ RowsOK(hops[k]) /\ walk[k - 1] \in Walks(part)
          /\ walk[k] = ApplyHop(walk[k - 1], hops[k], upward)
      BY <2>1 DEF IsWalk
    <3> QED
      BY <3>1, AppliesHop DEF Through
  <2>4. /\ n \in Nat /\ walk[0].verses = S
        /\ \A k \in 1 .. n :
                walk[k].verses = Through(walk[k - 1].verses, hops[k], upward)
        /\ apply_hops(S, hops, upward).verses = walk[n].verses
    BY <2>1, <2>2, <2>3
  <2> HIDE DEF n
  <2> QED
    BY <2>4 DEF walk
<1>2. \A x \in verses : {x} \subseteq OfPart(part)
  OBVIOUS
<1> HIDE DEF at, n
<1>3. n \in Nat
  BY <1>1
<1>4. 0 \in good
  <2>1. at(verses, 0) = verses /\ \A x \in verses : at({x}, 0) = {x}
    BY <1>1, <1>2
  <2>2. at(verses, 0) = UNION alone(0)
    <3>1. alone(0) = {{x} : x \in verses}
      BY <2>1
    <3>2. UNION {{x} : x \in verses} = verses
      OBVIOUS
    <3> QED
      BY <2>1, <3>1, <3>2
  <2> HIDE DEF alone
  <2> QED
    BY <1>3, <2>2
<1>5. ASSUME NEW k \in 1 .. n, k - 1 \in good PROVE k \in good
  <2>1. at(verses, k - 1) = UNION alone(k - 1)
    BY <1>5
  <2>2. at(verses, k) = Through(at(verses, k - 1), hops[k], upward)
    BY <1>1
  <2>3. \A x \in verses : at({x}, k) = Through(at({x}, k - 1), hops[k], upward)
    BY <1>1, <1>2
  <2>4. alone(k) = {Through(S, hops[k], upward) : S \in alone(k - 1)}
    BY <2>3
  <2>5. at(verses, k) = UNION alone(k)
    <3> HIDE DEF alone
    <3> QED
      BY <2>1, <2>2, <2>4, ThroughUnion
  <2> HIDE DEF alone
  <2> QED
    BY <2>5, <1>3
<1>6. n \in good
  <2> HIDE DEF good
  <2> QED
    BY <1>3, <1>4, <1>5, StaysUpTo
<1>7. apply_hops(verses, hops, upward).verses = UNION alone(n)
  BY <1>1, <1>6
<1>8. \A x \in verses : apply_hops({x}, hops, upward).verses = at({x}, n)
  BY <1>1, <1>2
<1> QED
  BY <1>7, <1>8

(* Chains are well formed backwards ... *)
LEMMA HopsReversed ==
    ASSUME NEW hops, HopsOK(hops)
    PROVE  HopsOK(Reverse(hops))
<1> DEFINE n == Len(hops)
<1>1. n \in Nat /\ DOMAIN hops = 1 .. n
  BY DEF HopsOK
<1>2. Reverse(hops) = [i \in 1 .. n |-> hops[n - i + 1]]
  BY DEF Reverse
<1> HIDE DEF n
<1>3. \A i \in 1 .. n : n - i + 1 \in 1 .. n
  BY <1>1
<1>4. DOMAIN Reverse(hops) = 1 .. n /\ \A i \in 1 .. n : RowsOK(Reverse(hops)[i])
  BY <1>1, <1>2, <1>3 DEF HopsOK
<1>5. Reverse(hops) \in [1 .. n -> ToSet(Reverse(hops))]
  BY <1>2, <1>4 DEF ToSet
<1>6. Reverse(hops) \in Seq(ToSet(Reverse(hops)))
  BY <1>1, <1>5
<1> QED
  BY <1>4, <1>6 DEF HopsOK

(* ... and cut before a hop. *)
LEMMA HopsCut ==
    ASSUME NEW hops, HopsOK(hops), NEW k \in DOMAIN hops
    PROVE  HopsOK(SubSeq(hops, 1, k - 1))
<1> DEFINE n == Len(hops)
           s == SubSeq(hops, 1, k - 1)
<1>1. n \in Nat /\ DOMAIN hops = 1 .. n
  BY DEF HopsOK
<1>2. s = [i \in 1 .. (k - 1) |-> hops[i]]
  BY <1>1
<1> HIDE DEF n, s
<1>3. DOMAIN s = 1 .. (k - 1) /\ \A i \in 1 .. (k - 1) : RowsOK(s[i])
  BY <1>1, <1>2 DEF HopsOK
<1>4. s \in [1 .. (k - 1) -> ToSet(s)]
  BY <1>2, <1>3 DEF ToSet
<1>5. s \in Seq(ToSet(s))
  BY <1>1, <1>4
<1> QED
  BY <1>3, <1>5 DEF HopsOK, s

-----------------------------------------------------------------------------
(* -------------------------------- calls --------------------------------- *)

(* What CallsAssumption says of a call. *)
CallOK(q) ==
    /\ MembersOK(q.members) /\ HopsOK(q.srcHops) /\ HopsOK(q.tgtHops)

(* The part all members of a call share. *)
PartOf(q) == (CHOOSE m \in q.members : TRUE).part

(* The members of a call are verses of its part. *)
LEMMA MembersOfPart ==
    ASSUME NEW q, CallOK(q)
    PROVE  q.members \subseteq OfPart(PartOf(q)) /\ q.members # {}
<1>1. PICK m \in q.members : PartOf(q) = m.part
  BY DEF CallOK, MembersOK, PartOf
<1>2. \A x \in q.members : x \in Verses /\ x.part = PartOf(q)
  BY <1>1 DEF CallOK, MembersOK
<1> QED
  BY <1>2 DEF CallOK, MembersOK, OfPart

(* The neighbours of a verse are verses of its part; a descent finds some. *)
LEMMA NeighbourSets ==
    ASSUME NEW part, NEW x \in OfPart(part), NEW hops, HopsOK(hops)
    PROVE  /\ up_set(x, hops) \subseteq OfPart(part)
           /\ down_set(x, hops) \subseteq OfPart(part)
           /\ piv_of_target(x, hops) \subseteq OfPart(part)
           /\ src_of_pivot(x, hops) \subseteq OfPart(part)
           /\ src_of_pivot(x, hops) # {}
           /\ down_set(x, hops) = apply_hops({x}, hops, FALSE).verses
           /\ ~ apply_hops({x}, hops, TRUE).excluded
                => up_set(x, hops) = apply_hops({x}, hops, TRUE).verses
<1>1. ASSUME NEW h, HopsOK(h)
      PROVE  /\ apply_hops({x}, h, TRUE).verses \subseteq OfPart(part)
             /\ apply_hops({x}, h, FALSE).verses \subseteq OfPart(part)
             /\ apply_hops({x}, h, FALSE).verses # {}
             /\ ~ apply_hops({x}, h, FALSE).excluded
  <2>1. {x} \subseteq OfPart(part) /\ {x} # {}
    OBVIOUS
  <2>2. apply_hops({x}, h, TRUE) \in Walks(part)
    BY <1>1, <2>1, WalkStaysInside
  <2>3. /\ apply_hops({x}, h, FALSE) \in Walks(part)
        /\ HonestWalk(apply_hops({x}, h, FALSE), FALSE)
        /\ apply_hops({x}, h, FALSE).verses # {}
    BY <1>1, <2>1, WalkStaysInside
  <2> QED
    BY <2>2, <2>3 DEF Walks, HonestWalk
<1>2. HopsOK(Reverse(hops))
  BY HopsReversed
<1> QED
  BY <1>1, <1>2 DEF up_set, down_set, piv_of_target, src_of_pivot, Reached

(* Where a verse leads to. *)
Counterparts(q, m) ==
    apply_hops(apply_hops({m}, q.srcHops, TRUE).verses, q.tgtHops, FALSE).verses

(* Its counterparts are those of the pivots it climbs to. *)
LEMMA CounterpartsThroughPivots ==
    ASSUME NEW q, CallOK(q), NEW part, NEW m \in OfPart(part)
    PROVE  /\ apply_hops({m}, q.srcHops, TRUE).verses \subseteq OfPart(part)
           /\ Counterparts(q, m)
                = UNION {down_set(p, q.tgtHops) :
                            p \in apply_hops({m}, q.srcHops, TRUE).verses}
<1> DEFINE pivots == apply_hops({m}, q.srcHops, TRUE).verses
<1>1. {m} \subseteq OfPart(part) /\ HopsOK(q.srcHops) /\ HopsOK(q.tgtHops)
  BY DEF CallOK
<1>2. pivots \subseteq OfPart(part)
  BY <1>1, WalkStaysInside DEF Walks
<1> HIDE DEF pivots
<1>3. apply_hops(pivots, q.tgtHops, FALSE).verses
        = UNION {apply_hops({p}, q.tgtHops, FALSE).verses : p \in pivots}
  BY <1>1, <1>2, WalksTogether
<1>4. \A p \in pivots : down_set(p, q.tgtHops) = apply_hops({p}, q.tgtHops, FALSE).verses
  BY <1>1, <1>2, NeighbourSets
<1>5. UNION {apply_hops({p}, q.tgtHops, FALSE).verses : p \in pivots}
        = UNION {down_set(p, q.tgtHops) : p \in pivots}
  BY <1>4
<1>6. Counterparts(q, m) = apply_hops(pivots, q.tgtHops, FALSE).verses
  BY DEF Counterparts, pivots
<1> QED
  BY <1>2, <1>3, <1>5, <1>6 DEF pivots

(* One walk through both chains: only the climb can drop it. *)
LEMMA WalkFacts ==
    ASSUME CallOK(query), NEW part, NEW m \in OfPart(part)
    PROVE  LET walk == Walk({m})
           IN  /\ walk.targets = Counterparts(query, m)
               /\ walk.targets \subseteq OfPart(part)
               /\ walk.siblings \subseteq OfPart(part)
               /\ walk.up_rel \in Relations /\ walk.down_rel \in Relations
               /\ walk.composed \in Relations
               /\ ~ apply_hops({m}, query.srcHops, TRUE).excluded
                    => ~ walk.dropped /\ walk.composed # "exclude"
<1> DEFINE up == apply_hops({m}, query.srcHops, TRUE)
           down == apply_hops(up.verses, query.tgtHops, FALSE)
<1>1. {m} \subseteq OfPart(part) /\ HopsOK(query.srcHops) /\ HopsOK(query.tgtHops)
  BY DEF CallOK
<1>2. up \in Walks(part) /\ HonestWalk(up, TRUE)
  BY <1>1, WalkStaysInside
<1>3. down \in Walks(part) /\ HonestWalk(down, FALSE)
  <2> HIDE DEF up
  <2>1. up.verses \subseteq OfPart(part)
    BY <1>2 DEF Walks
  <2> QED
    BY <1>1, <2>1, WalkStaysInside
<1>4. Walk({m}) = [targets |-> down.verses, siblings |-> up.siblings,
                   up_rel |-> up.relation, down_rel |-> down.relation,
                   composed |-> compose(up.relation, down.relation),
                   dropped |-> \/ up.excluded /\ up.verses = {}
                               \/ down.excluded /\ down.verses = {}]
  BY DEF Walk
<1>5. down.verses = Counterparts(query, m)
  BY DEF Counterparts
<1> HIDE DEF up, down
<1>6. /\ up.relation \in Relations /\ down.relation \in Relations
      /\ ~ down.excluded /\ down.relation # "exclude"
      /\ up.relation = "exclude" => up.excluded
      /\ down.verses \subseteq OfPart(part) /\ up.siblings \subseteq OfPart(part)
  BY <1>2, <1>3 DEF Walks, HonestWalk
<1>7. /\ compose(up.relation, down.relation) \in Relations
      /\ ~ up.excluded => compose(up.relation, down.relation) # "exclude"
  BY <1>6, ComposeInside
<1> DEFINE walk == Walk({m})
<1>8. /\ walk.targets = down.verses /\ walk.siblings = up.siblings
      /\ walk.up_rel = up.relation /\ walk.down_rel = down.relation
      /\ walk.composed = compose(up.relation, down.relation)
  BY <1>4
<1>10. walk.dropped <=> \/ up.excluded /\ up.verses = {}
                        \/ down.excluded /\ down.verses = {}
  BY <1>4
<1> HIDE DEF walk
<1>9. /\ walk.targets = Counterparts(query, m)
      /\ walk.targets \subseteq OfPart(part)
      /\ walk.siblings \subseteq OfPart(part)
      /\ walk.up_rel \in Relations /\ walk.down_rel \in Relations
      /\ walk.composed \in Relations
      /\ ~ up.excluded => ~ walk.dropped /\ walk.composed # "exclude"
  BY <1>5, <1>6, <1>7, <1>8, <1>10
<1> QED
  BY <1>9 DEF up, walk

(* The relation named for several is one of them. *)
LEMMA DominantIsOne ==
    ASSUME NEW relations, relations \subseteq Relations
    PROVE  dominant_relation(relations) \in Relations \cup {None}
<1> DEFINE others == relations \ {"one_to_one"}
           ranks == {priority_rank[r] : r \in others}
<1>1. \A r \in others : priority_rank[r] \in Nat
  BY DEF Relations, priority_rank
<1>2. others # {} => \E r \in others : \A q \in others : priority_rank[r] <= priority_rank[q]
  <2> SUFFICES ASSUME others # {}
               PROVE  \E r \in others : \A q \in others : priority_rank[r] <= priority_rank[q]
    OBVIOUS
  <2>1. ranks \subseteq Nat /\ ranks # {}
    BY <1>1
  <2> HIDE DEF ranks
  <2>2. Min(ranks) \in ranks /\ \A i \in ranks : Min(ranks) =< i
    BY <2>1, LeastIsOne
  <2> QED
    BY <2>2 DEF ranks
<1>3. dominant_relation(relations) = IF others = {} THEN None
        ELSE CHOOSE r \in others : \A q \in others : priority_rank[r] <= priority_rank[q]
  BY DEF dominant_relation
<1>4. others \subseteq Relations
  OBVIOUS
<1> HIDE DEF others
<1> QED
  BY <1>2, <1>3, <1>4

-----------------------------------------------------------------------------
(* -------------------------- the range trigger --------------------------- *)

(* The chain on a side. *)
HopsOn(q, side) == IF side = "source" THEN q.srcHops ELSE q.tgtHops

(* A trigger is a hop of its side and the range met there. *)
TriggerOK(q, t) ==
    /\ t.side \in {"source", "target"}
    /\ t.hop \in DOMAIN HopsOn(q, t.side)
    /\ t.ordinal \in Nat
    /\ RangeOK(t.cover)

(* Each candidate is a range met at a hop of its side. *)
LEMMA CandidatesAreRanges ==
    ASSUME NEW q, CallOK(q), NEW verses, NEW side \in {"source", "target"},
           NEW upward \in BOOLEAN, upward <=> side = "source",
           NEW hops, hops = HopsOn(q, side),
           NEW t \in TriggerCandidates(verses, hops, upward, side)
    PROVE  TriggerOK(q, t) /\ t.side = side
<1> DEFINE level == Levels(verses, hops, upward)
           Met(k) == {find_covering_record(hops[k], x, upward) : x \in level[k]}
<1>0. HopsOK(hops)
  BY DEF CallOK, HopsOn
<1> DEFINE Is(k, i) ==
        /\ unequal_zip_cover(hops[k][i], upward) # None
        /\ t = [side |-> side, hop |-> k, ordinal |-> i,
                cover |-> unequal_zip_cover(hops[k][i], upward)]
<1>9. PICK k \in DOMAIN hops : \E i \in Met(k) \ {0} : Is(k, i)
  BY DEF TriggerCandidates
<1>1. PICK i \in Met(k) \ {0} : Is(k, i)
  BY <1>9
<1>2. RowsOK(hops[k])
  BY <1>0 DEF HopsOK
<1> HIDE DEF level
<1>3. i \in DOMAIN hops[k]
  <2>1. PICK x : i = find_covering_record(hops[k], x, upward)
    BY <1>1
  <2>2. upward \in BOOLEAN /\ i # 0
    BY <1>1
  <2> QED
    BY <1>2, <2>1, <2>2, FindsCovering
<1>4. i \in Nat
  BY <1>2, <1>3 DEF RowsOK
<1>5. RangeOK(unequal_zip_cover(hops[k][i], upward))
  <2>1. RowOK(hops[k][i])
    BY <1>2, <1>3 DEF RowsOK
  <2>2. hops[k][i].base # None
    BY <1>1 DEF unequal_zip_cover
  <2>3. unequal_zip_cover(hops[k][i], upward) = Side(hops[k][i], upward)
    BY <1>1 DEF unequal_zip_cover
  <2> QED
    BY <2>1, <2>2, <2>3 DEF RowOK, Side
<1> HIDE DEF Met
<1>6. t.side = side /\ t.hop = k /\ t.ordinal = i
      /\ t.cover = unequal_zip_cover(hops[k][i], upward)
  BY <1>1
<1> QED
  BY <1>1, <1>4, <1>5, <1>6 DEF TriggerOK

(* Two candidates of a side differ in their hop or in their ordinal. *)
LEMMA CandidatesDiffer ==
    ASSUME NEW verses, NEW hops, NEW upward, NEW side,
           NEW t \in TriggerCandidates(verses, hops, upward, side),
           NEW u \in TriggerCandidates(verses, hops, upward, side),
           t.hop = u.hop, t.ordinal = u.ordinal
    PROVE  t = u
<1> DEFINE level == Levels(verses, hops, upward)
           Met(k) == {find_covering_record(hops[k], x, upward) : x \in level[k]}
           Made(k, i) == [side |-> side, hop |-> k, ordinal |-> i,
                          cover |-> unequal_zip_cover(hops[k][i], upward)]
<1> HIDE DEF level
<1>1. ASSUME NEW s \in TriggerCandidates(verses, hops, upward, side)
      PROVE  s = Made(s.hop, s.ordinal)
  <2>1. PICK k \in DOMAIN hops : \E i \in Met(k) \ {0} : s = Made(k, i)
    BY DEF TriggerCandidates, level
  <2>2. PICK i \in Met(k) \ {0} : s = Made(k, i)
    BY <2>1
  <2>3. s.hop = k /\ s.ordinal = i
    BY <2>2
  <2> QED
    BY <2>2, <2>3
<1> HIDE DEF Made
<1> QED
  BY <1>1

(* The trigger of a call: there is a least candidate. *)
LEMMA TriggerIsCandidate ==
    ASSUME NEW q, CallOK(q)
    PROVE  \/ find_range_trigger(q) = None
           \/ /\ TriggerOK(q, find_range_trigger(q))
              /\ \A m \in q.members : m.part = None
<1> DEFINE pivots == apply_hops(q.members, q.srcHops, TRUE).verses
           candidates ==
            TriggerCandidates(q.members, q.srcHops, TRUE, "source")
            \cup TriggerCandidates(pivots, q.tgtHops, FALSE, "target")
           Order(t) == <<width(t.cover), t.ordinal,
                      IF t.side = "source" THEN 0 ELSE 1,
                      IF t.side = "source" THEN t.hop ELSE 0 - t.hop>>
           Less(a, b) == \E k \in 1 .. 4 :
                        /\ a[k] < b[k]
                        /\ \A j \in 1 .. (k - 1) : a[j] = b[j]
           n == Len(q.tgtHops)
           hop(t) == IF t.side = "source" THEN t.hop ELSE n - t.hop
           side(t) == IF t.side = "source" THEN 0 ELSE 1
<1>1. find_range_trigger(q) =
        IF candidates = {} \/ \E m \in q.members : m.part # None THEN None
        ELSE CHOOSE t \in candidates : \A u \in candidates \ {t} :
                Less(Order(t), Order(u))
  BY DEF find_range_trigger
<1>2. /\ \A t \in TriggerCandidates(q.members, q.srcHops, TRUE, "source") :
            TriggerOK(q, t) /\ t.side = "source"
      /\ \A t \in TriggerCandidates(pivots, q.tgtHops, FALSE, "target") :
            TriggerOK(q, t) /\ t.side = "target"
  <2>1. q.srcHops = HopsOn(q, "source") /\ q.tgtHops = HopsOn(q, "target")
    BY DEF HopsOn
  <2> HIDE DEF pivots
  <2> QED
    BY <2>1, CandidatesAreRanges
<1>12. \A t, u \in candidates :
            t.side = u.side /\ t.hop = u.hop /\ t.ordinal = u.ordinal => t = u
  <2> HIDE DEF pivots
  <2> QED
    BY <1>2, CandidatesDiffer
<1>3. ASSUME NEW t \in candidates
      PROVE  /\ width(t.cover) \in Nat /\ t.ordinal \in Nat
             /\ side(t) \in Nat /\ hop(t) \in Nat /\ t.hop \in Nat /\ n \in Nat
             /\ t.side \in {"source", "target"}
  <2>1. TriggerOK(q, t)
    BY <1>2
  <2>2. n \in Nat /\ DOMAIN q.tgtHops = 1 .. n
        /\ DOMAIN q.srcHops = 1 .. Len(q.srcHops) /\ Len(q.srcHops) \in Nat
    BY DEF CallOK, HopsOK
  <2>3. t.hop \in Nat /\ hop(t) \in Nat
    <3>1. CASE t.side = "source"
      BY <2>1, <2>2, <3>1 DEF TriggerOK, HopsOn
    <3>2. CASE t.side = "target"
      BY <2>1, <2>2, <3>2 DEF TriggerOK, HopsOn
    <3> QED
      BY <2>1, <3>1, <3>2 DEF TriggerOK
  <2>4. width(t.cover) \in Nat
    BY <2>1 DEF TriggerOK, RangeOK, width
  <2> QED
    BY <2>1, <2>2, <2>3, <2>4 DEF TriggerOK
<1> HIDE DEF candidates
<1> DEFINE first  == {t \in candidates :
                        \A u \in candidates : width(t.cover) =< width(u.cover)}
           second == {t \in first : \A u \in first : t.ordinal =< u.ordinal}
           third  == {t \in second : \A u \in second : side(t) =< side(u)}
           fourth == {t \in third : \A u \in third : hop(t) =< hop(u)}
<1>4. candidates # {} => first # {}
  <2> DEFINE them == {width(t.cover) : t \in candidates}
  <2>1. candidates # {} => them \subseteq Nat /\ them # {}
    BY <1>3
  <2> HIDE DEF them
  <2>2. candidates # {} => Min(them) \in them /\ \A i \in them : Min(them) =< i
    BY <2>1, LeastIsOne
  <2> QED
    BY ZenonT(40), <2>2 DEF them
<1>5. first # {} => second # {}
  <2> DEFINE them == {t.ordinal : t \in first}
  <2>1. first # {} => them \subseteq Nat /\ them # {}
    BY <1>3
  <2> HIDE DEF them
  <2>2. first # {} => Min(them) \in them /\ \A i \in them : Min(them) =< i
    BY <2>1, LeastIsOne
  <2> HIDE DEF first
  <2> QED
    BY <2>2 DEF them
<1>6. second # {} => third # {}
  <2> DEFINE them == {side(t) : t \in second}
  <2>1. second # {} => them \subseteq Nat /\ them # {}
    BY <1>3
  <2> HIDE DEF them, side
  <2>2. second # {} => Min(them) \in them /\ \A i \in them : Min(them) =< i
    BY <2>1, LeastIsOne
  <2> HIDE DEF second
  <2> QED
    BY <2>2 DEF them
<1>7. third # {} => fourth # {}
  <2> DEFINE them == {hop(t) : t \in third}
  <2>1. third # {} => them \subseteq Nat /\ them # {}
    BY <1>3
  <2> HIDE DEF them, hop
  <2>2. third # {} => Min(them) \in them /\ \A i \in them : Min(them) =< i
    BY <2>1, LeastIsOne
  <2> HIDE DEF third
  <2> QED
    BY <2>2 DEF them
<1>8. ASSUME NEW t \in fourth, NEW u \in candidates \ {t}
      PROVE  Less(Order(t), Order(u))
  <2>1. t \in candidates /\ t \in first /\ t \in second /\ t \in third
    OBVIOUS
  <2>2. /\ width(t.cover) \in Nat /\ t.ordinal \in Nat /\ t.hop \in Nat
        /\ width(u.cover) \in Nat /\ u.ordinal \in Nat /\ u.hop \in Nat
        /\ t.side \in {"source", "target"} /\ u.side \in {"source", "target"}
        /\ n \in Nat
    BY <1>3, <2>1
  <2>3. /\ width(t.cover) =< width(u.cover)
        /\ width(t.cover) = width(u.cover) => t.ordinal =< u.ordinal
        /\ width(t.cover) = width(u.cover) /\ t.ordinal = u.ordinal => side(t) =< side(u)
        /\ width(t.cover) = width(u.cover) /\ t.ordinal = u.ordinal /\ side(t) = side(u)
                => hop(t) =< hop(u)
    <3>1. width(t.cover) =< width(u.cover)
      BY <2>1
    <3>2. width(t.cover) = width(u.cover) => u \in first
      BY <2>1
    <3> HIDE DEF first
    <3>3. u \in first => t.ordinal =< u.ordinal
      BY <2>1
    <3>4. u \in first /\ t.ordinal = u.ordinal => u \in second
      BY <2>1
    <3> HIDE DEF second, side
    <3>5. u \in second => side(t) =< side(u)
      BY <2>1
    <3>6. u \in second /\ side(t) = side(u) => u \in third
      BY <2>1
    <3> HIDE DEF third, hop
    <3>7. u \in third => hop(t) =< hop(u)
      OBVIOUS
    <3> QED
      BY <3>1, <3>2, <3>3, <3>4, <3>5, <3>6, <3>7
  <2>4. ~ (t.ordinal = u.ordinal /\ t.side = u.side /\ t.hop = u.hop)
    BY <1>12, <2>1
  <2> DEFINE a == Order(t)
             b == Order(u)
  <2>5. /\ a[1] = width(t.cover) /\ b[1] = width(u.cover)
        /\ a[2] = t.ordinal /\ b[2] = u.ordinal
        /\ a[3] = side(t) /\ b[3] = side(u)
        /\ a[4] = IF t.side = "source" THEN t.hop ELSE 0 - t.hop
        /\ b[4] = IF u.side = "source" THEN u.hop ELSE 0 - u.hop
    OBVIOUS
  <2> HIDE DEF a, b
  <2>6. /\ a[1] \in Int /\ a[2] \in Int /\ a[3] \in Int /\ a[4] \in Int
        /\ b[1] \in Int /\ b[2] \in Int /\ b[3] \in Int /\ b[4] \in Int
    BY <2>2, <2>5
  <2>7. \/ a[1] < b[1]
        \/ a[1] = b[1] /\ a[2] < b[2]
        \/ a[1] = b[1] /\ a[2] = b[2] /\ a[3] < b[3]
        \/ a[1] = b[1] /\ a[2] = b[2] /\ a[3] = b[3] /\ a[4] < b[4]
    <3>1. side(t) = side(u) => t.side = u.side
      BY <2>2
    <3>2. CASE t.side = u.side
      BY SMTT(40), <2>2, <2>3, <2>4, <2>5, <3>2
    <3>3. CASE t.side # u.side
      BY <2>2, <2>3, <2>5, <3>3
    <3> QED
      BY <3>2, <3>3
  <2>8. \E k \in 1 .. 4 : a[k] < b[k] /\ \A j \in 1 .. (k - 1) : a[j] = b[j]
    <3>1. CASE a[1] < b[1]
      <4>1. 1 \in 1 .. 4 /\ 1 .. (1 - 1) = {}
        OBVIOUS
      <4> QED BY <3>1, <4>1
    <3>2. CASE a[1] = b[1] /\ a[2] < b[2]
      <4>1. 2 \in 1 .. 4 /\ 1 .. (2 - 1) = {1}
        OBVIOUS
      <4> QED BY <3>2, <4>1
    <3>3. CASE a[1] = b[1] /\ a[2] = b[2] /\ a[3] < b[3]
      <4>1. 3 \in 1 .. 4 /\ 1 .. (3 - 1) = {1, 2}
        OBVIOUS
      <4> QED BY <3>3, <4>1
    <3>4. CASE a[1] = b[1] /\ a[2] = b[2] /\ a[3] = b[3] /\ a[4] < b[4]
      <4>1. 4 \in 1 .. 4 /\ 1 .. (4 - 1) = {1, 2, 3}
        OBVIOUS
      <4> QED BY <3>4, <4>1
    <3> QED
      BY <2>7, <3>1, <3>2, <3>3, <3>4
  <2> QED
    BY <2>8 DEF a, b
<1>9. fourth \subseteq candidates
  OBVIOUS
<1>10. candidates # {} => fourth # {}
  BY <1>4, <1>5, <1>6, <1>7
<1> HIDE DEF Less, Order, fourth
<1>11. candidates # {} =>
        (CHOOSE t \in candidates : \A u \in candidates \ {t} :
                Less(Order(t), Order(u))) \in candidates
  <2>1. candidates # {} => \E t \in candidates : \A u \in candidates \ {t} :
                Less(Order(t), Order(u))
    BY <1>8, <1>9, <1>10
  <2> QED
    BY <2>1
<1>13. \A t \in candidates : TriggerOK(q, t)
  BY <1>2 DEF candidates
<1>14. CASE candidates = {} \/ \E m \in q.members : m.part # None
  BY <1>1, <1>14
<1>15. CASE ~ (candidates = {} \/ \E m \in q.members : m.part # None)
  <2>1. find_range_trigger(q) = CHOOSE t \in candidates : \A u \in candidates \ {t} :
                Less(Order(t), Order(u))
    BY <1>1, <1>15
  <2>2. find_range_trigger(q) \in candidates
    BY <1>11, <1>15, <2>1
  <2> QED
    BY <1>13, <1>15, <2>2
<1> QED
  BY <1>14, <1>15

-----------------------------------------------------------------------------
(* ------------------------------- answers -------------------------------- *)

(* The climb of m meets no exclusion. *)
Climbs(q, m) == ~ apply_hops({m}, q.srcHops, TRUE).excluded

(* What every path of assemble answers: the members and their counterparts   *)
(* are spans, all of one part, and connectors join spans.                    *)
AnswerOK(q, d) ==
    /\ d \in Dtos
    /\ d.sources \cup d.targets \subseteq OfPart(PartOf(q))
    /\ d.edges \subseteq [source : d.sources, target : d.targets, relation : Relations]
    /\ q.members \subseteq d.sources
    /\ \A m \in q.members : Climbs(q, m) => Counterparts(q, m) \subseteq d.targets
    /\ d.relation = "complex" /\ "range" \notin {d.source_rel, d.target_rel} =>
            \A t \in d.targets : \E e \in d.edges : e.target = t

(* An answer is not the absence of one. *)
LEMMA AnswersAreNotNone == ASSUME NEW q, NEW d, AnswerOK(q, d) PROVE d # None
  BY CallsAssumption DEF AnswerOK

(* An answer without connectors. *)
LEMMA PlainAnswer ==
    ASSUME NEW q, NEW sources, sources \subseteq OfPart(PartOf(q)),
           NEW targets, targets \subseteq OfPart(PartOf(q)),
           NEW relation \in Relations, q.members \subseteq sources,
           \A m \in q.members : Climbs(q, m) => Counterparts(q, m) \subseteq targets
    PROVE  AnswerOK(q, Plain(sources, targets, relation))
<1> DEFINE d == Plain(sources, targets, relation)
<1>1. d = [sources |-> sources, targets |-> targets, relation |-> relation,
           edges |-> {}, source_rel |-> None, target_rel |-> None]
  BY DEF Plain, Dto
<1>2. d \in Dtos
  BY <1>1 DEF Dtos, OfPart
<1>3. d.relation # "complex"
  BY <1>1 DEF Relations
<1> QED
  BY <1>1, <1>2, <1>3 DEF AnswerOK

(* The atomic path answers so when it answers at all ... *)
LEMMA AtomicAnswer ==
    ASSUME CallOK(query), _atomic_result # None
    PROVE  AnswerOK(query, _atomic_result)
<1> DEFINE members == query.members
           part == PartOf(query)
           walks == [m \in members |-> Walk({m})]
           kept == {m \in members : ~ walks[m].dropped}
           relations == {IF m \in kept THEN walks[m].composed
                              ELSE "exclude" : m \in members}
           sources == members \cup UNION {walks[m].siblings : m \in members}
           targets == UNION {walks[m].targets : m \in kept}
           one(S) == Cardinality(S) = 1
           manyToMany == \E m \in kept :
                    \/ Fans(walks[m])
                    \/ /\ ~ one({m} \cup walks[m].siblings)
                       /\ Cardinality(walks[m].targets) > 1
           named == IF one(sources) /\ Cardinality(targets) > 1 THEN "split"
                    ELSE IF ~ one(sources) /\ one(targets) THEN "merge"
                    ELSE CHOOSE r \in relations : TRUE
<1>1. _atomic_result =
                IF manyToMany THEN None
                ELSE IF relations = {"exclude"} THEN Plain(sources, {}, "exclude")
                ELSE IF ~ one(relations) \/ ~ is_contiguous(sources)
                        \/ ~ is_contiguous(targets) THEN None
                ELSE Plain(sources, targets, named)
  BY DEF _atomic_result
<1>2. members \subseteq OfPart(part) /\ members # {}
  BY MembersOfPart
<1>3. ASSUME NEW m \in members
      PROVE  /\ walks[m].targets = Counterparts(query, m)
             /\ walks[m].targets \subseteq OfPart(part)
             /\ walks[m].siblings \subseteq OfPart(part)
             /\ walks[m].composed \in Relations
             /\ Climbs(query, m) => ~ walks[m].dropped /\ walks[m].composed # "exclude"
  <2>1. walks[m] = Walk({m}) /\ m \in OfPart(part)
    BY <1>2
  <2> HIDE DEF walks
  <2> QED
    BY <2>1, WalkFacts DEF Climbs
<1> HIDE DEF part, walks, members
<1>5. /\ sources \subseteq OfPart(part) /\ targets \subseteq OfPart(part)
      /\ members \subseteq sources
  BY <1>2, <1>3
<1>6. relations \subseteq Relations /\ relations # {}
  BY <1>2, <1>3 DEF Relations
<1>7. \A m \in members : Climbs(query, m) => Counterparts(query, m) \subseteq targets
  BY <1>3
<1>8. relations = {"exclude"} => \A m \in members : ~ Climbs(query, m)
  BY <1>3
<1> HIDE DEF relations, sources, targets, manyToMany, one
<1>9. CASE relations = {"exclude"}
  <2>1. _atomic_result = Plain(sources, {}, "exclude")
    BY <1>1, <1>9
  <2>2. "exclude" \in Relations /\ {} \subseteq OfPart(part)
    BY DEF Relations
  <2> QED
    BY <1>5, <1>8, <1>9, <2>1, <2>2, PlainAnswer DEF members, part
<1>10. CASE relations # {"exclude"}
  <2>1. _atomic_result = Plain(sources, targets, named)
    BY <1>1, <1>10
  <2>2. named \in Relations
    BY <1>6 DEF Relations
  <2> HIDE DEF named
  <2> QED
    BY <1>5, <1>7, <2>1, <2>2, PlainAnswer DEF members, part
<1> QED
  BY <1>9, <1>10

(* ... normalize_same_bcv renames the relation only ... *)
LEMMA NormalizedAnswer ==
    ASSUME NEW q, NEW d, AnswerOK(q, d)
    PROVE  AnswerOK(q, normalize_same_bcv(d))
<1> DEFINE e == [d EXCEPT !.relation = "one_to_one"]
<1>1. CASE normalize_same_bcv(d) = d
  BY <1>1
<1>2. CASE normalize_same_bcv(d) # d
  <2>1. normalize_same_bcv(d) = e
    BY <1>2 DEF normalize_same_bcv
  <2>2. /\ e \in Dtos /\ e.edges = d.edges /\ e.sources = d.sources
        /\ e.targets = d.targets /\ e.relation = "one_to_one"
    BY DEF AnswerOK, Dtos, Relations
  <2> QED
    BY <2>1, <2>2 DEF AnswerOK
<1> QED
  BY <1>1, <1>2

(* The nodes of one part. *)
Nodes(part) == [kind : {"source", "pivot", "target"}, verse : OfPart(part)]

(* A collected target was found from a collected pivot. *)
TargetsFound ==
    \A n \in seen \cup worklist : n.kind = "target" =>
        \E p \in OfKind("pivot") : n.verse \in down_set(p, query.tgtHops)

(* The verses collected are of the part of the call. *)
LEMMA CollectedVerses ==
    ASSUME NEW part, seen \subseteq Nodes(part)
    PROVE  \A kind : OfKind(kind) \subseteq OfPart(part)
  BY DEF OfKind, Nodes

(* A verse whose climb is not excluded has all its counterparts collected. *)
LEMMA HullHasCounterparts ==
    ASSUME CallOK(query), LoopOver, HullClosed, seen \subseteq Nodes(PartOf(query)),
           NEW m \in query.members, Climbs(query, m)
    PROVE  Counterparts(query, m) \subseteq OfKind("target")
<1> DEFINE up == apply_hops({m}, query.srcHops, TRUE).verses
<1>1. m \in OfPart(PartOf(query)) /\ m \in OfKind("source")
  BY MembersOfPart DEF HullClosed
<1>2. up_set(m, query.srcHops) = up
  BY <1>1, NeighbourSets DEF CallOK, Climbs
<1>3. up \subseteq OfKind("pivot")
  BY <1>1, <1>2 DEF HullClosed
<1>4. Counterparts(query, m) = UNION {down_set(p, query.tgtHops) : p \in up}
  BY <1>1, CounterpartsThroughPivots
<1> HIDE DEF up
<1>5. \A p \in up : down_set(p, query.tgtHops) \subseteq OfKind("target")
  BY <1>3 DEF HullClosed
<1> QED
  BY <1>4, <1>5

(* The legs of a connector are relations. *)
LEMMA LegsInside ==
    ASSUME CallOK(query), NEW part, NEW s \in OfPart(part), NEW p \in OfPart(part),
           NEW t
    PROVE  LET legs == edge_legs(s, p, t, query.srcHops, query.tgtHops)
           IN  /\ legs.up \in Relations /\ legs.down \in Relations
               /\ legs.composed \in Relations
<1> DEFINE up == apply_hops({s}, query.srcHops, TRUE)
           down == apply_hops({p}, query.tgtHops, FALSE)
           l == IF up.excluded \/ p \notin up.verses THEN "one_to_one" ELSE up.relation
           r == IF down.excluded \/ t \notin down.verses THEN "one_to_one" ELSE down.relation
           legs == edge_legs(s, p, t, query.srcHops, query.tgtHops)
<1>1. {s} \subseteq OfPart(part) /\ {p} \subseteq OfPart(part)
  OBVIOUS
<1>2. up.relation \in Relations /\ down.relation \in Relations
  BY <1>1, WalkStaysInside DEF CallOK, Walks
<1>3. legs = [up |-> l, down |-> r, composed |-> compose(l, r)]
  BY DEF edge_legs
<1> HIDE DEF up, down
<1>4. l \in Relations /\ r \in Relations
  BY <1>2 DEF Relations
<1> HIDE DEF l, r, legs
<1>5. legs.up \in Relations /\ legs.down \in Relations /\ legs.composed \in Relations
  BY <1>3, <1>4, ComposeInside
<1> QED
  BY <1>5 DEF legs

-----------------------------------------------------------------------------
(* ---------------------- the connected hull answers ---------------------- *)

(* The pairs each pivot links, in the order of the pivots. *)
Linked(order) == [i \in DOMAIN order |->
                    (src_of_pivot(order[i], query.srcHops) \cap OfKind("source"))
                        \X (down_set(order[i], query.tgtHops) \cap OfKind("target"))]

(* An order of the pivots lists them all. *)
LEMMA OrdersArePivots ==
    ASSUME CallOK(query), seen \subseteq Nodes(PartOf(query)), NEW order \in Orders
    PROVE  /\ \A i \in DOMAIN order : order[i] \in OfPart(PartOf(query))
           /\ \A p \in OfKind("pivot") : \E i \in DOMAIN order : order[i] = p
           /\ OfKind("pivot") # {} => 1 \in DOMAIN order
           /\ DOMAIN order \subseteq Nat
<1> DEFINE P == OfKind("pivot")
<1>1. P \subseteq OfPart(PartOf(query)) /\ P \subseteq Verses
  BY CollectedVerses DEF OfPart
<1>2. Cardinality(P) \in Nat /\ (P # {} => Cardinality(P) # 0)
  <2>1. IsFiniteSet(P)
    BY <1>1, CallsAssumption, FS_Subset
  <2> QED
    BY <2>1, FS_CardinalityType, FS_EmptySet
<1>3. order \in [1 .. Cardinality(P) -> P] /\ ToSet(order) = P
  BY DEF Orders
<1> HIDE DEF P
<1>4. \A p \in P : \E i \in DOMAIN order : order[i] = p
  BY <1>3 DEF ToSet
<1>5. DOMAIN order = 1 .. Cardinality(P) /\ \A i \in DOMAIN order : order[i] \in P
  BY <1>3
<1>6. P # {} => 1 \in DOMAIN order
  BY <1>2, <1>5
<1> QED
  BY <1>1, <1>2, <1>4, <1>5, <1>6 DEF P

(* Every pair that is linked has legs of real relations, and every target is *)
(* linked: its pivot inverts to some source, and no source is left out.      *)
LEMMA LinksReachTargets ==
    ASSUME CallOK(query), LoopOver, HullClosed, TargetsFound,
           seen \subseteq Nodes(PartOf(query)), NEW order \in Orders
    PROVE  /\ \A t \in OfKind("target") : \E i \in DOMAIN order :
                \E s \in OfKind("source") : <<s, t>> \in Linked(order)[i]
           /\ \A i \in DOMAIN order :
                Linked(order)[i] \subseteq OfKind("source") \X OfKind("target")
<1>1. ASSUME NEW t \in OfKind("target")
      PROVE  \E i \in DOMAIN order :
                \E s \in OfKind("source") : <<s, t>> \in Linked(order)[i]
  <2>1. PICK p \in OfKind("pivot") : t \in down_set(p, query.tgtHops)
    <3>1. PICK n \in seen : n.kind = "target" /\ n.verse = t
      BY DEF OfKind
    <3> QED
      BY <3>1 DEF TargetsFound
  <2>2. PICK i \in DOMAIN order : order[i] = p
    BY <2>1, OrdersArePivots
  <2>3. src_of_pivot(p, query.srcHops) \subseteq OfKind("source")
    BY <2>1 DEF HullClosed
  <2>4. p \in OfPart(PartOf(query))
    BY <2>1, CollectedVerses
  <2>5. src_of_pivot(p, query.srcHops) # {}
    BY <2>4, NeighbourSets DEF CallOK
  <2>6. PICK s \in OfKind("source") : s \in src_of_pivot(p, query.srcHops)
    BY <2>3, <2>5
  <2>7. <<s, t>> \in Linked(order)[i]
    BY <2>1, <2>2, <2>6 DEF Linked
  <2> QED
    BY <2>7
<1>2. ASSUME NEW i \in DOMAIN order
      PROVE  Linked(order)[i] \subseteq OfKind("source") \X OfKind("target")
  BY DEF Linked
<1> QED
  BY <1>1, <1>2

(* ... the connected hull answers so, whatever the order of the pivots ... *)
LEMMA HullAnswerOK ==
    ASSUME CallOK(query), LoopOver, HullClosed, TargetsFound,
           seen \subseteq Nodes(PartOf(query)), NEW order \in Orders
    PROVE  AnswerOK(query, HullAnswer(order))
<1> DEFINE S == OfKind("source")
           T == OfKind("target")
           links == Linked(order)
           pairs == UNION ToSet(links)
           legs == [x \in pairs |->
                LET first == Min({i \in DOMAIN links : x \in links[i]})
                IN  edge_legs(x[1], order[first], x[2],
                              query.srcHops, query.tgtHops)]
           edges == {Edge(x[1], x[2], legs[x].composed) : x \in DOMAIN legs}
           up == dominant_relation({legs[x].up : x \in DOMAIN legs})
           down == dominant_relation({legs[x].down : x \in DOMAIN legs})
           single == edge_legs(CHOOSE s \in S : TRUE, order[1],
                                   CHOOSE t \in T : TRUE,
                                   query.srcHops, query.tgtHops).composed
<1>1. HullAnswer(order) =
        IF T = {} THEN Plain(S, {}, "exclude")
        ELSE IF Cardinality(S) = 1 /\ Cardinality(T) = 1 THEN Plain(S, T, single)
        ELSE IF Cardinality(S) = 1 THEN Plain(S, T, "split")
        ELSE IF Cardinality(T) = 1 THEN Plain(S, T, "merge")
        ELSE Dto(S, T, "complex", edges, up, down)
  BY DEF HullAnswer, Linked
<1>2. S \subseteq OfPart(PartOf(query)) /\ T \subseteq OfPart(PartOf(query))
      /\ S \subseteq Verses /\ T \subseteq Verses
  BY CollectedVerses DEF OfPart
<1>3. query.members \subseteq S /\ query.members # {}
  BY MembersOfPart DEF HullClosed
<1>4. \A m \in query.members : Climbs(query, m) => Counterparts(query, m) \subseteq T
  BY HullHasCounterparts
<1>5. T # {} => single \in Relations
  <2> SUFFICES ASSUME T # {} PROVE single \in Relations
    OBVIOUS
  <2>1. PICK t \in T : t = CHOOSE y \in T : TRUE
    OBVIOUS
  <2>2. PICK s \in S : s = CHOOSE y \in S : TRUE
    BY <1>3
  <2>3. OfKind("pivot") # {}
    BY LinksReachTargets, OrdersArePivots DEF TargetsFound, OfKind
  <2>4. order[1] \in OfPart(PartOf(query))
    BY <2>3, OrdersArePivots
  <2>5. s \in OfPart(PartOf(query))
    BY <1>2
  <2>6. single = edge_legs(s, order[1], t, query.srcHops, query.tgtHops).composed
    BY <2>1, <2>2
  <2> HIDE DEF single, S, T
  <2> QED
    BY <2>4, <2>5, <2>6, LegsInside
<1>6. \A x \in pairs : x[1] \in S /\ x[2] \in T /\ x = <<x[1], x[2]>>
  <2>1. DOMAIN links = DOMAIN order
    BY DEF Linked
  <2>2. \A i \in DOMAIN links : links[i] \subseteq S \X T
    BY <2>1, LinksReachTargets
  <2> HIDE DEF links, S, T
  <2>3. \A x \in pairs : x \in S \X T
    BY <2>2 DEF ToSet
  <2> HIDE DEF pairs
  <2> QED
    BY <2>3
<1>7. ASSUME NEW x \in pairs
      PROVE  /\ legs[x].up \in Relations /\ legs[x].down \in Relations
             /\ legs[x].composed \in Relations
  <2> DEFINE at == {i \in DOMAIN links : x \in links[i]}
             first == Min(at)
  <2>1. at # {} /\ at \subseteq DOMAIN order
    <3>1. DOMAIN links = DOMAIN order
      BY DEF Linked
    <3> HIDE DEF links
    <3> QED
      BY <3>1 DEF ToSet
  <2>2. at \subseteq Nat
    BY <2>1, OrdersArePivots
  <2> HIDE DEF at
  <2>3. first \in DOMAIN order
    BY <2>1, <2>2, LeastIsOne
  <2>4. order[first] \in OfPart(PartOf(query)) /\ x[1] \in OfPart(PartOf(query))
    BY <1>2, <1>6, <2>3, OrdersArePivots
  <2>5. legs[x] = edge_legs(x[1], order[first], x[2], query.srcHops, query.tgtHops)
    BY DEF at
  <2> HIDE DEF legs, first, pairs
  <2> QED
    BY <2>4, <2>5, LegsInside
<1>8. DOMAIN legs = pairs
  OBVIOUS
<1> HIDE DEF legs, single
<1>9. up \in Relations \cup {None} /\ down \in Relations \cup {None}
  <2>1. {legs[x].up : x \in DOMAIN legs} \subseteq Relations
    BY <1>7, <1>8
  <2>2. {legs[x].down : x \in DOMAIN legs} \subseteq Relations
    BY <1>7, <1>8
  <2> HIDE DEF pairs
  <2> QED
    BY <2>1, <2>2, DominantIsOne
<1>10. edges \subseteq [source : S, target : T, relation : Relations]
  <2> HIDE DEF pairs, S, T
  <2> QED
    BY <1>6, <1>7, <1>8 DEF Edge
<1>11. \A t \in T : \E e \in edges : e.target = t
  <2> SUFFICES ASSUME NEW t \in T PROVE \E e \in edges : e.target = t
    OBVIOUS
  <2>1. PICK i \in DOMAIN order : \E s \in S : <<s, t>> \in links[i]
    BY LinksReachTargets
  <2>2. PICK s \in S : <<s, t>> \in links[i]
    BY <2>1
  <2>3. <<s, t>> \in pairs
    <3>1. DOMAIN links = DOMAIN order
      BY DEF Linked
    <3> HIDE DEF links
    <3> QED
      BY <2>2, <3>1 DEF ToSet
  <2> DEFINE e == Edge(s, t, legs[<<s, t>>].composed)
  <2>4. e \in edges
    <3> HIDE DEF pairs
    <3> QED
      BY <1>8, <2>3
  <2>5. e.target = t
    BY DEF Edge
  <2> QED
    BY <2>4, <2>5
<1> HIDE DEF S, T, edges, up, down
<1> DEFINE d == Dto(S, T, "complex", edges, up, down)
<1>12. AnswerOK(query, d)
  <2>1. d = [sources |-> S, targets |-> T, relation |-> "complex",
             edges |-> edges, source_rel |-> up, target_rel |-> down]
    BY DEF Dto
  <2>2. edges \subseteq [source : Verses, target : Verses, relation : Relations]
    BY <1>2, <1>10
  <2>3. d \in Dtos
    BY <1>2, <1>9, <2>1, <2>2 DEF Dtos
  <2>4. d.sources = S /\ d.targets = T /\ d.edges = edges
    BY <2>1
  <2> HIDE DEF d
  <2> QED
    BY <1>2, <1>3, <1>4, <1>10, <1>11, <2>3, <2>4 DEF AnswerOK
<1>13. ASSUME NEW relation \in Relations
       PROVE  AnswerOK(query, Plain(S, T, relation))
  BY <1>2, <1>3, <1>4, PlainAnswer
<1>14. "exclude" \in Relations /\ "split" \in Relations /\ "merge" \in Relations
  BY DEF Relations
<1> HIDE DEF d
<1> QED
  BY <1>1, <1>5, <1>12, <1>13, <1>14 DEF d

-----------------------------------------------------------------------------
(* ------------------------ the range hull answers ------------------------ *)

(* The cover of a trigger, back in the numbering of the query. *)
LEMMA ParticipantsInside ==
    ASSUME CallOK(query), TriggerOK(query, trigger),
           \A m \in query.members : m.part = None
    PROVE  _participants_for_trigger \subseteq OfPart(None)
<1> DEFINE cover == expand(trigger.cover, None)
           cut(hops) == SubSeq(hops, 1, trigger.hop - 1)
           pivots == UNION {piv_of_target(x, cut(query.tgtHops)) : x \in cover}
           sources == UNION {src_of_pivot(x, cut(query.srcHops)) : x \in cover}
           through == UNION {src_of_pivot(p, query.srcHops) : p \in pivots}
<1>1. _participants_for_trigger =
        IF trigger.side = "source" THEN sources ELSE through
  BY DEF _participants_for_trigger
<1>2. cover \subseteq OfPart(None)
  <2>1. PICK m \in query.members : m \in Verses /\ m.part = None
    BY DEF CallOK, MembersOK
  <2> QED
    BY <2>1, ExpandOfPart DEF TriggerOK
<1> HIDE DEF cover
<1>3. HopsOK(query.srcHops) /\ HopsOK(query.tgtHops)
  BY DEF CallOK
<1>4. CASE trigger.side = "source"
  <2>1. HopsOK(cut(query.srcHops))
    BY <1>3, <1>4, HopsCut DEF TriggerOK, HopsOn
  <2> HIDE DEF cut
  <2>2. \A x \in cover : src_of_pivot(x, cut(query.srcHops)) \subseteq OfPart(None)
    BY <1>2, <2>1, NeighbourSets
  <2>3. sources \subseteq OfPart(None)
    BY <2>2
  <2> QED
    BY <1>1, <1>4, <2>3
<1>5. CASE trigger.side = "target"
  <2>1. HopsOK(cut(query.tgtHops))
    BY <1>3, <1>5, HopsCut DEF TriggerOK, HopsOn
  <2> HIDE DEF cut
  <2>2. \A x \in cover : piv_of_target(x, cut(query.tgtHops)) \subseteq OfPart(None)
    BY <1>2, <2>1, NeighbourSets
  <2>3. pivots \subseteq OfPart(None)
    BY <2>2
  <2> HIDE DEF pivots
  <2>4. \A p \in pivots : src_of_pivot(p, query.srcHops) \subseteq OfPart(None)
    BY <1>3, <2>3, NeighbourSets
  <2>5. through \subseteq OfPart(None)
    BY <2>4
  <2> QED
    BY <1>1, <1>5, <2>5
<1> QED
  BY <1>4, <1>5 DEF TriggerOK

(* ... and so does the range hull, when it does not decline. *)
LEMMA RangeAnswer ==
    ASSUME CallOK(query), TriggerOK(query, trigger),
           \A m \in query.members : m.part = None, build_range_hull # None
    PROVE  AnswerOK(query, build_range_hull)
<1> DEFINE sources == _participants_for_trigger
           walks == [s \in sources |-> Walk({s})]
           targets == UNION {walks[s].targets : s \in sources}
           sorted == sort_verses(sources)
           corners == {sorted[1], sorted[Len(sorted)]}
           complex ==
                    \/ \E s \in corners : Fans(walks[s])
                                          \/ Cardinality(walks[s].targets) > 1
                    \/ _interior_requires_complex(walks, sources \ corners)
           edges == UNION {{Edge(s, t, walks[s].composed) :
                                    t \in walks[s].targets} : s \in corners}
           up   == dominant_relation({walks[s].up_rel : s \in sources})
           down == dominant_relation({walks[s].down_rel : s \in sources})
<1>1. build_range_hull =
            IF \/ Cardinality(sources) < 2
               \/ ~ (query.members \subseteq sources)
               \/ \E s \in sources : walks[s].dropped
               \/ targets = {}
               \/ Cardinality(sources) = Cardinality(targets) /\ ~ complex
            THEN None
            ELSE IF ~ complex
            THEN Dto(sources, targets, "range", edges, None, None)
            ELSE IF trigger.side = "source"
            THEN Dto(sources, targets, "complex", edges, "range", down)
            ELSE Dto(sources, targets, "complex", edges, up, "range")
  BY DEF build_range_hull
<1>2. /\ sources \subseteq OfPart(None) /\ sources \subseteq Verses
      /\ PartOf(query) = None
  <2>1. query.members # {}
    BY MembersOfPart
  <2>2. PartOf(query) = None
    BY <2>1 DEF PartOf
  <2> QED
    BY <2>2, ParticipantsInside DEF OfPart
<1>3. ASSUME NEW s \in sources
      PROVE  /\ walks[s].targets = Counterparts(query, s)
             /\ walks[s].targets \subseteq OfPart(None)
             /\ walks[s].composed \in Relations
             /\ walks[s].up_rel \in Relations /\ walks[s].down_rel \in Relations
  <2>1. walks[s] = Walk({s}) /\ s \in OfPart(None)
    BY <1>2
  <2> HIDE DEF walks
  <2> QED
    BY <2>1, WalkFacts
<1> HIDE DEF sources, walks
<1>4. targets \subseteq Verses /\ targets \subseteq OfPart(None)
  BY <1>3 DEF OfPart
<1>5. /\ ~ (Cardinality(sources) < 2) /\ query.members \subseteq sources
      /\ build_range_hull \in {Dto(sources, targets, "range", edges, None, None),
                               Dto(sources, targets, "complex", edges, "range", down),
                               Dto(sources, targets, "complex", edges, up, "range")}
  <2> HIDE DEF targets, edges, up, down, complex
  <2> QED
    BY <1>1
<1>6. corners \subseteq sources
  <2>1. /\ Cardinality(sources) \in Nat /\ Len(sorted) = Cardinality(sources)
        /\ sorted \in [1 .. Cardinality(sources) -> sources]
    BY <1>2, OfPartAlike, SortVerses
  <2> HIDE DEF sorted
  <2>2. 1 \in 1 .. Cardinality(sources) /\ Len(sorted) \in 1 .. Cardinality(sources)
    BY <1>5, <2>1
  <2> QED
    BY <2>1, <2>2
<1> HIDE DEF corners
<1>7. edges \subseteq [source : sources, target : targets, relation : Relations]
  <2> SUFFICES ASSUME NEW s \in corners, NEW t \in walks[s].targets
               PROVE  Edge(s, t, walks[s].composed)
                        \in [source : sources, target : targets, relation : Relations]
    OBVIOUS
  <2>1. s \in sources /\ t \in targets /\ walks[s].composed \in Relations
    BY <1>3, <1>6
  <2> HIDE DEF targets
  <2> QED
    BY <2>1 DEF Edge
<1>8. up \in Relations \cup {None} /\ down \in Relations \cup {None}
  <2>1. {walks[s].up_rel : s \in sources} \subseteq Relations
    BY <1>3
  <2>2. {walks[s].down_rel : s \in sources} \subseteq Relations
    BY <1>3
  <2> QED
    BY <2>1, <2>2, DominantIsOne
<1>9. \A m \in query.members : Counterparts(query, m) \subseteq targets
  BY <1>3, <1>5
<1> HIDE DEF targets, edges, up, down
<1>10. ASSUME NEW relation \in {"range", "complex"},
             NEW sourceRel \in Relations \cup {"range", None},
             NEW targetRel \in Relations \cup {"range", None},
             relation = "complex" => "range" \in {sourceRel, targetRel}
      PROVE  AnswerOK(query, Dto(sources, targets, relation, edges, sourceRel, targetRel))
  <2> DEFINE d == Dto(sources, targets, relation, edges, sourceRel, targetRel)
  <2>1. d = [sources |-> sources, targets |-> targets, relation |-> relation,
             edges |-> edges, source_rel |-> sourceRel, target_rel |-> targetRel]
    BY DEF Dto
  <2>2. edges \subseteq [source : Verses, target : Verses, relation : Relations]
    BY <1>2, <1>4, <1>7
  <2>3. d \in Dtos
    BY <1>2, <1>4, <2>1, <2>2, <1>10 DEF Dtos
  <2>4. /\ d.sources = sources /\ d.targets = targets /\ d.edges = edges
        /\ d.relation = relation /\ d.source_rel = sourceRel /\ d.target_rel = targetRel
    BY <2>1
  <2> HIDE DEF d
  <2>5. AnswerOK(query, d)
    BY <1>2, <1>4, <1>5, <1>7, <1>9, <1>10, <2>3, <2>4 DEF AnswerOK
  <2> QED
    BY <2>5 DEF d
<1>11. AnswerOK(query, Dto(sources, targets, "range", edges, None, None))
  BY <1>10
<1>12. AnswerOK(query, Dto(sources, targets, "complex", edges, "range", down))
  BY <1>8, <1>10
<1>13. AnswerOK(query, Dto(sources, targets, "complex", edges, up, "range"))
  BY <1>8, <1>10
<1> QED
  BY <1>5, <1>11, <1>12, <1>13

-----------------------------------------------------------------------------
(* ----------------------- the inductive invariant ------------------------ *)

(* The call and its trigger. *)
Whence ==
    /\ CallOK(query)
    /\ trigger # None => /\ TriggerOK(query, trigger)
                         /\ \A m \in query.members : m.part = None

(* What is collected are nodes of the part of the call. *)
Collected ==
    /\ (caller = None) = (seen \cup worklist = {})
    /\ seen \cup worklist \subseteq Nodes(PartOf(query))
    /\ TargetsFound

(* The invariant of a call: with HullInv it is inductive. *)
ResolverInv ==
    /\ Whence /\ Collected
    /\ pc \in {"assemble", "hull", "done"}
    /\ caller \in {None, "trigger", "atomic"}
    /\ caller = "trigger" => trigger # None
    /\ pc = "assemble" => caller = None
    /\ pc = "hull" => caller # None
    /\ pc # "done" => result = None
    /\ pc = "done" => AnswerOK(query, result)

(* Neighbours of nodes of one part are nodes of it. *)
LEMMA NeighboursInside ==
    ASSUME CallOK(query), NEW part, NEW n \in Nodes(part)
    PROVE  Neighbours(n) \subseteq Nodes(part)
<1>1. n.verse \in OfPart(part) /\ n.kind \in {"source", "pivot", "target"}
  BY DEF Nodes
<1>2. /\ up_set(n.verse, query.srcHops) \subseteq OfPart(part)
      /\ src_of_pivot(n.verse, query.srcHops) \subseteq OfPart(part)
      /\ down_set(n.verse, query.tgtHops) \subseteq OfPart(part)
      /\ piv_of_target(n.verse, query.tgtHops) \subseteq OfPart(part)
  BY <1>1, NeighbourSets DEF CallOK
<1>3. ASSUME NEW kind \in {"source", "pivot", "target"}, NEW S, S \subseteq OfPart(part)
      PROVE  Node(kind, S) \subseteq Nodes(part)
  BY <1>3 DEF Node, Nodes
<1>4. CASE n.kind = "source"
  BY <1>2, <1>3, <1>4 DEF Neighbours
<1>5. CASE n.kind = "pivot"
  <2>1. Neighbours(n) = Node("source", src_of_pivot(n.verse, query.srcHops))
                        \cup Node("target", down_set(n.verse, query.tgtHops))
    BY <1>5 DEF Neighbours
  <2>2. /\ Node("source", src_of_pivot(n.verse, query.srcHops)) \subseteq Nodes(part)
        /\ Node("target", down_set(n.verse, query.tgtHops)) \subseteq Nodes(part)
    BY <1>2, <1>3
  <2> QED
    BY <2>1, <2>2
<1>6. CASE n.kind = "target"
  BY <1>2, <1>3, <1>6 DEF Neighbours
<1> QED
  BY <1>1, <1>4, <1>5, <1>6

(* A call of build_hull starts from the query. *)
LEMMA CallKeepsInv ==
    ASSUME NEW by \in {"trigger", "atomic"}, CallBuildHull(by), query' = query,
           CallOK(query), Whence', result = None, by = "trigger" => trigger' # None
    PROVE  ResolverInv'
<1>1. /\ pc' = "hull" /\ caller' = by /\ result' = None /\ seen' = {}
      /\ worklist' = Node("source", query.members)
  BY DEF CallBuildHull
<1>2. query.members \subseteq OfPart(PartOf(query)) /\ query.members # {}
  BY MembersOfPart
<1>3. caller' # None
  BY <1>1, CallsAssumption
<1>4. (seen \cup worklist)' # {} /\ \A n \in (seen \cup worklist)' : n.kind = "source"
  <2>1. PICK m \in query.members : m \in query.members
    BY <1>2
  <2>2. [kind |-> "source", verse |-> m] \in worklist'
    BY <1>1, <2>1 DEF Node
  <2>3. \A n \in worklist' : n.kind = "source"
    BY <1>1 DEF Node
  <2> QED
    BY <1>1, <2>2, <2>3
<1>5. (seen \cup worklist)' \subseteq Nodes(PartOf(query'))
  BY <1>1, <1>2 DEF Node, Nodes
<1>6. TargetsFound'
  BY <1>4 DEF TargetsFound
<1>7. Collected'
  BY <1>3, <1>4, <1>5, <1>6 DEF Collected
<1> QED
  BY <1>1, <1>3, <1>7 DEF ResolverInv

(* Returning such an answer ends the call. *)
LEMMA ReturnKeepsInv ==
    ASSUME ResolverInv, NEW dto, AnswerOK(query, dto), Return(dto), query' = query,
           Whence', caller = "trigger" => trigger' # None
    PROVE  ResolverInv'
<1>1. /\ pc' = "done" /\ caller' = caller /\ result' = dto /\ seen' = seen
      /\ worklist' = worklist
  BY DEF Return
<1>2. TargetsFound'
  BY <1>1 DEF TargetsFound, OfKind, ResolverInv, Collected
<1>3. Collected'
  BY <1>1, <1>2 DEF ResolverInv, Collected
<1>4. caller' = "trigger" => trigger' # None
  BY <1>1
<1> QED
  BY <1>1, <1>3, <1>4 DEF ResolverInv

(* The atomic path returns one or calls build_hull. *)
LEMMA AtomicKeepsInv ==
    ASSUME ResolverInv, Atomic, query' = query, result = None,
           Whence', caller = "trigger" => trigger' # None
    PROVE  ResolverInv'
<1>1. CallOK(query)
  BY DEF ResolverInv, Whence
<1>2. CASE _atomic_result = None
  <2>1. CallBuildHull("atomic")
    BY <1>2 DEF Atomic
  <2> QED
    BY <1>1, <2>1, CallKeepsInv
<1>3. CASE _atomic_result # None
  <2>1. PICK a : a = _atomic_result
    OBVIOUS
  <2>2. AnswerOK(query, a)
    BY <1>1, <1>3, <2>1, AtomicAnswer
  <2>3. PICK dto : dto = normalize_same_bcv(a)
    OBVIOUS
  <2>4. AnswerOK(query, dto)
    BY <2>2, <2>3, NormalizedAnswer
  <2>5. Return(dto)
    BY <1>3, <2>1, <2>3 DEF Atomic
  <2> QED
    BY <2>4, <2>5, ReturnKeepsInv
<1> QED
  BY <1>2, <1>3

(* Assemble takes one of the paths, with the trigger it found. *)
LEMMA AssembleKeepsInv ==
    ASSUME ResolverInv, Assemble
    PROVE  ResolverInv'
<1>1. /\ pc = "assemble" /\ query' = query /\ result = None
      /\ trigger' = find_range_trigger(query)
  BY DEF Assemble, ResolverInv
<1>2. CallOK(query)
  BY DEF ResolverInv, Whence
<1>3. Whence'
  BY <1>1, <1>2, TriggerIsCandidate DEF Whence
<1>4. CASE trigger' # None
  <2>1. CallBuildHull("trigger")
    BY <1>4 DEF Assemble
  <2> QED
    BY <1>1, <1>2, <1>3, <1>4, <2>1, CallKeepsInv
<1>5. CASE trigger' = None
  <2>1. Atomic
    BY <1>5 DEF Assemble
  <2>2. caller # "trigger"
    BY <1>1, CallsAssumption DEF ResolverInv
  <2> QED
    BY <1>1, <1>3, <2>1, <2>2, AtomicKeepsInv
<1> QED
  BY <1>4, <1>5

(* A turn of the loop collects nodes of the part only. *)
LEMMA PopKeepsInv ==
    ASSUME ResolverInv, NEW n \in worklist, PopNode(n)
    PROVE  ResolverInv'
<1>1. /\ pc = "hull" /\ pc' = pc /\ query' = query /\ trigger' = trigger
      /\ caller' = caller /\ result' = result
      /\ (seen \cup worklist)' \subseteq seen \cup worklist \cup Neighbours(n)
      /\ n \in seen' /\ seen \subseteq seen'
      /\ n \notin seen \/ (seen \cup worklist)' \subseteq seen \cup worklist
  BY DEF PopNode
<1>2. CallOK(query) /\ n \in Nodes(PartOf(query))
      /\ seen \cup worklist \subseteq Nodes(PartOf(query))
  BY DEF ResolverInv, Whence, Collected
<1>3. (seen \cup worklist)' \subseteq Nodes(PartOf(query'))
  BY <1>1, <1>2, NeighboursInside
<1>4. \A kind : OfKind(kind) \subseteq OfKind(kind)'
  BY <1>1 DEF OfKind
<1>5. TargetsFound'
  <2> SUFFICES ASSUME NEW m \in (seen \cup worklist)', m.kind = "target"
               PROVE  \E p \in OfKind("pivot")' : m.verse \in down_set(p, query.tgtHops)
    BY <1>1 DEF TargetsFound
  <2>1. CASE m \in seen \cup worklist
    BY <1>4, <2>1 DEF ResolverInv, Collected, TargetsFound
  <2>2. CASE m \in Neighbours(n)
    <3>1. n.kind = "pivot" /\ m.verse \in down_set(n.verse, query.tgtHops)
      BY <2>2 DEF Neighbours, Node
    <3>2. n.verse \in OfKind("pivot")'
      BY <1>1, <3>1 DEF OfKind
    <3> QED
      BY <3>1, <3>2
  <2> QED
    BY <1>1, <2>1, <2>2
<1>6. (caller' = None) = ((seen \cup worklist)' = {})
  <2>1. caller # None
    BY <1>1 DEF ResolverInv
  <2> QED
    BY <1>1, <2>1
<1>7. Collected'
  BY <1>3, <1>5, <1>6 DEF Collected
<1>8. Whence'
  BY <1>1 DEF ResolverInv, Whence
<1> QED
  BY <1>1, <1>7, <1>8 DEF ResolverInv

(* The end of the loop returns or takes the atomic path. *)
LEMMA FinishKeepsInv ==
    ASSUME ResolverInv, HullInv, NEW order \in Orders, FinishHull(order)
    PROVE  ResolverInv'
<1>1. /\ pc = "hull" /\ worklist = {} /\ query' = query /\ trigger' = trigger
      /\ LoopOver /\ result = None
  BY DEF FinishHull, LoopOver, ResolverInv
<1>2. Whence'
  BY <1>1 DEF ResolverInv, Whence
<1>3. /\ CallOK(query) /\ TargetsFound /\ seen \subseteq Nodes(PartOf(query))
      /\ HullClosed /\ caller \in {"trigger", "atomic"}
      /\ caller = "trigger" => trigger' # None
  BY <1>1, NothingOwedIsClosed DEF ResolverInv, Whence, Collected
<1>4. PICK hull : hull = HullAnswer(order)
  OBVIOUS
<1>5. AnswerOK(query, hull)
  BY <1>1, <1>3, <1>4, HullAnswerOK
<1>6. PICK dto : dto = HullReturn(order)
  OBVIOUS
<1>7. dto = IF caller = "atomic" THEN normalize_same_bcv(hull)
            ELSE IF hull.relation = "complex" THEN hull ELSE build_range_hull
  BY <1>4, <1>6 DEF HullReturn
<1>8. CASE caller = "trigger" /\ dto = None
  <2>1. Atomic
    BY <1>6, <1>8 DEF FinishHull
  <2> QED
    BY <1>1, <1>2, <1>3, <2>1, AtomicKeepsInv
<1>9. CASE ~ (caller = "trigger" /\ dto = None)
  <2>1. Return(dto)
    BY <1>6, <1>9 DEF FinishHull
  <2>2. AnswerOK(query, dto)
    <3>1. CASE caller = "atomic"
      BY <1>5, <1>7, <3>1, NormalizedAnswer
    <3>2. CASE caller = "trigger" /\ hull.relation = "complex"
      BY <1>5, <1>7, <3>2
    <3>3. CASE caller = "trigger" /\ hull.relation # "complex"
      <4>1. dto = build_range_hull /\ build_range_hull # None
        BY <1>7, <1>9, <3>3
      <4>2. TriggerOK(query, trigger) /\ \A m \in query.members : m.part = None
        BY <3>3 DEF ResolverInv, Whence
      <4> QED
        BY <1>3, <4>1, <4>2, RangeAnswer
    <3> QED
      BY <1>3, <3>1, <3>2, <3>3
  <2> QED
    BY <1>1, <1>2, <1>3, <2>1, <2>2, ReturnKeepsInv
<1> QED
  BY <1>8, <1>9

(* Every step keeps the invariant. *)
LEMMA ResolverInvIsInductive ==
    ASSUME ResolverInv, HullInv, [Next]_vars
    PROVE  ResolverInv'
<1>1. CASE Assemble
  BY <1>1, AssembleKeepsInv
<1>2. ASSUME NEW n \in worklist, PopNode(n) PROVE ResolverInv'
  BY <1>2, PopKeepsInv
<1>3. ASSUME NEW order \in Orders, FinishHull(order) PROVE ResolverInv'
  BY <1>3, FinishKeepsInv
<1>4. CASE UNCHANGED vars
  BY <1>4 DEF vars, ResolverInv, Whence, Collected, TargetsFound, OfKind
<1> QED
  BY <1>1, <1>2, <1>3, <1>4 DEF Next

-----------------------------------------------------------------------------
(* ----------------------- what every answer keeps ------------------------ *)

(* An answer has every member and, unless excluded, its counterparts. *)
LEMMA AnswerKeepsCounterparts ==
    ASSUME CallOK(query), AnswerOK(query, result)
    PROVE  \A m \in query.members :
                /\ m \in result.sources
                /\ ~ apply_hops({m}, query.srcHops, TRUE).excluded
                        => Walk({m}).targets \subseteq result.targets
<1> SUFFICES ASSUME NEW m \in query.members
             PROVE  /\ m \in result.sources
                    /\ Climbs(query, m) => Walk({m}).targets \subseteq result.targets
  BY DEF Climbs
<1>1. m \in OfPart(PartOf(query))
  BY MembersOfPart
<1>2. Walk({m}).targets = Counterparts(query, m)
  BY <1>1, WalkFacts
<1> QED
  BY <1>2 DEF AnswerOK

(* The invariants hold initially. *)
LEMMA InitResolverInv == Init => ResolverInv /\ HullInv
<1> SUFFICES ASSUME Init PROVE ResolverInv /\ HullInv
  OBVIOUS
<1>1. PICK members \in MemberSets, chain \in Chains :
        query = [members |-> members, srcHops |-> chain.srcHops,
                 tgtHops |-> chain.tgtHops]
  BY DEF Init
<1>2. CallOK(query)
  BY <1>1, CallsAssumption DEF CallOK
<1>3. /\ pc = "assemble" /\ trigger = None /\ caller = None /\ worklist = {}
      /\ seen = {} /\ result = None
  BY DEF Init
<1>4. caller # "trigger"
  BY <1>3, CallsAssumption
<1> QED
  BY <1>2, <1>3, <1>4
     DEF ResolverInv, Whence, Collected, TargetsFound, HullInv

(* The shape of the state follows from the invariant. *)
LEMMA InvHasShape == ResolverInv => TypeOK
<1> SUFFICES ASSUME ResolverInv PROVE TypeOK
  OBVIOUS
<1>1. trigger # None => trigger.side \in {"source", "target"}
  BY DEF ResolverInv, Whence, TriggerOK
<1>2. seen \cup worklist \subseteq [kind : {"source", "pivot", "target"}, verse : Verses]
  BY DEF ResolverInv, Collected, Nodes, OfPart
<1>3. (caller = None) = (seen \cup worklist = {})
  BY DEF ResolverInv, Collected
<1>4. (pc = "done") = (result # None)
  BY AnswersAreNotNone DEF ResolverInv
<1>5. result # None =>
            /\ result.relation \in Relations \cup {"complex", "range"}
            /\ result.sources \cup result.targets \subseteq Verses
            /\ result.edges \subseteq [source : result.sources,
                                      target : result.targets,
                                      relation : Relations]
  BY <1>4 DEF ResolverInv, AnswerOK, Dtos
<1>6. MembersOK(query.members)
  BY DEF ResolverInv, Whence, CallOK
<1> QED
  BY <1>1, <1>2, <1>3, <1>4, <1>5, <1>6 DEF TypeOK, ResolverInv

(* The shape of the state and of the answer: whatever the mapping rows, the  *)
(* coordinates never leave the numberings they refer to.                     *)
THEOREM TypeCorrect == Spec => []TypeOK
BY InvHasShape, InitResolverInv, ResolverInvIsInductive, HullInvIsInductive,
   PTL DEF Spec

(* No path of assemble loses a counterpart, for every call. *)
THEOREM CounterpartsAreKept == Spec => []NothingLost
<1>1. ResolverInv => NothingLost
  BY AnswerKeepsCounterparts DEF ResolverInv, Whence, NothingLost
<1> QED
  BY <1>1, InitResolverInv, ResolverInvIsInductive, HullInvIsInductive, PTL DEF Spec

(* Every target of a complex hull has a connector, for every call. *)
THEOREM ConnectorsReachTargets == Spec => []TargetsLinked
<1>1. ResolverInv => TargetsLinked
  BY DEF ResolverInv, AnswerOK, TargetsLinked
<1> QED
  BY <1>1, InitResolverInv, ResolverInvIsInductive, HullInvIsInductive, PTL DEF Spec

-----------------------------------------------------------------------------
(* ----------------------- a single verse's answer ------------------------ *)

(* What a walk that nothing splits or merges leaves of one verse: nothing, or *)
(* one verse, which is the same one when the walk names no change.           *)
PlainWalk(w, part, x) ==
    \/ w.verses = {}
    \/ /\ w.siblings = {} /\ w.relation \notin {"split", "merge"}
       /\ \E y \in OfPart(part) :
            w.verses = {y} /\ (w.relation = "one_to_one" => y = x)

(* A verse paired by index with its own range stays where it is. *)
LEMMA ZipOntoItself ==
    ASSUME NEW r, RangeOK(r), NEW x \in Verses, covers(r, x)
    PROVE  _zip_project(x, r, r) = x
<1>1. /\ x.v \in Nat /\ r.lo \in Nat /\ r.hi \in Nat /\ r.c = x.c
      /\ r.lo =< x.v /\ x.v =< r.hi /\ x = VerseId(x.c, x.v, x.part)
  <2>1. x.v \in r.lo .. r.hi /\ r.c = x.c
    BY DEF covers
  <2> QED
    BY <2>1, CallsAssumption DEF RangeOK
<1>2. r.lo + x.v - r.lo = x.v
  BY <1>1
<1>3. Min({x.v, r.hi}) \in {x.v, r.hi} /\ Min({x.v, r.hi}) =< x.v
  BY <1>1, LeastIsOne
<1>4. Min({x.v, r.hi}) = x.v
  BY <1>1, <1>3
<1> QED
  BY <1>1, <1>2, <1>4 DEF _zip_project

(* What one hop does to a verse it neither splits nor merges. *)
LEMMA PlainProjection ==
    ASSUME NEW rows, RowsOK(rows), NEW part, NEW x \in OfPart(part),
           NEW upward \in BOOLEAN,
           project_verse(x, rows, upward).relation \notin {"split", "merge"}
    PROVE  PlainWalk(project_verse(x, rows, upward), part, x)
<1> DEFINE i == find_covering_record(rows, x, upward)
           p == project_verse(x, rows, upward)
<1>0. x \in Verses /\ x.part = part
  BY DEF OfPart
<1>1. CASE i = 0
  <2>1. p = Projection({x}, "one_to_one", FALSE, {})
    BY <1>1 DEF project_verse
  <2> QED
    BY <2>1 DEF PlainWalk, Projection
<1>2. CASE i # 0
  <2>1. PICK row : row = rows[i]
    OBVIOUS
  <2>2. RowOK(row) /\ covers(Side(row, upward), x)
    BY <1>2, <2>1, FindsCovering DEF RowsOK
  <2>3. p = project_through(x, row, upward)
    BY <1>2, <2>1 DEF project_verse
  <2> DEFINE relation == IF upward THEN row.relation
                         ELSE invert_relation(row.relation)
             from == Side(row, upward)
             far  == Side(row, ~upward)
             to   == IF far = None /\ relation = "merge"
                     THEN RefRange(from.c, from.lo, from.lo) ELSE far
  <2>4. project_through(x, row, upward) =
        IF relation = "exclude" \/ to = None
        THEN Projection({}, "exclude", TRUE, {})
        ELSE CASE relation = "merge" ->
                    Projection({VerseId(to.c, to.lo, x.part)}, relation,
                               FALSE, expand(from, x.part))
               [] relation = "split" ->
                    Projection(expand(to, x.part), relation, FALSE, {})
               [] OTHER ->
                    Projection({_zip_project(x, from, to)}, relation,
                               FALSE, {})
    BY DEF project_through
  <2>5. RangeOK(from)
    BY <2>2 DEF RowOK, Side, covers
  <2>6. relation = "one_to_one" => far = from
    BY <2>2 DEF RowOK, Side, invert_relation
  <2>7. relation # "merge" => to = far
    OBVIOUS
  <2> HIDE DEF relation, from, far, to, p, i
  <2>8. CASE relation = "exclude" \/ to = None
    <3>1. p = Projection({}, "exclude", TRUE, {})
      BY <2>3, <2>4, <2>8
    <3> QED
      BY <3>1 DEF PlainWalk, Projection, p
  <2>9. CASE ~ (relation = "exclude" \/ to = None)
    <3>1. relation \notin {"split", "merge"}
      <4>1. CASE relation = "merge"
        <5>1. p = Projection({VerseId(to.c, to.lo, x.part)}, relation,
                               FALSE, expand(from, x.part))
          BY <2>3, <2>4, <2>9, <4>1
        <5> QED
          BY <4>1, <5>1 DEF Projection, p
      <4>2. CASE relation = "split"
        <5>1. p = Projection(expand(to, x.part), relation, FALSE, {})
          BY <2>3, <2>4, <2>9, <4>2
        <5> QED
          BY <4>2, <5>1 DEF Projection, p
      <4> QED
        BY <4>1, <4>2
    <3>2. p = Projection({_zip_project(x, from, to)}, relation, FALSE, {})
      BY <2>3, <2>4, <2>9, <3>1
    <3>3. PICK y : y = _zip_project(x, from, to)
      OBVIOUS
    <3>4. p.verses = {y} /\ p.siblings = {} /\ p.relation = relation
      BY <3>2, <3>3 DEF Projection
    <3>5. y \in OfPart(part)
      <4>1. {y} \subseteq OfPart(part)
        BY <1>0, <3>4, Projects DEF ProjectionOK, p
      <4> QED
        BY <4>1
    <3>6. relation = "one_to_one" => y = x
      <4> SUFFICES ASSUME relation = "one_to_one" PROVE y = x
        OBVIOUS
      <4>1. to = from
        BY <2>6, <2>7
      <4>2. RangeOK(from) /\ covers(from, x)
        BY <2>2, <2>5 DEF from
      <4> QED
        BY <1>0, <3>3, <4>1, <4>2, ZipOntoItself
    <3> QED
      BY <3>1, <3>4, <3>5, <3>6 DEF PlainWalk, p
  <2> QED
    BY <2>8, <2>9
<1> QED
  BY <1>1, <1>2

(* A hop from one verse takes that verse through its row, no more. *)
LEMMA HopOfOne ==
    ASSUME NEW part, NEW w \in Walks(part), NEW y, w.verses = {y},
           NEW rows, RowsOK(rows), NEW upward \in BOOLEAN
    PROVE  /\ ApplyHop(w, rows, upward).verses = project_verse(y, rows, upward).verses
           /\ ApplyHop(w, rows, upward).relation
                = compose(w.relation, project_verse(y, rows, upward).relation)
           /\ ApplyHop(w, rows, upward).siblings
                = w.siblings \cup project_verse(y, rows, upward).siblings
<1> DEFINE through(x) == project_verse(x, rows, upward)
           current == sort_verses(w.verses)
           n == Len(current)
           R == CHOOSE f : f = [k \in 0 .. n |->
                    IF k = 0 THEN w.relation
                    ELSE compose(f[k - 1], through(current[k]).relation)]
           next == ApplyHop(w, rows, upward)
<1>1. next = Projection(UNION {through(x).verses : x \in w.verses},
                   R[n],
                   w.excluded \/ \E x \in w.verses : through(x).excluded,
                   w.siblings \cup UNION {through(x).siblings : x \in w.verses})
  BY DEF ApplyHop
<1>2. n = 1 /\ current[1] = y
  <2>1. {y} \subseteq OfPart(part)
    BY DEF Walks
  <2>2. Alike({y})
    BY <2>1, OfPartAlike
  <2>3. Cardinality({y}) = 1
    BY FS_Singleton
  <2>4. /\ sort_verses({y}) \in [1 .. 1 -> {y}]
        /\ Len(sort_verses({y})) = 1
    BY <2>2, <2>3, SortVerses
  <2>5. 1 \in 1 .. 1
    OBVIOUS
  <2> QED
    BY <2>4, <2>5
<1> HIDE DEF current, n
<1>3. R[n] = compose(w.relation, through(y).relation)
  <2> DEFINE c == compose(w.relation, through(y).relation)
             g == [k \in 0 .. n |-> IF k = 0 THEN w.relation ELSE c]
  <2>1. g = [k \in 0 .. n |->
                    IF k = 0 THEN w.relation
                    ELSE compose(g[k - 1], through(current[k]).relation)]
    <3> HIDE DEF through
    <3>1. g[0] = w.relation
      BY <1>2
    <3>2. \A k \in 0 .. n : k = 0 \/ k = 1
      BY <1>2
    <3>3. \A k \in 0 .. n : k # 0 => compose(g[k - 1], through(current[k]).relation) = c
      BY <1>2, <3>1, <3>2
    <3> HIDE DEF c
    <3> QED
      BY <3>3
  <2>2. R = [k \in 0 .. n |->
                    IF k = 0 THEN w.relation
                    ELSE compose(R[k - 1], through(current[k]).relation)]
    <3> HIDE DEF through, g
    <3> QED
      BY <2>1
  <2> HIDE DEF through, R
  <2>3. R[0] = w.relation /\ R[n] = compose(R[n - 1], through(current[n]).relation)
    <3>1. 0 \in 0 .. n /\ n \in 0 .. n /\ n # 0
      BY <1>2
    <3> QED
      BY <2>2, <3>1
  <2> QED
    BY <1>2, <2>3
<1> HIDE DEF R, through
<1>4. /\ UNION {through(x).verses : x \in w.verses} = through(y).verses
      /\ UNION {through(x).siblings : x \in w.verses} = through(y).siblings
  OBVIOUS
<1> HIDE DEF next
<1>5. /\ next.verses = through(y).verses
      /\ next.relation = compose(w.relation, through(y).relation)
      /\ next.siblings = w.siblings \cup through(y).siblings
  BY <1>1, <1>3, <1>4 DEF Projection
<1> QED
  BY <1>5 DEF next, through

(* A hop that leaves no verse has met an exclusion. *)
LEMMA NothingIsExcluded ==
    ASSUME NEW part, NEW w \in Walks(part), NEW rows, RowsOK(rows),
           NEW upward \in BOOLEAN, w.verses = {} => w.excluded,
           ApplyHop(w, rows, upward).verses = {}
    PROVE  ApplyHop(w, rows, upward).excluded
<1> DEFINE next == ApplyHop(w, rows, upward)
<1>1. CASE w.verses = {}
  BY <1>1, AppliesHop
<1>2. CASE w.verses # {}
  <2>1. PICK x \in w.verses : TRUE
    BY <1>2
  <2>2. x \in Verses
    BY DEF Walks, OfPart
  <2>3. next.verses = UNION {project_verse(y, rows, upward).verses : y \in w.verses}
    BY AppliesHop
  <2>4. project_verse(x, rows, upward).verses = {}
    BY <2>3
  <2>5. project_verse(x, rows, upward).excluded
    BY <2>2, <2>4, Projects DEF ProjectionOK
  <2>6. next.excluded = (w.excluded \/ \E y \in w.verses : project_verse(y, rows, upward).excluded)
    BY DEF ApplyHop, Projection
  <2> QED
    BY <2>5, <2>6
<1> QED
  BY <1>1, <1>2

(* The first hops of a chain lead through the first stages of its walk. *)
LEMMA WalkIsCut ==
    ASSUME NEW part, NEW verses, verses \subseteq OfPart(part),
           NEW hops, HopsOK(hops), NEW upward \in BOOLEAN, NEW k \in DOMAIN hops
    PROVE  apply_hops(verses, SubSeq(hops, 1, k - 1), upward)
             = StagesOf(verses, hops, upward)[k - 1]
<1> DEFINE cut == SubSeq(hops, 1, k - 1)
           part1 == StagesOf(verses, cut, upward)
           whole == StagesOf(verses, hops, upward)
           good == {j \in 0 .. k - 1 : part1[j] = whole[j]}
<1>1. /\ Len(hops) \in Nat /\ k \in 1 .. Len(hops) /\ k - 1 \in Nat
      /\ Len(cut) = k - 1 /\ \A j \in 1 .. k - 1 : cut[j] = hops[j]
  <2>1. Len(hops) \in Nat /\ k \in 1 .. Len(hops)
    BY DEF HopsOK
  <2>2. cut = [i \in 1 .. (k - 1) |-> hops[i]]
    BY <2>1
  <2>3. cut \in Seq(ToSet(cut))
    BY HopsCut DEF HopsOK
  <2> HIDE DEF cut
  <2>4. DOMAIN cut = 1 .. k - 1
    BY <2>2
  <2>5. Len(cut) = k - 1
    BY <2>1, <2>3, <2>4, LenProperties
  <2> QED
    BY <2>1, <2>2, <2>5
<1>2. IsWalk(part1, verses, part, cut, upward)
      /\ apply_hops(verses, cut, upward) = part1[Len(cut)]
  BY HopsCut, WalkUnfolds
<1>3. IsWalk(whole, verses, part, hops, upward)
  BY WalkUnfolds
<1> HIDE DEF cut, part1, whole
<1>4. 0 \in good
  <2>1. part1[0] = whole[0]
    BY <1>2, <1>3 DEF IsWalk
  <2>2. 0 \in 0 .. k - 1
    BY <1>1
  <2> QED
    BY <2>1, <2>2
<1>5. ASSUME NEW j \in 1 .. k - 1, j - 1 \in good PROVE j \in good
  <2>1. part1[j] = ApplyHop(part1[j - 1], cut[j], upward)
    BY <1>1, <1>2 DEF IsWalk
  <2>2. j \in 1 .. Len(hops)
    BY <1>1
  <2>3. whole[j] = ApplyHop(whole[j - 1], hops[j], upward)
    BY <1>3, <2>2 DEF IsWalk
  <2>4. cut[j] = hops[j]
    BY <1>1
  <2>5. part1[j - 1] = whole[j - 1]
    BY <1>5
  <2>6. j \in 0 .. k - 1
    BY <1>1
  <2> QED
    BY <2>1, <2>3, <2>4, <2>5, <2>6
<1>6. k - 1 \in good
  <2>1. PICK m \in Nat : m = k - 1
    BY <1>1
  <2> HIDE DEF good
  <2>2. \A j \in 1 .. m : j - 1 \in good => j \in good
    BY <1>5, <2>1
  <2>3. 0 .. m \subseteq good
    BY <1>4, <2>2, StaysUpTo
  <2> QED
    BY <2>1, <2>3
<1> QED
  BY <1>1, <1>2, <1>6 DEF cut, whole

(* A walk that leaves no verse has met an exclusion. *)
LEMMA EmptyWalkIsExcluded ==
    ASSUME NEW part, NEW verses, verses \subseteq OfPart(part), verses # {},
           NEW hops, HopsOK(hops), NEW upward \in BOOLEAN,
           apply_hops(verses, hops, upward).verses = {}
    PROVE  apply_hops(verses, hops, upward).excluded
<1> DEFINE n == Len(hops)
           walk == StagesOf(verses, hops, upward)
           good == {k \in 0 .. n : walk[k].verses = {} => walk[k].excluded}
<1>1. IsWalk(walk, verses, part, hops, upward)
      /\ apply_hops(verses, hops, upward) = walk[n]
  BY WalkUnfolds
<1> HIDE DEF walk
<1>2. /\ n \in Nat /\ walk[0] = Projection(verses, "one_to_one", FALSE, {})
      /\ \A k \in 1 .. n : /\ RowsOK(hops[k]) /\ walk[k - 1] \in Walks(part)
                           /\ walk[k] = ApplyHop(walk[k - 1], hops[k], upward)
  BY <1>1 DEF IsWalk
<1> HIDE DEF n
<1>3. 0 \in good
  <2>1. walk[0].verses = verses
    BY <1>2 DEF Projection
  <2>2. 0 \in 0 .. n
    BY <1>2
  <2> QED
    BY <2>1, <2>2
<1>4. ASSUME NEW k \in 1 .. n, k - 1 \in good PROVE k \in good
  <2>1. walk[k - 1].verses = {} => walk[k - 1].excluded
    BY <1>4
  <2>2. walk[k].verses = {} => walk[k].excluded
    BY <1>2, <2>1, NothingIsExcluded
  <2>3. k \in 0 .. n
    BY <1>2
  <2> QED
    BY <2>2, <2>3
<1>5. n \in good
  <2> HIDE DEF good
  <2> QED
    BY <1>2, <1>3, <1>4, StaysUpTo
<1> QED
  BY <1>1, <1>5

(* Relations that neither split nor merge compose to one that does not, and  *)
(* to no change only when both change nothing.                               *)
LEMMA ComposePlain ==
    ASSUME NEW left \in Relations, NEW right \in Relations,
           left \notin {"split", "merge"}, right \notin {"split", "merge"}
    PROVE  /\ compose(left, right) \notin {"split", "merge"}
           /\ compose(left, right) = "one_to_one"
                => left = "one_to_one" /\ right = "one_to_one"
  BY DEF compose, Relations, priority_rank

(* A plain walk stays plain over a hop that neither splits nor merges. *)
LEMMA HopStaysPlain ==
    ASSUME NEW part, NEW x, NEW w \in Walks(part), PlainWalk(w, part, x),
           NEW rows, RowsOK(rows), NEW upward \in BOOLEAN,
           \A y \in w.verses :
                project_verse(y, rows, upward).relation \notin {"split", "merge"}
    PROVE  PlainWalk(ApplyHop(w, rows, upward), part, x)
<1> DEFINE next == ApplyHop(w, rows, upward)
<1>1. CASE w.verses = {}
  <2>1. next.verses = UNION {project_verse(y, rows, upward).verses : y \in w.verses}
    BY AppliesHop
  <2>2. next.verses = {}
    BY <1>1, <2>1
  <2> QED
    BY <2>2 DEF PlainWalk
<1>2. CASE w.verses # {}
  <2>1. PICK y \in OfPart(part) :
            w.verses = {y} /\ (w.relation = "one_to_one" => y = x)
    BY <1>2 DEF PlainWalk
  <2>2. w.siblings = {} /\ w.relation \notin {"split", "merge"}
    BY <1>2 DEF PlainWalk
  <2>3. PICK p : p = project_verse(y, rows, upward)
    OBVIOUS
  <2>4. p.relation \notin {"split", "merge"} /\ PlainWalk(p, part, y)
    BY <2>1, <2>3, PlainProjection
  <2>5. p.relation \in Relations /\ w.relation \in Relations
    BY <2>1, <2>3, Projects DEF ProjectionOK, Walks, OfPart
  <2>6. /\ next.verses = p.verses /\ next.siblings = w.siblings \cup p.siblings
        /\ next.relation = compose(w.relation, p.relation)
    BY <2>1, <2>3, HopOfOne
  <2> HIDE DEF next
  <2>7. CASE p.verses = {}
    BY <2>6, <2>7 DEF PlainWalk, next
  <2>8. CASE p.verses # {}
    <3>1. p.siblings = {}
      BY <2>4, <2>8 DEF PlainWalk
    <3>2. PICK z \in OfPart(part) :
            p.verses = {z} /\ (p.relation = "one_to_one" => z = y)
      BY <2>4, <2>8 DEF PlainWalk
    <3>3. /\ next.relation \notin {"split", "merge"}
          /\ next.relation = "one_to_one"
                => w.relation = "one_to_one" /\ p.relation = "one_to_one"
      BY <2>2, <2>4, <2>5, <2>6, ComposePlain
    <3>4. next.siblings = {} /\ next.verses = {z}
      BY <2>2, <2>6, <3>1, <3>2
    <3>5. next.relation = "one_to_one" => z = x
      BY <2>1, <3>2, <3>3
    <3> QED
      BY <3>3, <3>4, <3>5 DEF PlainWalk, next
  <2> QED
    BY <2>7, <2>8
<1> QED
  BY <1>1, <1>2

(* A verse that meets no split and no merge on a chain walks it plainly. *)
LEMMA LegStaysPlain ==
    ASSUME NEW part, NEW x \in OfPart(part), NEW hops, HopsOK(hops),
           NEW upward \in BOOLEAN, ~ CombinedOn({x}, hops, upward)
    PROVE  PlainWalk(apply_hops({x}, hops, upward), part, x)
<1> DEFINE n == Len(hops)
           walk == StagesOf({x}, hops, upward)
           good == {k \in 0 .. n : PlainWalk(walk[k], part, x)}
<1>0. {x} \subseteq OfPart(part)
  OBVIOUS
<1>1. IsWalk(walk, {x}, part, hops, upward)
      /\ apply_hops({x}, hops, upward) = walk[n]
  BY <1>0, WalkUnfolds
<1>2. DOMAIN hops = 1 .. n
  BY DEF HopsOK
<1>3. ASSUME NEW k \in 1 .. n, NEW y \in walk[k - 1].verses
      PROVE  project_verse(y, hops[k], upward).relation \notin {"split", "merge"}
  <2>1. apply_hops({x}, SubSeq(hops, 1, k - 1), upward) = walk[k - 1]
    BY <1>0, <1>2, WalkIsCut
  <2>2. Levels({x}, hops, upward)[k] = walk[k - 1].verses
    BY <1>2, <2>1 DEF Levels
  <2> QED
    BY <1>2, <1>3, <2>2 DEF CombinedOn
<1> HIDE DEF walk
<1>4. /\ n \in Nat /\ walk[0] = Projection({x}, "one_to_one", FALSE, {})
      /\ \A k \in 1 .. n : /\ RowsOK(hops[k]) /\ walk[k - 1] \in Walks(part)
                           /\ walk[k] = ApplyHop(walk[k - 1], hops[k], upward)
  BY <1>1 DEF IsWalk
<1> HIDE DEF n
<1>5. 0 \in good
  <2>1. PlainWalk(walk[0], part, x)
    BY <1>4 DEF PlainWalk, Projection
  <2>2. 0 \in 0 .. n
    BY <1>4
  <2> QED
    BY <2>1, <2>2
<1>6. ASSUME NEW k \in 1 .. n, k - 1 \in good PROVE k \in good
  <2>1. PlainWalk(walk[k - 1], part, x)
    BY <1>6
  <2>2. PlainWalk(walk[k], part, x)
    BY <1>3, <1>4, <2>1, HopStaysPlain
  <2>3. k \in 0 .. n
    BY <1>4
  <2> QED
    BY <2>2, <2>3
<1>7. n \in good
  <2> HIDE DEF good
  <2> QED
    BY <1>4, <1>5, <1>6, StaysUpTo
<1> QED
  BY <1>1, <1>7

(* One verse by itself is contiguous. *)
LEMMA OneIsContiguous ==
    ASSUME NEW part, NEW z \in OfPart(part)
    PROVE  is_contiguous({z})
<1>1. Alike({z})
  BY DEF OfPart, Alike
<1>2. Cardinality({z}) = 1
  BY FS_Singleton
<1>3. PICK s : s = sort_verses({z})
  OBVIOUS
<1>4. s \in [1 .. 1 -> {z}]
  BY <1>1, <1>2, <1>3, SortVerses
<1>5. s[1] = z /\ DOMAIN s = {1}
  BY <1>4
<1>6. z.v \in Nat
  BY CallsAssumption DEF OfPart
<1>7. \A i \in DOMAIN s : s[i].c = s[1].c /\ s[i].v = s[1].v + i - 1
  BY <1>5, <1>6
<1> QED
  BY <1>3, <1>7 DEF is_contiguous

(* A verse that is not dropped leads somewhere; without a split or a merge,  *)
(* to one verse, which is itself when nothing moves it.                      *)
LEMMA SingleWalk ==
    ASSUME CallOK(query), NEW part, NEW m \in OfPart(part), query.members = {m},
           ~ Walk({m}).dropped
    PROVE  /\ Walk({m}).targets # {}
           /\ ~ Combined(query) =>
                /\ ~ Fans(Walk({m})) /\ Walk({m}).siblings = {}
                /\ \E z \in OfPart(part) :
                        /\ Walk({m}).targets = {z}
                        /\ Walk({m}).composed = "one_to_one" => z = m
<1> DEFINE walk == Walk({m})
           up == apply_hops({m}, query.srcHops, TRUE)
           down == apply_hops(up.verses, query.tgtHops, FALSE)
<1>1. walk = [targets |-> down.verses, siblings |-> up.siblings,
                   up_rel |-> up.relation, down_rel |-> down.relation,
                   composed |-> compose(up.relation, down.relation),
                   dropped |-> \/ up.excluded /\ up.verses = {}
                               \/ down.excluded /\ down.verses = {}]
  BY DEF Walk
<1>2. {m} \subseteq OfPart(part) /\ {m} # {}
      /\ HopsOK(query.srcHops) /\ HopsOK(query.tgtHops)
  BY DEF CallOK
<1>3. Combined(query) <=> \/ CombinedOn({m}, query.srcHops, TRUE)
                          \/ CombinedOn(up.verses, query.tgtHops, FALSE)
  BY DEF Combined
<1>4. /\ walk.targets = down.verses /\ walk.siblings = up.siblings
      /\ walk.up_rel = up.relation /\ walk.down_rel = down.relation
      /\ walk.composed = compose(up.relation, down.relation)
      /\ ~ (up.excluded /\ up.verses = {})
  <2> HIDE DEF up, down
  <2> QED
    BY <1>1
<1>5. up \in Walks(part)
  BY <1>2, WalkStaysInside
<1>6. up.verses # {} /\ up.verses \subseteq OfPart(part)
  <2>1. up.verses = {} => up.excluded
    BY <1>2, EmptyWalkIsExcluded
  <2> HIDE DEF up
  <2> QED
    BY <1>4, <1>5, <2>1 DEF Walks
<1>7. down \in Walks(part) /\ down.verses # {}
  <2> HIDE DEF up
  <2> QED
    BY <1>2, <1>6, WalkStaysInside
<1>8. ASSUME ~ Combined(query)
      PROVE  /\ ~ Fans(walk) /\ walk.siblings = {}
             /\ \E z \in OfPart(part) :
                    /\ walk.targets = {z}
                    /\ walk.composed = "one_to_one" => z = m
  <2>1. PlainWalk(up, part, m)
    BY <1>2, <1>3, <1>8, LegStaysPlain
  <2>2. ~ CombinedOn(up.verses, query.tgtHops, FALSE)
    BY <1>3, <1>8
  <2> HIDE DEF walk, up
  <2>3. PICK y \in OfPart(part) :
            up.verses = {y} /\ (up.relation = "one_to_one" => y = m)
    BY <1>6, <2>1 DEF PlainWalk
  <2>4. up.siblings = {} /\ up.relation \notin {"split", "merge"}
    BY <1>6, <2>1 DEF PlainWalk
  <2>5. PlainWalk(down, part, y)
    BY <1>2, <2>2, <2>3, LegStaysPlain
  <2> HIDE DEF down
  <2>6. PICK z \in OfPart(part) :
            down.verses = {z} /\ (down.relation = "one_to_one" => z = y)
    BY <1>7, <2>5 DEF PlainWalk
  <2>7. down.relation \notin {"split", "merge"}
    BY <1>7, <2>5 DEF PlainWalk
  <2>8. up.relation \in Relations /\ down.relation \in Relations
    BY <1>5, <1>7 DEF Walks
  <2>9. walk.composed = "one_to_one" =>
            up.relation = "one_to_one" /\ down.relation = "one_to_one"
    BY <1>4, <2>4, <2>7, <2>8, ComposePlain
  <2>10. ~ Fans(walk)
    BY <1>4, <2>4, <2>7 DEF Fans
  <2> QED
    BY <1>4, <2>3, <2>4, <2>6, <2>9, <2>10
<1> QED
  BY <1>4, <1>7, <1>8

(* What SingleVerseAnswer asks of an answer. *)
SingleOK(d) ==
    d.relation \in {"one_to_one", "shift", "renumber", "partial"} =>
        /\ Cardinality(d.sources) = 1 /\ Cardinality(d.targets) = 1
        /\ d.relation = "one_to_one" => d.sources = d.targets \/ Combined(query)

(* The atomic path answers so, and it answers unless a split or a merge is   *)
(* on the way.                                                               *)
LEMMA AtomicSingle ==
    ASSUME CallOK(query), Cardinality(query.members) = 1
    PROVE  /\ _atomic_result # None => SingleOK(_atomic_result)
           /\ ~ Combined(query) => _atomic_result # None
<1> DEFINE members == query.members
           part == PartOf(query)
           walks == [x \in members |-> Walk({x})]
           kept == {x \in members : ~ walks[x].dropped}
           relations == {IF x \in kept THEN walks[x].composed
                              ELSE "exclude" : x \in members}
           sources == members \cup UNION {walks[x].siblings : x \in members}
           targets == UNION {walks[x].targets : x \in kept}
           one(S) == Cardinality(S) = 1
           manyToMany == \E x \in kept :
                    \/ Fans(walks[x])
                    \/ /\ ~ one({x} \cup walks[x].siblings)
                       /\ Cardinality(walks[x].targets) > 1
           named == IF one(sources) /\ Cardinality(targets) > 1 THEN "split"
                    ELSE IF ~ one(sources) /\ one(targets) THEN "merge"
                    ELSE CHOOSE r \in relations : TRUE
<1>1. _atomic_result =
                IF manyToMany THEN None
                ELSE IF relations = {"exclude"} THEN Plain(sources, {}, "exclude")
                ELSE IF ~ one(relations) \/ ~ is_contiguous(sources)
                        \/ ~ is_contiguous(targets) THEN None
                ELSE Plain(sources, targets, named)
  BY DEF _atomic_result
<1>2. PICK m \in OfPart(part) : members = {m}
  <2>1. members \subseteq OfPart(part) /\ members # {}
    BY MembersOfPart
  <2>2. IsFiniteSet(members)
    BY CallsAssumption, FS_Subset DEF CallOK, MembersOK
  <2>3. \E x : members = {x}
    BY <2>2, FS_Singleton
  <2> QED
    BY <2>1, <2>3
<1>3. PICK w : w = Walk({m})
  OBVIOUS
<1>4. walks[m] = w
  BY <1>2, <1>3
<1>5. w.targets \subseteq OfPart(part) /\ w.siblings \subseteq OfPart(part)
  BY <1>3, WalkFacts
<1> HIDE DEF walks, part
<1>6. sources = {m} \cup w.siblings
  BY <1>2, <1>4
<1>7. CASE w.dropped
  <2>1. kept = {}
    BY <1>2, <1>4, <1>7
  <2> HIDE DEF kept
  <2>2. relations = {"exclude"} /\ ~ manyToMany
    BY <1>2, <2>1
  <2> HIDE DEF relations, sources, targets, manyToMany
  <2>3. _atomic_result = Plain(sources, {}, "exclude")
    BY <1>1, <2>2
  <2>4. /\ _atomic_result \in [sources : {sources}, targets : {{}},
                               relation : {"exclude"}, edges : {{}},
                               source_rel : {None}, target_rel : {None}]
        /\ _atomic_result.relation = "exclude"
    BY <2>3 DEF Plain, Dto
  <2>5. Plain(sources, {}, "exclude") # None
    <3>1. sources \subseteq OfPart(PartOf(query)) /\ query.members \subseteq sources
      BY <1>2, <1>5, <1>6 DEF part
    <3>2. sources \subseteq Verses
      BY <3>1 DEF OfPart
    <3>3. Plain(sources, {}, "exclude") \in Dtos
      BY <3>2 DEF Plain, Dto, Dtos, Relations
    <3> QED
      BY <3>3, CallsAssumption
  <2> QED
    BY <2>3, <2>4, <2>5 DEF SingleOK
<1>8. CASE ~ w.dropped
  <2>1. kept = {m}
    BY <1>2, <1>4, <1>8
  <2>2. /\ w.targets # {}
        /\ ~ Combined(query) =>
                /\ ~ Fans(w) /\ w.siblings = {}
                /\ \E z \in OfPart(part) :
                        w.targets = {z} /\ (w.composed = "one_to_one" => z = m)
    BY <1>2, <1>3, <1>8, SingleWalk
  <2> HIDE DEF kept
  <2>3. relations = {w.composed} /\ targets = w.targets
    BY <1>2, <1>4, <2>1
  <2>4. manyToMany <=> \/ Fans(w)
                       \/ ~ one({m} \cup w.siblings) /\ Cardinality(w.targets) > 1
    BY <1>4, <2>1
  <2> HIDE DEF relations, sources, targets, manyToMany
  <2>5. Cardinality(targets) \in Nat /\ Cardinality(targets) # 0
    <3>1. targets \subseteq Verses /\ targets # {}
      BY <1>5, <2>2, <2>3 DEF OfPart
    <3>2. IsFiniteSet(targets)
      BY <3>1, VersesOf
    <3> QED
      BY <3>1, <3>2, FS_CardinalityType, FS_EmptySet
  <2>6. ASSUME _atomic_result # None, w.composed # "exclude" PROVE SingleOK(_atomic_result)
    <3>1. ~ manyToMany /\ _atomic_result = Plain(sources, targets, named)
      BY <1>1, <2>3, <2>6
    <3>2. PICK d : d = _atomic_result
      OBVIOUS
    <3>3. d.sources = sources /\ d.targets = targets /\ d.relation = named
      <4> HIDE DEF named
      <4> QED
        BY <3>1, <3>2 DEF Plain, Dto
    <3> SUFFICES ASSUME named \in {"one_to_one", "shift", "renumber", "partial"}
                 PROVE  /\ one(sources) /\ one(targets)
                        /\ named = "one_to_one" => sources = targets \/ Combined(query)
      BY <3>2, <3>3 DEF SingleOK
    <3>4. one(sources) /\ one(targets)
      BY <1>6, <2>3, <2>4, <2>5, <3>1
    <3>5. named = w.composed
      BY <2>3, <2>5, <3>4
    <3> HIDE DEF named
    <3>6. named = "one_to_one" /\ ~ Combined(query) => sources = targets
      BY <1>6, <2>2, <2>3, <3>5
    <3> QED
      BY <3>4, <3>6
  <2>7. ASSUME w.composed = "exclude" PROVE SingleOK(_atomic_result) \/ _atomic_result = None
    <3>1. manyToMany \/ _atomic_result = Plain(sources, {}, "exclude")
      BY <1>1, <2>3, <2>7
    <3>2. Plain(sources, {}, "exclude").relation = "exclude"
      BY DEF Plain, Dto
    <3> QED
      BY <1>1, <3>1, <3>2 DEF SingleOK
  <2>8. ASSUME ~ Combined(query) PROVE _atomic_result # None
    <3>1. PICK z \in OfPart(part) : targets = {z}
      BY <2>2, <2>3, <2>8
    <3>2. sources = {m}
      BY <1>6, <2>2, <2>8
    <3>3. one(relations) /\ one(sources) /\ one(targets)
      BY <2>3, <3>1, <3>2, FS_Singleton
    <3>4. is_contiguous(sources) /\ is_contiguous(targets)
      BY <3>1, <3>2, OneIsContiguous
    <3>5. ~ manyToMany
      BY <1>6, <2>2, <2>4, <2>8, <3>3
    <3>6. \/ _atomic_result = Plain(sources, {}, "exclude")
          \/ _atomic_result = Plain(sources, targets, named)
      BY <1>1, <3>3, <3>4, <3>5
    <3>7. named \in Relations
      <4>1. w.composed \in Relations
        BY <1>3, WalkFacts
      <4>2. named = w.composed
        BY <2>3, <3>3
      <4> QED
        BY <4>1, <4>2
    <3> HIDE DEF named
    <3>8. sources \subseteq Verses /\ targets \subseteq Verses
      BY <3>1, <3>2 DEF OfPart
    <3>9. /\ Plain(sources, {}, "exclude") \in Dtos
          /\ Plain(sources, targets, named) \in Dtos
      BY <3>7, <3>8 DEF Plain, Dto, Dtos, Relations
    <3> QED
      BY <3>6, <3>9, CallsAssumption
  <2> QED
    BY <2>6, <2>7, <2>8
<1> QED
  BY <1>7, <1>8

(* normalize_same_bcv calls unmoved only what is. *)
LEMMA NormalizedSingle ==
    ASSUME NEW q, NEW d, AnswerOK(q, d), SingleOK(d)
    PROVE  SingleOK(normalize_same_bcv(d))
<1> DEFINE e == [d EXCEPT !.relation = "one_to_one"]
<1>1. CASE normalize_same_bcv(d) = d
  BY <1>1
<1>2. CASE normalize_same_bcv(d) # d
  <2>1. /\ normalize_same_bcv(d) = e
        /\ d.sources = d.targets /\ Cardinality(d.sources) = 1
    BY <1>2 DEF normalize_same_bcv
  <2>2. e.sources = d.sources /\ e.targets = d.targets
    BY DEF AnswerOK, Dtos
  <2> HIDE DEF e
  <2> QED
    BY <2>1, <2>2 DEF SingleOK
<1> QED
  BY <1>1, <1>2

(* A connected hull names a relation of the four for one source and one      *)
(* target only.                                                              *)
LEMMA HullSingle ==
    ASSUME NEW order, Combined(query)
    PROVE  SingleOK(HullAnswer(order))
<1> DEFINE S == OfKind("source")
           T == OfKind("target")
           links == Linked(order)
           legs == [x \in UNION ToSet(links) |->
                LET first == Min({i \in DOMAIN links : x \in links[i]})
                IN  edge_legs(x[1], order[first], x[2],
                              query.srcHops, query.tgtHops)]
           edges == {Edge(x[1], x[2], legs[x].composed) : x \in DOMAIN legs}
           up == dominant_relation({legs[x].up : x \in DOMAIN legs})
           down == dominant_relation({legs[x].down : x \in DOMAIN legs})
           single == edge_legs(CHOOSE s \in S : TRUE, order[1],
                                   CHOOSE t \in T : TRUE,
                                   query.srcHops, query.tgtHops).composed
           hull == HullAnswer(order)
<1>1. hull =
        IF T = {} THEN Plain(S, {}, "exclude")
        ELSE IF Cardinality(S) = 1 /\ Cardinality(T) = 1 THEN Plain(S, T, single)
        ELSE IF Cardinality(S) = 1 THEN Plain(S, T, "split")
        ELSE IF Cardinality(T) = 1 THEN Plain(S, T, "merge")
        ELSE Dto(S, T, "complex", edges, up, down)
  BY DEF HullAnswer, Linked
<1> HIDE DEF edges, up, down, single
<1>2. ASSUME NEW sources, NEW targets, NEW relation
      PROVE  /\ Plain(sources, targets, relation).sources = sources
             /\ Plain(sources, targets, relation).targets = targets
             /\ Plain(sources, targets, relation).relation = relation
  BY DEF Plain, Dto
<1>3. Dto(S, T, "complex", edges, up, down).relation = "complex"
  BY DEF Dto
<1> HIDE DEF S, T, hull
<1>4. CASE T # {} /\ Cardinality(S) = 1 /\ Cardinality(T) = 1
  BY <1>1, <1>2, <1>4 DEF SingleOK, hull
<1>5. CASE ~ (T # {} /\ Cardinality(S) = 1 /\ Cardinality(T) = 1)
  <2>1. hull.relation \in {"exclude", "split", "merge", "complex"}
    BY <1>1, <1>2, <1>3, <1>5
  <2> QED
    BY <2>1 DEF SingleOK, hull
<1> QED
  BY <1>4, <1>5

(* A range hull is answered as a range or as complex. *)
LEMMA RangeRelation ==
    ASSUME build_range_hull # None
    PROVE  build_range_hull.relation \in {"range", "complex"}
<1>1. PICK S, T, edges, up, down :
        \/ build_range_hull = Dto(S, T, "range", edges, None, None)
        \/ build_range_hull = Dto(S, T, "complex", edges, "range", down)
        \/ build_range_hull = Dto(S, T, "complex", edges, up, "range")
  BY DEF build_range_hull
<1>2. \A relation, e, u, d : Dto(S, T, relation, e, u, d).relation = relation
  BY DEF Dto
<1> QED
  BY <1>1, <1>2

(* The atomic path asks for the hull of one verse only when a split or a     *)
(* merge is on its way.                                                      *)
SingleInv ==
    Cardinality(query.members) = 1 =>
        /\ caller = "atomic" => Combined(query)
        /\ pc = "done" => SingleOK(result)

(* The atomic path keeps it ... *)
LEMMA AtomicKeepsSingle ==
    ASSUME CallOK(query), SingleInv, Atomic, query' = query
    PROVE  SingleInv'
<1> SUFFICES ASSUME Cardinality(query.members) = 1
             PROVE  /\ caller' = "atomic" => Combined(query)
                    /\ pc' = "done" => SingleOK(result')
  BY DEF SingleInv, SingleOK
<1>1. CASE _atomic_result = None
  <2>1. Combined(query) /\ pc' = "hull"
    BY <1>1, AtomicSingle DEF Atomic, CallBuildHull
  <2> QED
    BY <2>1
<1>2. CASE _atomic_result # None
  <2>1. PICK a : a = _atomic_result
    OBVIOUS
  <2>2. AnswerOK(query, a) /\ SingleOK(a)
    BY <1>2, <2>1, AtomicAnswer, AtomicSingle
  <2>3. SingleOK(normalize_same_bcv(a))
    BY <2>2, NormalizedSingle
  <2>4. result' = normalize_same_bcv(a) /\ caller' = caller
    BY <1>2, <2>1 DEF Atomic, Return
  <2> QED
    BY <2>3, <2>4 DEF SingleInv
<1> QED
  BY <1>1, <1>2

(* ... the end of the loop does ... *)
LEMMA FinishKeepsSingle ==
    ASSUME ResolverInv, HullInv, SingleInv, NEW order \in Orders, FinishHull(order)
    PROVE  SingleInv'
<1>1. /\ pc = "hull" /\ worklist = {} /\ query' = query
      /\ LoopOver /\ caller \in {"trigger", "atomic"}
  BY DEF FinishHull, LoopOver, ResolverInv
<1>2. /\ CallOK(query) /\ TargetsFound /\ seen \subseteq Nodes(PartOf(query))
      /\ HullClosed
  BY <1>1, NothingOwedIsClosed DEF ResolverInv, Whence, Collected
<1>3. PICK hull : hull = HullAnswer(order)
  OBVIOUS
<1>4. AnswerOK(query, hull)
  BY <1>1, <1>2, <1>3, HullAnswerOK
<1>5. PICK dto : dto = HullReturn(order)
  OBVIOUS
<1>6. dto = IF caller = "atomic" THEN normalize_same_bcv(hull)
            ELSE IF hull.relation = "complex" THEN hull ELSE build_range_hull
  BY <1>3, <1>5 DEF HullReturn
<1>7. CASE caller = "trigger" /\ dto = None
  <2>1. Atomic
    BY <1>5, <1>7 DEF FinishHull
  <2> QED
    BY <1>1, <1>2, <2>1, AtomicKeepsSingle
<1>8. CASE ~ (caller = "trigger" /\ dto = None)
  <2>1. Return(dto)
    BY <1>5, <1>8 DEF FinishHull
  <2>2. caller' = caller /\ result' = dto
    BY <2>1 DEF Return
  <2> SUFFICES ASSUME Cardinality(query.members) = 1
               PROVE  /\ caller' = "atomic" => Combined(query)
                      /\ SingleOK(dto)
    BY <1>1, <2>2 DEF SingleInv, SingleOK
  <2>3. caller' = "atomic" => Combined(query)
    BY <2>2 DEF SingleInv
  <2>4. CASE caller = "atomic"
    <3>1. SingleOK(hull)
      BY <1>3, <2>4, HullSingle DEF SingleInv
    <3> QED
      BY <1>4, <1>6, <2>3, <2>4, <3>1, NormalizedSingle
  <2>5. CASE caller = "trigger"
    <3>1. dto.relation \in {"range", "complex"}
      BY <1>6, <1>8, <2>5, RangeRelation, CallsAssumption
    <3> QED
      BY <2>3, <3>1 DEF SingleOK
  <2> QED
    BY <1>1, <2>4, <2>5
<1> QED
  BY <1>7, <1>8

(* ... and so does every step. *)
LEMMA SingleInvIsInductive ==
    ASSUME ResolverInv, HullInv, SingleInv, [Next]_vars
    PROVE  SingleInv'
<1>1. CASE Assemble
  <2>1. CallOK(query) /\ query' = query
    BY <1>1 DEF ResolverInv, Whence, Assemble
  <2>2. CASE Atomic
    BY <2>1, <2>2, AtomicKeepsSingle
  <2>3. CASE CallBuildHull("trigger")
    BY <2>1, <2>3 DEF CallBuildHull, SingleInv
  <2> QED
    BY <1>1, <2>2, <2>3 DEF Assemble
<1>2. ASSUME NEW n \in worklist, PopNode(n) PROVE SingleInv'
  BY <1>2 DEF PopNode, SingleInv, SingleOK
<1>3. ASSUME NEW order \in Orders, FinishHull(order) PROVE SingleInv'
  BY <1>3, FinishKeepsSingle
<1>4. CASE UNCHANGED vars
  BY <1>4 DEF vars, SingleInv, SingleOK
<1> QED
  BY <1>1, <1>2, <1>3, <1>4 DEF Next

(* A single verse answered with a 1-1 relation has one source and one        *)
(* target, and is reported as unmoved only when it is or when a split and a  *)
(* merge on its way may have cancelled: for every call.                      *)
THEOREM SingleVerseIsAnswered == Spec => []SingleVerseAnswer
<1>1. Init => SingleInv
  <2> SUFFICES ASSUME Init PROVE SingleInv
    OBVIOUS
  <2>1. pc = "assemble" /\ caller = None
    BY DEF Init
  <2> QED
    BY <2>1, CallsAssumption DEF SingleInv
<1>2. SingleInv => SingleVerseAnswer
  BY DEF SingleInv, SingleOK, SingleVerseAnswer
<1> QED
  BY <1>1, <1>2, InitResolverInv, ResolverInvIsInductive, HullInvIsInductive,
     SingleInvIsInductive, PTL DEF Spec

-----------------------------------------------------------------------------
(* ----------------------- the hull as a component ------------------------ *)

(* The verses without their part. *)
Places == {<<x.c, x.v>> : x \in Verses}

(* A kind has no more nodes than there are places, since all share a part. *)
LEMMA KindIsSmall ==
    ASSUME NEW part, NEW kind
    PROVE  /\ IsFiniteSet(Node(kind, OfPart(part))) /\ IsFiniteSet(Places)
           /\ Cardinality(Places) \in Nat
           /\ Cardinality(Node(kind, OfPart(part))) \in Nat
           /\ Cardinality(Node(kind, OfPart(part))) =< Cardinality(Places)
<1> DEFINE S == Node(kind, OfPart(part))
           g == [n \in S |-> <<n.verse.c, n.verse.v>>]
<1>1. IsFiniteSet(Places) /\ Cardinality(Places) \in Nat
  <2>1. IsFiniteSet(Verses)
    BY CallsAssumption
  <2>2. IsFiniteSet(Places)
    <3> DEFINE f == [x \in Verses |-> <<x.c, x.v>>]
    <3>1. f \in [Verses -> Places] /\ \A y \in Places : \E x \in Verses : f[x] = y
      BY DEF Places
    <3> HIDE DEF f
    <3>2. f \in Surjection(Verses, Places)
      BY <3>1, Fun_IsSurj
    <3> QED
      BY <2>1, <3>2, FS_Surjection
  <2> QED
    BY <2>2, FS_CardinalityType
<1>2. g \in [S -> Places]
  BY DEF Node, OfPart, Places
<1>3. ASSUME NEW n \in S, NEW m \in S, g[n] = g[m] PROVE n = m
  <2>1. /\ n = [kind |-> kind, verse |-> n.verse] /\ m = [kind |-> kind, verse |-> m.verse]
        /\ n.verse \in OfPart(part) /\ m.verse \in OfPart(part)
    BY DEF Node
  <2>2. /\ n.verse = VerseId(n.verse.c, n.verse.v, part)
        /\ m.verse = VerseId(m.verse.c, m.verse.v, part)
    BY <2>1, CallsAssumption DEF OfPart
  <2>3. n.verse.c = m.verse.c /\ n.verse.v = m.verse.v
    BY <1>3
  <2> QED
    BY <2>1, <2>2, <2>3
<1> HIDE DEF g, S
<1>4. g \in Injection(S, Places)
  BY <1>2, <1>3, Fun_IsInj
<1>5. IsFiniteSet(S) /\ Cardinality(S) =< Cardinality(Places)
  BY <1>1, <1>4, FS_Injection
<1> QED
  BY <1>1, <1>5, FS_CardinalityType DEF S

(* There are finitely many nodes: no more than the bound of ReachedIn. *)
LEMMA NodesAreFew ==
    ASSUME NEW part
    PROVE  /\ IsFiniteSet(Nodes(part)) /\ Cardinality(Places) \in Nat
           /\ Cardinality(Nodes(part)) \in Nat
           /\ Cardinality(Nodes(part)) =< 3 * Cardinality(Places)
<1> DEFINE K(kind) == Node(kind, OfPart(part))
<1>1. Nodes(part) = K("source") \cup (K("pivot") \cup K("target"))
  <2>1. ASSUME NEW n \in Nodes(part)
        PROVE  n \in K("source") \cup (K("pivot") \cup K("target"))
    <3>1. n = [kind |-> n.kind, verse |-> n.verse] /\ n.verse \in OfPart(part)
          /\ n.kind \in {"source", "pivot", "target"}
      BY DEF Nodes
    <3>2. n \in K(n.kind)
      BY <3>1 DEF Node
    <3> QED
      BY <3>1, <3>2
  <2>2. \A kind \in {"source", "pivot", "target"} : K(kind) \subseteq Nodes(part)
    BY DEF Nodes, Node
  <2> QED
    BY <2>1, <2>2
<1>2. \A kind : /\ IsFiniteSet(K(kind)) /\ Cardinality(K(kind)) \in Nat
                /\ Cardinality(Places) \in Nat
                /\ Cardinality(K(kind)) =< Cardinality(Places)
  BY KindIsSmall
<1> HIDE DEF K
<1>3. ASSUME NEW A, NEW B, IsFiniteSet(A), IsFiniteSet(B)
      PROVE  /\ IsFiniteSet(A \cup B) /\ Cardinality(A \cup B) \in Nat
             /\ Cardinality(A \cup B) =< Cardinality(A) + Cardinality(B)
  <2>1. IsFiniteSet(A \cap B)
    BY <1>3, FS_Subset
  <2>2. IsFiniteSet(A \cup B)
        /\ Cardinality(A \cup B) = Cardinality(A) + Cardinality(B) - Cardinality(A \cap B)
    BY <1>3, FS_Union
  <2>3. Cardinality(A) \in Nat /\ Cardinality(B) \in Nat /\ Cardinality(A \cap B) \in Nat
    BY <1>3, <2>1, FS_CardinalityType
  <2>4. Cardinality(A \cup B) \in Nat
    BY <2>2, FS_CardinalityType
  <2> QED
    BY <2>2, <2>3, <2>4
<1>4. /\ IsFiniteSet(K("pivot") \cup K("target"))
      /\ Cardinality(K("pivot") \cup K("target")) \in Nat
      /\ Cardinality(K("pivot") \cup K("target")) =< 2 * Cardinality(Places)
  BY <1>2, <1>3
<1>5. /\ IsFiniteSet(Nodes(part)) /\ Cardinality(Nodes(part)) \in Nat
      /\ Cardinality(Nodes(part))
            =< Cardinality(K("source")) + Cardinality(K("pivot") \cup K("target"))
  BY <1>1, <1>2, <1>3, <1>4
<1> QED
  BY <1>2, <1>4, <1>5

(* One more hop of a breadth-first search. *)
Spread(S) == S \cup UNION {Neighbours(x) : x \in S}

(* It is what ReachedIn does in one hop. *)
LEMMA SpreadsAsReached ==
    ASSUME NEW part, NEW S, S \subseteq Nodes(part)
    PROVE  Spread(S) = S \cup UNION {
                CASE x.kind = "source" ->
                        Node("pivot", up_set(x.verse, query.srcHops))
                  [] x.kind = "pivot" ->
                        Node("source", src_of_pivot(x.verse, query.srcHops))
                        \cup Node("target", down_set(x.verse, query.tgtHops))
                  [] x.kind = "target" ->
                        Node("pivot", piv_of_target(x.verse, query.tgtHops)) :
                x \in S}
<1> DEFINE By(x) == CASE x.kind = "source" ->
                        Node("pivot", up_set(x.verse, query.srcHops))
                  [] x.kind = "pivot" ->
                        Node("source", src_of_pivot(x.verse, query.srcHops))
                        \cup Node("target", down_set(x.verse, query.tgtHops))
                  [] x.kind = "target" ->
                        Node("pivot", piv_of_target(x.verse, query.tgtHops))
<1>1. ASSUME NEW x \in S PROVE By(x) = Neighbours(x)
  <2>1. x.kind \in {"source", "pivot", "target"}
    BY DEF Nodes
  <2>2. CASE x.kind = "source"
    BY <2>2 DEF Neighbours
  <2>3. CASE x.kind = "pivot"
    BY <2>3 DEF Neighbours
  <2>4. CASE x.kind = "target"
    BY <2>4 DEF Neighbours
  <2> QED
    BY <2>1, <2>2, <2>3, <2>4
<1>2. {By(x) : x \in S} = {Neighbours(x) : x \in S}
  <2> HIDE DEF By
  <2> QED
    BY <1>1
<1> QED
  BY <1>2 DEF Spread

(* The search ReachedIn states, by the number of its hops. *)
MoreOf(S) ==
    S \cup UNION {
        CASE x.kind = "source" ->
                Node("pivot", up_set(x.verse, query.srcHops))
          [] x.kind = "pivot" ->
                Node("source", src_of_pivot(x.verse, query.srcHops))
                \cup Node("target", down_set(x.verse, query.tgtHops))
          [] x.kind = "target" ->
                Node("pivot", piv_of_target(x.verse, query.tgtHops)) :
        x \in S}

(* The search itself: a set of nodes for every number of hops. *)
SearchOf(n) ==
    CHOOSE reach : reach =
        [k \in 0 .. n |-> IF k = 0 THEN Node("source", query.members)
                          ELSE MoreOf(reach[k - 1])]

(* Each stage follows from the one before. *)
IsSearch(reach, n) ==
    /\ reach[0] = Node("source", query.members)
    /\ \A k \in 1 .. n : reach[k] = Spread(reach[k - 1])
    /\ \A k \in 0 .. n : reach[k] \subseteq Nodes(PartOf(query))

(* A hop of the search stays within the nodes of the part. *)
LEMMA SpreadInside ==
    ASSUME CallOK(query), NEW part, NEW S, S \subseteq Nodes(part)
    PROVE  Spread(S) \subseteq Nodes(part) /\ MoreOf(S) = Spread(S)
<1>1. \A n \in S : Neighbours(n) \subseteq Nodes(part)
  BY NeighboursInside
<1>2. Spread(S) \subseteq Nodes(part)
  BY <1>1 DEF Spread
<1>3. MoreOf(S) = Spread(S)
  BY SpreadsAsReached DEF MoreOf
<1> QED
  BY <1>2, <1>3

(* There is such a search, and ReachedIn states its last stage. *)
LEMMA SearchUnfolds ==
    ASSUME CallOK(query), NEW n \in Nat
    PROVE  \E reach : IsSearch(reach, n) /\ ReachedIn(n) = reach[n]
<1> DEFINE P == SUBSET Nodes(PartOf(query))
           start == Node("source", query.members)
           step == [k \in 1 .. n |-> [S \in P |-> Spread(S)]]
           reach == SearchOf(n)
<1>1. start \in P
  <2>1. query.members \subseteq OfPart(PartOf(query))
    BY MembersOfPart
  <2> QED
    BY <2>1 DEF Node, Nodes
<1>2. \A S \in P : Spread(S) \in P /\ MoreOf(S) = Spread(S)
  BY SpreadInside
<1> HIDE DEF P, start
<1>3. step \in Steps(n, P)
  BY <1>2 DEF Steps
<1>4. Recursions(n, P, start, step) # {}
  <2> HIDE DEF step
  <2> QED
    BY <1>1, <1>3, RecursionDefines
<1>5. PICK f \in Recursions(n, P, start, step) : TRUE
  BY <1>4
<1>6. f = [k \in 0 .. n |-> IF k = 0 THEN start ELSE MoreOf(f[k - 1])]
  <2>1. /\ f \in [0 .. n -> P] /\ f[0] = start
        /\ \A k \in 1 .. n : f[k] = step[k][f[k - 1]]
    <3> HIDE DEF step
    <3> QED
      BY <1>5 DEF Recursions
  <2>2. ASSUME NEW k \in 1 .. n PROVE f[k] = MoreOf(f[k - 1])
    <3>1. f[k - 1] \in P
      BY <2>1
    <3> QED
      BY <1>2, <2>1, <3>1
  <2> HIDE DEF step
  <2> QED
    BY <2>1, <2>2
<1>7. reach = [k \in 0 .. n |-> IF k = 0 THEN start ELSE MoreOf(reach[k - 1])]
  BY <1>6 DEF SearchOf, start
<1>8. ReachedIn(n) = reach[n]
  BY DEF ReachedIn, SearchOf, MoreOf
<1> HIDE DEF reach
<1>9. reach[0] = start /\ \A k \in 1 .. n : reach[k] = MoreOf(reach[k - 1])
  BY <1>7
<1>10. \A k \in 0 .. n : reach[k] \in P
  <2> DEFINE good == {k \in 0 .. n : reach[k] \in P}
  <2>1. 0 \in good
    BY <1>1, <1>9
  <2>2. ASSUME NEW k \in 1 .. n, k - 1 \in good PROVE k \in good
    BY <1>2, <1>9, <2>2
  <2>3. 0 .. n \subseteq good
    <3> HIDE DEF good
    <3> QED
      BY <2>1, <2>2, StaysUpTo
  <2> QED
    BY <2>3
<1>11. \A k \in 1 .. n : reach[k] = Spread(reach[k - 1])
  <2>1. \A k \in 1 .. n : k - 1 \in 0 .. n
    OBVIOUS
  <2> QED
    BY <1>2, <1>9, <1>10, <2>1
<1>12. IsSearch(reach, n)
  BY <1>9, <1>10, <1>11 DEF IsSearch, P, start
<1> QED
  BY <1>8, <1>12

(* Each hop adds a node or there is nothing left to add, and there are only  *)
(* so many nodes.                                                            *)
LEMMA SearchCloses ==
    ASSUME CallOK(query), NEW n \in Nat, NEW reach, IsSearch(reach, n),
           IsFiniteSet(Nodes(PartOf(query))),
           Cardinality(Nodes(PartOf(query))) <= n
    PROVE  Spread(reach[n]) = reach[n]
<1> DEFINE C(k) == Cardinality(reach[k])
           good == {k \in 0 .. n : Spread(reach[k]) = reach[k] \/ C(k) >= k}
<1>1. \A k \in 0 .. n : reach[k] \subseteq Nodes(PartOf(query))
  BY DEF IsSearch
<1>2. \A k \in 0 .. n : IsFiniteSet(reach[k]) /\ C(k) \in Nat
  BY <1>1, FS_Subset, FS_CardinalityType
<1>3. \A k \in 1 .. n : reach[k] = Spread(reach[k - 1])
  BY DEF IsSearch
<1>4. \A S : S \subseteq Spread(S)
  BY DEF Spread
<1>5. 0 \in good
  BY <1>2
<1>6. ASSUME NEW k \in 1 .. n, k - 1 \in good PROVE k \in good
  <2>1. CASE Spread(reach[k - 1]) = reach[k - 1]
    <3>1. reach[k] = reach[k - 1]
      BY <1>3, <2>1
    <3> QED
      BY <2>1, <3>1
  <2>2. CASE Spread(reach[k - 1]) # reach[k - 1]
    <3>1. reach[k - 1] \subseteq reach[k] /\ reach[k - 1] # reach[k]
      BY <1>3, <1>4, <2>2
    <3>2. k \in 0 .. n /\ k - 1 \in 0 .. n
      OBVIOUS
    <3>3. IsFiniteSet(reach[k]) /\ C(k) \in Nat /\ C(k - 1) \in Nat
      BY <1>2, <3>2
    <3>4. C(k - 1) < C(k)
      <4>1. Cardinality(reach[k - 1]) < Cardinality(reach[k])
        BY <3>1, <3>3, FS_Subset
      <4> QED
        BY <4>1
    <3>5. C(k - 1) >= k - 1
      BY <1>6, <2>2
    <3> HIDE DEF C
    <3> QED
      BY <3>2, <3>3, <3>4, <3>5
  <2> QED
    BY <2>1, <2>2
<1>7. n \in good
  <2>1. 0 .. n \subseteq good
    <3> HIDE DEF good
    <3> QED
      BY <1>5, <1>6, StaysUpTo
  <2> QED
    BY <2>1
<1>8. CASE Spread(reach[n]) # reach[n]
  <2>1. C(n) >= n /\ reach[n] \subseteq Nodes(PartOf(query)) /\ C(n) \in Nat
    BY <1>1, <1>2, <1>7, <1>8
  <2>2. Cardinality(reach[n]) <= Cardinality(Nodes(PartOf(query)))
    BY <2>1, FS_Subset
  <2>3. Cardinality(Nodes(PartOf(query))) \in Nat
    BY FS_CardinalityType
  <2>4. reach[n] = Nodes(PartOf(query))
    <3>1. Cardinality(reach[n]) = Cardinality(Nodes(PartOf(query)))
      BY <2>1, <2>2, <2>3
    <3> QED
      BY <2>1, <3>1, FS_Subset
  <2>5. Spread(reach[n]) \subseteq Nodes(PartOf(query))
    BY <2>1, SpreadInside
  <2> QED
    BY <1>4, <1>8, <2>4, <2>5
<1> QED
  BY <1>8

(* The bound HullIsComponent searches to. *)
Bound == 3 * Cardinality(Places)

(* What the search reaches within its bound contains the query and is closed. *)
LEMMA ReachIsComponent ==
    ASSUME CallOK(query)
    PROVE  Component(ReachedIn(Bound))
<1>1. /\ IsFiniteSet(Nodes(PartOf(query))) /\ Bound \in Nat
      /\ Cardinality(Nodes(PartOf(query))) <= Bound
  BY NodesAreFew DEF Bound
<1> HIDE DEF Bound
<1>2. PICK reach : IsSearch(reach, Bound) /\ ReachedIn(Bound) = reach[Bound]
  BY <1>1, SearchUnfolds
<1>3. Spread(reach[Bound]) = reach[Bound]
  BY <1>1, <1>2, SearchCloses
<1>4. \A n \in reach[Bound] : Neighbours(n) \subseteq reach[Bound]
  BY <1>3 DEF Spread
<1>5. Node("source", query.members) \subseteq reach[Bound]
  <2> DEFINE good == {k \in 0 .. Bound :
                        Node("source", query.members) \subseteq reach[k]}
  <2>1. 0 \in good
    BY <1>1, <1>2 DEF IsSearch
  <2>2. ASSUME NEW k \in 1 .. Bound, k - 1 \in good PROVE k \in good
    <3>1. reach[k] = Spread(reach[k - 1])
      BY <1>2 DEF IsSearch
    <3> QED
      BY <2>2, <3>1 DEF Spread
  <2>3. 0 .. Bound \subseteq good
    <3> HIDE DEF good
    <3> QED
      BY <1>1, <2>1, <2>2, StaysUpTo
  <2> QED
    BY <1>1, <2>3
<1> QED
  BY <1>2, <1>4, <1>5 DEF Component

(* Everything the search reaches is collected once nothing is owed. *)
LEMMA ReachIsCollected ==
    ASSUME CallOK(query), HullInv, LoopOver
    PROVE  ReachedIn(Bound) \subseteq seen
<1>1. Bound \in Nat
  BY NodesAreFew DEF Bound
<1>2. /\ Node("source", query.members) \subseteq seen
      /\ \A n \in seen : Neighbours(n) \subseteq seen
  BY DEF HullInv, LoopOver
<1> HIDE DEF Bound
<1>3. PICK reach : IsSearch(reach, Bound) /\ ReachedIn(Bound) = reach[Bound]
  BY <1>1, SearchUnfolds
<1> DEFINE good == {k \in 0 .. Bound : reach[k] \subseteq seen}
<1>4. 0 \in good
  BY <1>1, <1>2, <1>3 DEF IsSearch
<1>5. ASSUME NEW k \in 1 .. Bound, k - 1 \in good PROVE k \in good
  <2>1. reach[k] = Spread(reach[k - 1])
    BY <1>3 DEF IsSearch
  <2> QED
    BY <1>2, <1>5, <2>1 DEF Spread
<1>6. 0 .. Bound \subseteq good
  <2> HIDE DEF good
  <2> QED
    BY <1>1, <1>4, <1>5, StaysUpTo
<1> QED
  BY <1>1, <1>3, <1>6

(* What build_hull collects stays within what the search reaches. *)
WithinReach == pc = "hull" => seen \cup worklist \subseteq ReachedIn(Bound)

(* The search depends on the call only. *)
LEMMA ReachIsFixed ==
    ASSUME query' = query
    PROVE  ReachedIn(Bound)' = ReachedIn(Bound) /\ Bound' = Bound
  BY DEF ReachedIn, Bound, Places, Node

(* The reach is a component, and the loop never leaves one. *)
LEMMA WithinReachIsInductive ==
    ASSUME WithinReach, ResolverInv, [Next]_vars
    PROVE  WithinReach'
<1> SUFFICES ASSUME pc' = "hull" PROVE (seen \cup worklist)' \subseteq ReachedIn(Bound)'
  BY DEF WithinReach
<1>1. query' = query
  BY QueryIsFixed
<1>2. Component(ReachedIn(Bound))
  BY ReachIsComponent DEF ResolverInv, Whence
<1>3. PICK C : C = ReachedIn(Bound)
  OBVIOUS
<1>4. ReachedIn(Bound)' = C
  BY <1>1, <1>3, ReachIsFixed
<1>5. Component(C) /\ Within(C)
  BY <1>2, <1>3 DEF WithinReach, Within
<1>6. Component(C)'
  <2>1. Node("source", query.members)' = Node("source", query.members)
    BY <1>1 DEF Node
  <2> QED
    BY <1>1, <1>5, <2>1, NeighboursAreFixed DEF Component
<1>7. Within(C)'
  BY <1>5, WithinIsInductive
<1> QED
  BY <1>4, <1>6, <1>7 DEF Within

(* When the loop of build_hull ends, it holds exactly what a breadth-first   *)
(* search from the query reaches, whatever order it popped its nodes in.     *)
THEOREM HullIsTheComponent == Spec => []HullIsComponent
<1>1. Init => ResolverInv /\ HullInv /\ WithinReach
  <2>1. Init => WithinReach
    BY DEF Init, WithinReach
  <2> QED
    BY <2>1, InitResolverInv
<1>2. ResolverInv /\ HullInv /\ WithinReach /\ [Next]_vars
        => ResolverInv' /\ HullInv' /\ WithinReach'
  BY ResolverInvIsInductive, HullInvIsInductive, WithinReachIsInductive
<1>3. ResolverInv /\ HullInv /\ WithinReach => HullIsComponent
  <2> SUFFICES ASSUME ResolverInv, HullInv, WithinReach, LoopOver
               PROVE  seen = ReachedIn(Bound)
    BY DEF HullIsComponent, Bound, Places
  <2>1. CallOK(query)
    BY DEF ResolverInv, Whence
  <2>2. ReachedIn(Bound) \subseteq seen
    BY <2>1, ReachIsCollected
  <2>3. seen \subseteq ReachedIn(Bound)
    BY DEF WithinReach, LoopOver
  <2> QED
    BY <2>2, <2>3
<1> QED
  BY <1>1, <1>2, <1>3, PTL DEF Spec

-----------------------------------------------------------------------------
(* A table is a sequence of rows, none of which is None. *)
LEMMA PlacesOfTables ==
    ASSUME NEW rows \in Tables
    PROVE  /\ Len(rows) \in Nat /\ DOMAIN rows = 1 .. Len(rows)
           /\ \A i \in DOMAIN rows : rows[i] # None
<1>1. PICK S : rows \in Seq(S)
  BY PortAssumption
<1>2. \A i \in DOMAIN rows : rows[i] # None
  BY PortAssumption DEF ToSet
<1> QED
  BY <1>1, <1>2

(* A row found is a row of the table, so that None says that none was.       *)
LEMMA FoundIsStored ==
    ASSUME NEW rows \in Tables, NEW places, places \subseteq DOMAIN rows
    PROVE  /\ places # {} => /\ Min(places) \in places
                             /\ FirstAt(rows, places) = rows[Min(places)]
           /\ FirstAt(rows, places) = None <=> places = {}
<1>1. /\ Len(rows) \in Nat /\ DOMAIN rows = 1 .. Len(rows)
      /\ \A i \in DOMAIN rows : rows[i] # None
  BY PlacesOfTables
<1> QED
  BY <1>1, LeastIsOne DEF FirstAt

(* The row of some coordinates is the same whether the database is asked for *)
(* it or the table of the builder: the coordinates are unique.               *)
LEMMA ExactAgrees ==
    ASSUME NEW rows \in Tables, NEW x
    PROVE  LET exact == _load_span_tables(rows).exact
           IN  /\ x \in DOMAIN exact <=> _exact_span(rows, x) # None
               /\ x \in DOMAIN exact => exact[x] = _exact_span(rows, x)
<1> DEFINE Of(i) == VerseId(rows[i].c, rows[i].v, rows[i].part)
           At == {i \in DOMAIN rows : Of(i) = x}
           exact == _load_span_tables(rows).exact
<1>1. DOMAIN exact = Coordinates(ToSet(rows))
  BY DEF _load_span_tables
<1>2. x \in DOMAIN exact <=> At # {}
  BY <1>1 DEF Coordinates, ToSet
<1>3. _exact_span(rows, x) = FirstAt(rows, At)
  BY DEF _exact_span
<1>4. x \in DOMAIN exact <=> _exact_span(rows, x) # None
  BY <1>2, <1>3, FoundIsStored
<1>5. ASSUME x \in DOMAIN exact PROVE exact[x] = _exact_span(rows, x)
  <2>1. exact[x] = rows[Max(At)]
    BY <1>1, <1>5 DEF _load_span_tables
  <2>2. PICK i \in DOMAIN rows : At = {i}
    <3>1. PICK i \in At : TRUE
      BY <1>2, <1>5
    <3>2. \A j \in At : j = i
      BY <3>1, PortAssumption DEF UniqueCoords, VerseId
    <3> QED
      BY <3>1, <3>2
  <2>3. i \in Nat
    BY PlacesOfTables
  <2>4. Max(At) = i
    BY <2>2, <2>3 DEF Max
  <2>5. _exact_span(rows, x) = rows[i]
    BY <1>3, <2>2, FoundIsStored
  <2> QED
    BY <2>1, <2>4, <2>5
<1> QED
  BY <1>4, <1>5

(* The first milestone that covers a verse is the same in the chapter's table *)
(* of milestones as among all rows.                                          *)
LEMMA CoveringAgrees ==
    ASSUME NEW rows \in Tables, NEW x
    PROVE  LET covering == _load_span_tables(rows).covering
           IN  _covering_span(rows, x) =
                    IF x.c \in DOMAIN covering
                    THEN _preloaded_covering(covering[x.c], x) ELSE None
<1> DEFINE covering == _load_span_tables(rows).covering
           Stones == {i \in DOMAIN rows : rows[i].c = x.c /\ rows[i].range # None}
           Here == {i \in DOMAIN rows : rows[i].c = x.c /\ covers(rows[i].range, x)}
           table == Restrict(rows, Stones)
<1>1. _covering_span(rows, x) = FirstAt(rows, Here)
  BY DEF _covering_span
<1>2. DOMAIN covering = {r.c : r \in ToSet(rows)}
  BY DEF _load_span_tables
<1>3. CASE x.c \notin DOMAIN covering
  <2>1. Here = {}
    BY <1>2, <1>3 DEF ToSet
  <2> QED
    BY <1>1, <1>3, <2>1 DEF FirstAt
<1>4. CASE x.c \in DOMAIN covering
  <2>1. covering[x.c] = table
    BY <1>2, <1>4 DEF _load_span_tables
  <2>2. DOMAIN table = Stones /\ \A i \in Stones : table[i] = rows[i]
    BY DEF Restrict
  <2>3. {i \in DOMAIN table : covers(table[i].range, x)} = Here
    BY <2>2 DEF covers
  <2>4. _preloaded_covering(covering[x.c], x) = FirstAt(table, Here)
    BY <2>1, <2>3 DEF _preloaded_covering
  <2>5. CASE Here = {}
    BY <1>1, <1>4, <2>4, <2>5 DEF FirstAt
  <2>6. CASE Here # {}
    <3>1. Min(Here) \in Here
      BY <2>6, FoundIsStored
    <3>2. Min(Here) \in Stones
      BY <3>1 DEF covers
    <3>3. FirstAt(table, Here) = rows[Min(Here)]
      BY <2>2, <2>6, <3>2 DEF FirstAt
    <3>4. FirstAt(rows, Here) = rows[Min(Here)]
      BY <2>6 DEF FirstAt
    <3> QED
      BY <1>1, <1>4, <2>4, <3>3, <3>4
  <2> QED
    BY <2>5, <2>6
<1> QED
  BY <1>3, <1>4

(* Both lookups find the same row, for every stored text and every verse and *)
(* part, stored or not.                                                      *)
LEMMA LookupsAgree ==
    ASSUME NEW rows \in Tables, NEW x
    PROVE  find_stored_span(rows, x)
                = _lookup_preloaded(_load_span_tables(rows), x)
<1> DEFINE exact == _load_span_tables(rows).exact
           covering == _load_span_tables(rows).covering
<1>1. /\ x \in DOMAIN exact <=> _exact_span(rows, x) # None
      /\ x \in DOMAIN exact => exact[x] = _exact_span(rows, x)
  BY ExactAgrees
<1>2. /\ Whole(x) \in DOMAIN exact <=> _exact_span(rows, Whole(x)) # None
      /\ Whole(x) \in DOMAIN exact =>
            exact[Whole(x)] = _exact_span(rows, Whole(x))
  BY ExactAgrees
<1>3. _covering_span(rows, x) =
            IF x.c \in DOMAIN covering
            THEN _preloaded_covering(covering[x.c], x) ELSE None
  BY CoveringAgrees
<1> HIDE DEF exact, covering
<1>4. _lookup_preloaded(_load_span_tables(rows), x) =
            IF x \in DOMAIN exact THEN exact[x]
            ELSE IF Whole(x) \in DOMAIN exact THEN exact[Whole(x)]
            ELSE IF x.c \in DOMAIN covering
            THEN _preloaded_covering(covering[x.c], x) ELSE None
  BY DEF _lookup_preloaded, exact, covering
<1>5. CASE x \in DOMAIN exact
  BY <1>1, <1>4, <1>5 DEF find_stored_span
<1>6. CASE x \notin DOMAIN exact /\ Whole(x) \in DOMAIN exact
  BY <1>1, <1>2, <1>4, <1>6 DEF find_stored_span
<1>7. CASE x \notin DOMAIN exact /\ Whole(x) \notin DOMAIN exact
  BY <1>1, <1>2, <1>3, <1>4, <1>7 DEF find_stored_span
<1> QED
  BY <1>5, <1>6, <1>7

-----------------------------------------------------------------------------
(* The index builder's lookup and the live one find the same row for every   *)
(* verse and part, in every reachable state: what an index holds and what is *)
(* resolved live cannot differ in their spans.                               *)
THEOREM LookupsAlwaysAgree == PortSpec => []FindersAgree
<1> DEFINE Stored == source_rows \in Tables
<1>1. PortInit => Stored
  BY DEF PortInit
<1>2. Stored /\ [PortNext]_<<vars, portVars>> => Stored'
  BY DEF PortNext, PathFails, Ask, Resolve, Respond, EditChains, portVars
<1>3. Stored => FindersAgree
  BY LookupsAgree DEF FindersAgree
<1> QED
  BY <1>1, <1>2, <1>3, PTL DEF PortSpec

(* Every reference a request asks of the resolver gets the complete hull,    *)
(* whatever was asked before it and whatever other requests commit between:  *)
(* a call leaves nothing of its loop to the next one.                        *)
THEOREM HullIsClosedInRequests == PortSpec => []HullClosed
<1>1. PortInit => HullInv
  BY DEF PortInit, HullInv
<1>2. HullInv /\ [PortNext]_<<vars, portVars>> => HullInv'
  <2> SUFFICES ASSUME HullInv, [PortNext]_<<vars, portVars>> PROVE HullInv'
    OBVIOUS
  <2>1. CASE [Next]_vars
    BY <2>1, HullInvIsInductive
  <2>2. CASE Ask \/ Respond
    BY <2>2 DEF Ask, Respond, HullInv
  <2> QED
    BY <2>1, <2>2 DEF PortNext, PathFails, Resolve, EditChains
<1>3. HullInv => HullClosed
  BY NothingOwedIsClosed
<1> QED
  BY <1>1, <1>2, <1>3, PTL DEF PortSpec

-----------------------------------------------------------------------------
(* The references. *)

(* A stored whole verse as a chapter asks for it. *)
WholeAsk(row) == [ref |-> RefRange(row.c, row.v, row.v), part |-> None]

(* What may be asked: references to verses and parts of the numberings. *)
References ==
    {ask \in [ref : [c : {x.c : x \in Verses}, lo : Nat, hi : Nat],
              part : {x.part : x \in Verses}] : AskOK(ask)}

(* What a request may ask for is one of them. *)
LEMMA AskIsReference ==
    ASSUME NEW ask, AskOK(ask)
    PROVE  ask \in References
<1>1. PICK x \in Verses : x.part = ask.part
  BY DEF AskOK
<1>2. /\ ask.ref.lo \in Nat /\ ask.ref.hi \in Nat /\ ask.ref.lo <= ask.ref.hi
      /\ expand(ask.ref, x.part) \subseteq Verses
  BY DEF AskOK, RangeOK
<1>3. VerseId(ask.ref.c, ask.ref.lo, x.part) \in Verses
  BY <1>2 DEF expand
<1>4. ask.ref.c \in {y.c : y \in Verses}
  BY <1>3 DEF VerseId
<1>5. /\ ask = [ref |-> RefRange(ask.ref.c, ask.ref.lo, ask.ref.hi), part |-> ask.part]
  BY DEF AskOK
<1> QED
  BY <1>1, <1>2, <1>4, <1>5 DEF References, RefRange

(* A row found is one of the stored ones. *)
LEMMA FindsRow ==
    ASSUME NEW rows \in Tables, NEW x, find_stored_span(rows, x) # None
    PROVE  \E i \in DOMAIN rows : rows[i] = find_stored_span(rows, x)
<1>1. ASSUME NEW places, places \subseteq DOMAIN rows, FirstAt(rows, places) # None
      PROVE  \E i \in DOMAIN rows : rows[i] = FirstAt(rows, places)
  BY <1>1, FoundIsStored
<1>2. ASSUME NEW y, _exact_span(rows, y) # None
      PROVE  \E i \in DOMAIN rows : rows[i] = _exact_span(rows, y)
  BY <1>1, <1>2 DEF _exact_span
<1>3. ASSUME NEW y, _covering_span(rows, y) # None
      PROVE  \E i \in DOMAIN rows : rows[i] = _covering_span(rows, y)
  BY <1>1, <1>3 DEF _covering_span
<1>4. CASE _exact_span(rows, x) # None
  BY <1>2, <1>4 DEF find_stored_span
<1>5. CASE _exact_span(rows, x) = None /\ _exact_span(rows, Whole(x)) # None
  BY <1>2, <1>5 DEF find_stored_span
<1>6. CASE _exact_span(rows, x) = None /\ _exact_span(rows, Whole(x)) = None
  BY <1>3, <1>6 DEF find_stored_span
<1> QED
  BY <1>4, <1>5, <1>6

(* A stored verse is found as the row that stores it. *)
LEMMA FindsItself ==
    ASSUME NEW rows \in Tables, NEW i \in DOMAIN rows
    PROVE  find_stored_span(rows, VerseId(rows[i].c, rows[i].v, rows[i].part)) = rows[i]
<1> DEFINE x == VerseId(rows[i].c, rows[i].v, rows[i].part)
           At == {j \in DOMAIN rows :
                    VerseId(rows[j].c, rows[j].v, rows[j].part) = x}
<1>1. At = {i}
  BY PortAssumption DEF UniqueCoords, VerseId
<1>2. _exact_span(rows, x) = FirstAt(rows, At)
  BY DEF _exact_span
<1>3. FirstAt(rows, At) = rows[i]
  BY <1>1, FoundIsStored
<1>4. rows[i] # None
  BY PlacesOfTables
<1> QED
  BY <1>2, <1>3, <1>4 DEF find_stored_span

(* The references of a chapter: one for each stored whole verse. *)
LEMMA ChapterAsksAll ==
    ASSUME NEW rows \in Tables
    PROVE  /\ _stored_whole_verses(rows) \in Seq(References)
           /\ \A row \in ToSet(rows) :
                row.part = None => WholeAsk(row) \in ToSet(_stored_whole_verses(rows))
<1> DEFINE S == {VerseId(r.c, r.v, None) : r \in {x \in ToSet(rows) : x.part = None}}
           sorted == sort_verses(S)
           Asked(x) == [ref |-> RefRange(x.c, x.v, x.v), part |-> None]
           n == Cardinality(S)
<1>1. S \subseteq OfPart(None)
  <2>1. ASSUME NEW r \in ToSet(rows), r.part = None
        PROVE  VerseId(r.c, r.v, None) \in Verses /\ VerseId(r.c, r.v, None).part = None
    <3>1. StoredOK(r)
      BY PortAssumption
    <3> QED
      BY <2>1, <3>1 DEF StoredOK, VerseId
  <2> QED
    BY <2>1 DEF OfPart
<1>2. /\ n \in Nat /\ sorted \in [1 .. n -> S]
      /\ \A x \in S : \E i \in 1 .. n : sorted[i] = x
  BY <1>1, OfPartAlike, SortVerses
<1>3. _stored_whole_verses(rows) = [i \in 1 .. n |-> Asked(sorted[i])]
  <2>1. DOMAIN sorted = 1 .. n
    BY <1>2
  <2> QED
    BY <2>1 DEF _stored_whole_verses
<1>4. ASSUME NEW x \in S PROVE Asked(x) \in References
  <2>1. x \in Verses /\ x.part = None /\ x.v \in Nat /\ x = VerseId(x.c, x.v, None)
    BY <1>1, CallsAssumption DEF OfPart
  <2>2. RangeOK(RefRange(x.c, x.v, x.v))
    <3> SUFFICES ASSUME NEW y \in Verses
                 PROVE  VerseId(x.c, x.v, y.part) \in Verses
      BY <2>1 DEF RangeOK, RefRange, expand
    <3>1. PICK r \in ToSet(rows) : x = VerseId(r.c, r.v, None)
      BY <1>4
    <3>2. StoredOK(r)
      BY PortAssumption
    <3> QED
      BY <3>1, <3>2 DEF StoredOK, VerseId
  <2>3. AskOK(Asked(x))
    BY <2>1, <2>2 DEF AskOK, RefRange
  <2> QED
    BY <2>3, AskIsReference
<1> HIDE DEF S, sorted, n
<1>5. _stored_whole_verses(rows) \in [1 .. n -> References]
  BY <1>2, <1>3, <1>4
<1>6. ASSUME NEW row \in ToSet(rows), row.part = None
      PROVE  WholeAsk(row) \in ToSet(_stored_whole_verses(rows))
  <2>1. VerseId(row.c, row.v, None) \in S
    BY <1>6 DEF S
  <2>2. PICK i \in 1 .. n : sorted[i] = VerseId(row.c, row.v, None)
    BY <1>2, <2>1
  <2>3. _stored_whole_verses(rows)[i] = WholeAsk(row)
    BY <1>3, <2>2 DEF WholeAsk, VerseId
  <2> QED
    BY <1>2, <1>5, <2>3 DEF ToSet
<1> QED
  BY <1>2, <1>5, <1>6

(* The verses a reference is asked as. *)
MembersOf(rows, ask) == expand(_canonicalize_query_ref(rows, ask), ask.part)

(* What a reference is asked as: verses of one part of the numberings. *)
LEMMA AskedMembersOK ==
    ASSUME NEW rows \in Tables, NEW ask \in References
    PROVE  MembersOK(MembersOf(rows, ask))
<1> DEFINE x == VerseId(ask.ref.c, ask.ref.lo, ask.part)
           row == find_stored_span(rows, x)
<1>1. PICK y \in Verses : y.part = ask.part
  BY DEF References, AskOK
<1>2. /\ ask.ref.lo \in Nat /\ ask.ref.hi \in Nat /\ ask.ref.lo <= ask.ref.hi
      /\ expand(ask.ref, ask.part) \subseteq Verses
  BY <1>1 DEF References, AskOK, RangeOK
<1>3. CASE _canonicalize_query_ref(rows, ask) = ask.ref
  <2>1. VerseId(ask.ref.c, ask.ref.lo, ask.part) \in expand(ask.ref, ask.part)
    BY <1>2 DEF expand
  <2>2. \A z \in expand(ask.ref, ask.part) : z.part = ask.part
    BY DEF expand, VerseId
  <2> QED
    BY <1>2, <1>3, <2>1, <2>2 DEF MembersOf, MembersOK
<1>4. CASE _canonicalize_query_ref(rows, ask) # ask.ref
  <2>1. /\ row # None
        /\ _canonicalize_query_ref(rows, ask) = RefRange(row.c, row.v, row.v)
    <3> HIDE DEF row
    <3> QED
      BY <1>4 DEF _canonicalize_query_ref, row
  <2>2. PICK i \in DOMAIN rows : rows[i] = row
    BY <2>1, FindsRow
  <2>3. StoredOK(row)
    BY <2>2, PortAssumption DEF ToSet
  <2> HIDE DEF row
  <2>4. VerseId(row.c, row.v, ask.part) \in Verses
    BY <1>1, <2>3 DEF StoredOK
  <2>5. row.v \in Nat
    BY <2>4, CallsAssumption DEF VerseId
  <2>6. MembersOf(rows, ask) = {VerseId(row.c, row.v, ask.part)}
    BY <2>1, <2>5 DEF MembersOf, expand, RefRange
  <2> QED
    BY <2>4, <2>6 DEF MembersOK
<1> QED
  BY <1>3, <1>4

(* A stored whole verse is asked as itself. *)
LEMMA WholeIsAskedAsItself ==
    ASSUME NEW rows \in Tables, NEW row \in ToSet(rows), row.part = None
    PROVE  VerseId(row.c, row.v, None) \in MembersOf(rows, WholeAsk(row))
<1> DEFINE x == VerseId(row.c, row.v, None)
           ask == WholeAsk(row)
<1>1. PICK i \in DOMAIN rows : rows[i] = row
  BY DEF ToSet
<1>2. find_stored_span(rows, x) = row
  BY <1>1, FindsItself
<1>3. x \in Verses /\ row.v \in Nat
  <2>1. StoredOK(row)
    BY PortAssumption
  <2> QED
    BY <2>1, CallsAssumption DEF StoredOK, VerseId
<1>4. /\ ask.ref.c = row.c /\ ask.ref.lo = row.v /\ ask.ref.hi = row.v
      /\ ask.part = None
  BY DEF WholeAsk, RefRange
<1>5. _canonicalize_query_ref(rows, ask) = ask.ref
  <2>1. find_stored_span(rows, VerseId(ask.ref.c, ask.ref.lo, ask.part)) = row
    BY <1>2, <1>4
  <2> HIDE DEF ask
  <2> QED
    BY <1>4, <2>1 DEF _canonicalize_query_ref
<1>6. x \in expand(ask.ref, None)
  BY <1>3, <1>4 DEF expand
<1> QED
  BY <1>4, <1>5, <1>6 DEF MembersOf

-----------------------------------------------------------------------------
(* The response. *)

(* The spans taken so far, as _dedupe_enriched builds them. *)
DedupeOf(spans) ==
    CHOOSE out : out = [k \in 0 .. Len(spans) |->
        IF k = 0 THEN <<>>
        ELSE IF spans[k] \in ToSet(out[k - 1]) THEN out[k - 1]
        ELSE Append(out[k - 1], spans[k])]

(* Taking spans together loses none. *)
LEMMA DedupeKeeps ==
    ASSUME NEW S, NEW spans \in Seq(S)
    PROVE  /\ _dedupe_enriched(spans) \in Seq(S)
           /\ ToSet(_dedupe_enriched(spans)) = ToSet(spans)
<1> DEFINE n == Len(spans)
           Next1(out, k) == IF spans[k] \in ToSet(out) THEN out
                            ELSE Append(out, spans[k])
           step == [k \in 1 .. n |-> [out \in Seq(S) |-> Next1(out, k)]]
           out == DedupeOf(spans)
<1>1. n \in Nat /\ \A k \in 1 .. n : spans[k] \in S
  OBVIOUS
<1>2. ASSUME NEW k \in 1 .. n, NEW s \in Seq(S)
      PROVE  Next1(s, k) \in Seq(S) /\ ToSet(Next1(s, k)) = ToSet(s) \cup {spans[k]}
  <2>1. CASE spans[k] \in ToSet(s)
    BY <2>1
  <2>2. CASE spans[k] \notin ToSet(s)
    <3>1. Next1(s, k) = Append(s, spans[k]) /\ spans[k] \in S
      BY <1>1, <2>2
    <3>2. /\ Append(s, spans[k]) \in Seq(S)
          /\ Len(Append(s, spans[k])) = Len(s) + 1
          /\ \A i \in 1 .. Len(s) : Append(s, spans[k])[i] = s[i]
          /\ Append(s, spans[k])[Len(s) + 1] = spans[k]
      BY <3>1
    <3>3. ToSet(Append(s, spans[k])) = ToSet(s) \cup {spans[k]}
      <4>1. DOMAIN Append(s, spans[k]) = 1 .. Len(s) + 1 /\ DOMAIN s = 1 .. Len(s)
            /\ Len(s) \in Nat
        BY <3>2
      <4> DEFINE a == Append(s, spans[k])
      <4>2. ASSUME NEW y \in ToSet(a) PROVE y \in ToSet(s) \cup {spans[k]}
        <5>1. PICK i \in 1 .. Len(s) + 1 : y = a[i]
          BY <4>1, <4>2 DEF ToSet
        <5>2. i \in 1 .. Len(s) \/ i = Len(s) + 1
          BY <4>1
        <5> QED
          BY <3>2, <4>1, <5>1, <5>2 DEF ToSet
      <4>3. ASSUME NEW y \in ToSet(s) PROVE y \in ToSet(a)
        <5>1. PICK i \in 1 .. Len(s) : y = s[i]
          BY <4>1, <4>3 DEF ToSet
        <5>2. i \in 1 .. Len(s) + 1 /\ a[i] = y
          BY <3>2, <4>1, <5>1
        <5> QED
          BY <4>1, <5>2 DEF ToSet
      <4>4. spans[k] \in ToSet(a)
        <5>1. Len(s) + 1 \in 1 .. Len(s) + 1
          BY <4>1
        <5> QED
          BY <3>2, <4>1, <5>1 DEF ToSet
      <4> HIDE DEF a
      <4>5. ToSet(a) = ToSet(s) \cup {spans[k]}
        BY <4>2, <4>3, <4>4
      <4> QED
        BY <4>5 DEF a
    <3> QED
      BY <3>1, <3>2, <3>3
  <2> QED
    BY <2>1, <2>2
<1> HIDE DEF n, Next1
<1>3. step \in Steps(n, Seq(S))
  BY <1>2 DEF Steps
<1>4. <<>> \in Seq(S)
  OBVIOUS
<1>5. Recursions(n, Seq(S), <<>>, step) # {}
  <2> HIDE DEF step
  <2> QED
    BY <1>1, <1>3, <1>4, RecursionDefines
<1>6. PICK f \in Recursions(n, Seq(S), <<>>, step) : TRUE
  BY <1>5
<1>7. f = [k \in 0 .. n |-> IF k = 0 THEN <<>> ELSE Next1(f[k - 1], k)]
  <2>1. /\ f \in [0 .. n -> Seq(S)] /\ f[0] = <<>>
        /\ \A k \in 1 .. n : f[k] = step[k][f[k - 1]]
    <3> HIDE DEF step
    <3> QED
      BY <1>6 DEF Recursions
  <2>2. ASSUME NEW k \in 1 .. n PROVE f[k] = Next1(f[k - 1], k)
    <3>1. f[k - 1] \in Seq(S)
      BY <1>1, <2>1
    <3> QED
      BY <2>1, <3>1
  <2> HIDE DEF step
  <2> QED
    BY <1>1, <2>1, <2>2
<1>8. out = [k \in 0 .. n |-> IF k = 0 THEN <<>> ELSE Next1(out[k - 1], k)]
  BY <1>7 DEF DedupeOf, Next1, n
<1>9. _dedupe_enriched(spans) = out[n]
  BY DEF _dedupe_enriched, DedupeOf, n
<1> HIDE DEF out
<1>10. out[0] = <<>> /\ \A k \in 1 .. n : out[k] = Next1(out[k - 1], k)
  BY <1>1, <1>8
<1> DEFINE good == {k \in 0 .. n : /\ out[k] \in Seq(S)
                                   /\ ToSet(out[k]) = {spans[i] : i \in 1 .. k}}
<1>11. 0 \in good
  <2>1. ToSet(<<>>) = {} /\ 1 .. 0 = {}
    BY DEF ToSet
  <2>2. {spans[i] : i \in 1 .. 0} = {}
    BY <2>1
  <2>3. out[0] \in Seq(S) /\ ToSet(out[0]) = {spans[i] : i \in 1 .. 0}
    BY <1>4, <1>10, <2>1, <2>2
  <2> QED
    BY <1>1, <2>3
<1>12. ASSUME NEW k \in 1 .. n, k - 1 \in good PROVE k \in good
  <2>1. out[k - 1] \in Seq(S) /\ ToSet(out[k - 1]) = {spans[i] : i \in 1 .. k - 1}
    BY <1>12
  <2>2. out[k] \in Seq(S) /\ ToSet(out[k]) = ToSet(out[k - 1]) \cup {spans[k]}
    BY <1>2, <1>10, <2>1
  <2>3. 1 .. k = (1 .. k - 1) \cup {k}
    BY <1>1
  <2>4. {spans[i] : i \in 1 .. k} = {spans[i] : i \in 1 .. k - 1} \cup {spans[k]}
    BY <2>3
  <2>5. k \in 0 .. n
    BY <1>1
  <2> QED
    BY <2>1, <2>2, <2>4, <2>5
<1>13. 0 .. n \subseteq good
  <2> HIDE DEF good
  <2> QED
    BY <1>1, <1>11, <1>12, StaysUpTo
<1>14. out[n] \in Seq(S) /\ ToSet(out[n]) = {spans[i] : i \in 1 .. n}
  <2>1. n \in good
    <3> HIDE DEF good
    <3> QED
      BY <1>1, <1>13
  <2> QED
    BY <2>1
<1>15. ToSet(spans) = {spans[i] : i \in 1 .. n}
  BY DEF ToSet, n
<1> QED
  BY <1>9, <1>14, <1>15

(* What a verse may be as a span of the response. *)
Spans(rows) == {_enrich_span(rows, x) : x \in Verses}

(* A span names a row by its place. *)
LEMMA SpansNameRows ==
    ASSUME NEW rows \in Tables, NEW s \in Spans(rows), s.seq # None
    PROVE  s.seq \in DOMAIN rows
<1>1. PICK x \in Verses : s = _enrich_span(rows, x)
  BY DEF Spans
<1>2. find_stored_span(rows, x) # None
  BY <1>1 DEF _enrich_span
<1>3. s.seq = CHOOSE i \in DOMAIN rows : rows[i] = find_stored_span(rows, x)
  BY <1>1, <1>2 DEF _enrich_span
<1>4. PICK j \in DOMAIN rows : rows[j] = find_stored_span(rows, x)
  BY <1>2, FindsRow
<1> QED
  BY <1>3, <1>4

(* The spans of some verses: one at least for each of them. *)
LEMMA EnrichedKeeps ==
    ASSUME NEW rows, NEW part, NEW verses, verses \subseteq OfPart(part)
    PROVE  LET spans == _dedupe_enriched(Enriched(rows, verses))
           IN  /\ spans \in Seq(Spans(rows))
               /\ ToSet(spans) = {_enrich_span(rows, x) : x \in verses}
<1> DEFINE sorted == sort_verses(verses)
           n == Cardinality(verses)
           e == Enriched(rows, verses)
<1>1. /\ n \in Nat /\ sorted \in [1 .. n -> verses]
      /\ \A x \in verses : \E i \in 1 .. n : sorted[i] = x
  BY OfPartAlike, SortVerses
<1>2. e = [i \in 1 .. n |-> _enrich_span(rows, sorted[i])]
  BY <1>1 DEF Enriched
<1>3. verses \subseteq Verses
  BY DEF OfPart
<1> HIDE DEF sorted, n, e
<1>4. e \in [1 .. n -> Spans(rows)]
  BY <1>1, <1>2, <1>3 DEF Spans
<1>5. e \in Seq(Spans(rows))
  BY <1>1, <1>4
<1>6. ToSet(e) = {_enrich_span(rows, x) : x \in verses}
  BY <1>1, <1>2 DEF ToSet
<1> QED
  BY <1>5, <1>6, DedupeKeeps DEF e

(* Answers whose spans are of one part, and the responses they become. *)
PartDtos == {d \in Dtos : \E x \in Verses :
                            d.sources \cup d.targets \subseteq OfPart(x.part)}
Responses == {_to_result(d) : d \in PartDtos}

(* The spans of a response are those of the answer, each side on its own. *)
LEMMA ResponseKeeps ==
    ASSUME source_rows \in Tables, target_rows \in Tables, NEW d \in PartDtos
    PROVE  LET item == _to_result(d)
           IN  /\ item.relation \in Relations \cup {"complex", "range"}
               /\ item.source_spans \in Seq(Spans(source_rows))
               /\ item.target_spans \in Seq(Spans(target_rows))
               /\ ToSet(item.source_spans)
                    = {_enrich_span(source_rows, x) : x \in d.sources}
               /\ ToSet(item.target_spans)
                    = {_enrich_span(target_rows, x) : x \in d.targets}
<1> DEFINE sources == _dedupe_enriched(Enriched(source_rows, d.sources))
           targets == _dedupe_enriched(Enriched(target_rows, d.targets))
           relation == _relation_after_dedupe(ToSet(sources), ToSet(targets), d.relation)
<1>1. PICK x \in Verses : d.sources \cup d.targets \subseteq OfPart(x.part)
  BY DEF PartDtos
<1>2. /\ sources \in Seq(Spans(source_rows))
      /\ ToSet(sources) = {_enrich_span(source_rows, y) : y \in d.sources}
  BY <1>1, EnrichedKeeps
<1>3. /\ targets \in Seq(Spans(target_rows))
      /\ ToSet(targets) = {_enrich_span(target_rows, y) : y \in d.targets}
  BY <1>1, EnrichedKeeps
<1>4. d.relation \in Relations \cup {"complex", "range"}
  BY DEF PartDtos, Dtos
<1>5. _to_result(d) = [source_spans |-> sources, target_spans |-> targets,
             relation |-> relation, edges |-> EdgesOf(d),
             source_rel |-> d.source_rel, target_rel |-> d.target_rel]
  BY DEF _to_result
<1>6. relation \in Relations \cup {"complex", "range"}
  <2> HIDE DEF sources, targets
  <2> DEFINE s == Cardinality(ToSet(sources))
             t == Cardinality(ToSet(targets))
  <2>1. CASE d.relation = "complex"
    <3>1. relation = "complex"
      BY <2>1 DEF _relation_after_dedupe
    <3> QED
      BY <3>1
  <2>2. CASE d.relation # "complex"
    <3>1. relation \in {"exclude", "one_to_one", "merge", "split", d.relation}
      <4>1. CASE t = 0
        BY <2>2, <4>1 DEF _relation_after_dedupe
      <4>2. CASE t # 0 /\ s = 1 /\ t = 1
        BY <2>2, <4>2 DEF _relation_after_dedupe
      <4>3. CASE t # 0 /\ ~ (s = 1 /\ t = 1) /\ s > 1 /\ t = 1
        BY <2>2, <4>3 DEF _relation_after_dedupe
      <4>4. CASE t # 0 /\ ~ (s = 1 /\ t = 1) /\ ~ (s > 1 /\ t = 1) /\ s = 1 /\ t > 1
        BY <2>2, <4>4 DEF _relation_after_dedupe
      <4>5. CASE t # 0 /\ ~ (s = 1 /\ t = 1) /\ ~ (s > 1 /\ t = 1) /\ ~ (s = 1 /\ t > 1)
        BY <2>2, <4>5 DEF _relation_after_dedupe
      <4> QED
        BY <4>1, <4>2, <4>3, <4>4, <4>5
    <3> QED
      BY <1>4, <3>1 DEF Relations
  <2> QED
    BY <2>1, <2>2
<1> HIDE DEF sources, targets, relation
<1> QED
  BY <1>2, <1>3, <1>5, <1>6

-----------------------------------------------------------------------------
(* The inductive invariant. *)

(* The chapter so far: every stored whole verse is still to be asked, failed, *)
(* or on the source side of a response.                                      *)
ListedIn(row, list) ==
    \E i \in DOMAIN list :
        VerseId(row.c, row.v, None) \in Coordinates(ToSet(list[i].source_spans))

ChapterSoFar ==
    endpoint = "chapter" => \A row \in ToSet(source_rows) : row.part = None =>
        \/ WholeAsk(row) \in failed
        \/ WholeAsk(row) \in ToSet(asked)
        \/ ListedIn(row, items)

StateOK ==
    /\ source_rows \in Tables /\ target_rows \in Tables
    /\ chains \in Chains \cup {None} /\ edits \in 0 .. MaxEdits
    /\ endpoint \in {"single", "chapter"}
    /\ asked \in Seq(References) /\ failed \subseteq References
    /\ items \in Seq(Responses)
    /\ endpoint = "single" => Len(items) + Len(asked) <= 1

(* While the resolver works, it works on the reference next to be answered. *)
CallInv ==
    pc # "idle" =>
        /\ asked # <<>>
        /\ query.members = MembersOf(source_rows, Head(asked))
        /\ ResolverInv /\ HullInv

PortInv == StateOK /\ CallInv /\ ChapterSoFar

(* Taking the next reference to be asked leaves the others. *)
LEMMA AskedIsNonEmpty ==
    ASSUME NEW R, NEW s \in Seq(R), s # <<>>
    PROVE  /\ Head(s) \in R /\ Tail(s) \in Seq(R) /\ Len(Tail(s)) = Len(s) - 1
           /\ Len(s) \in Nat
           /\ \A a \in ToSet(s) : a = Head(s) \/ a \in ToSet(Tail(s))
<1>1. Head(s) \in R /\ Tail(s) \in Seq(R) /\ Len(Tail(s)) = Len(s) - 1
      /\ Len(s) \in Nat /\ Len(s) >= 1
  OBVIOUS
<1>2. ASSUME NEW a \in ToSet(s) PROVE a = Head(s) \/ a \in ToSet(Tail(s))
  <2>1. PICK i \in 1 .. Len(s) : a = s[i]
    BY DEF ToSet
  <2>2. CASE i = 1
    BY <2>1, <2>2
  <2>3. CASE i # 1
    <3>1. i - 1 \in 1 .. Len(Tail(s)) /\ Tail(s)[i - 1] = s[i]
      BY <1>1, <2>1, <2>3
    <3>2. i - 1 \in DOMAIN Tail(s)
      BY <1>1, <3>1
    <3> QED
      BY <2>1, <3>1, <3>2 DEF ToSet
  <2> QED
    BY <2>2, <2>3
<1> QED
  BY <1>1, <1>2

(* A request starts with the references it asks, and with no call. *)
LEMMA InitPortInv == PortInit => PortInv
<1> SUFFICES ASSUME PortInit PROVE PortInv
  OBVIOUS
<1>1. /\ source_rows \in Tables /\ target_rows \in Tables /\ chains \in Chains
      /\ edits = 0 /\ items = <<>> /\ failed = {} /\ pc = "idle"
  BY DEF PortInit
<1>2. MaxEdits \in Nat
  BY PortAssumption
<1>3. items \in Seq(Responses) /\ Len(items) = 0
  BY <1>1
<1>4. CASE endpoint = "single" /\ \E ask \in Asks : asked = <<ask>>
  <2>1. PICK ask \in Asks : asked = <<ask>>
    BY <1>4
  <2>2. ask \in References
    BY AskIsReference, PortAssumption
  <2>3. asked \in Seq(References) /\ Len(asked) = 1
    BY <2>1, <2>2
  <2> QED
    BY <1>1, <1>2, <1>3, <1>4, <2>3 DEF PortInv, StateOK, CallInv, ChapterSoFar
<1>5. CASE endpoint = "chapter" /\ asked = _stored_whole_verses(source_rows)
  <2>1. /\ asked \in Seq(References)
        /\ \A row \in ToSet(source_rows) :
                row.part = None => WholeAsk(row) \in ToSet(asked)
    BY <1>1, <1>5, ChapterAsksAll
  <2> QED
    BY <1>1, <1>2, <1>3, <1>5, <2>1 DEF PortInv, StateOK, CallInv, ChapterSoFar
<1> QED
  BY <1>4, <1>5 DEF PortInit

(* The tables do not change, so that what a response is does not either. *)
LEMMA ResponsesAreFixed ==
    ASSUME source_rows' = source_rows, target_rows' = target_rows
    PROVE  Responses' = Responses
  BY DEF Responses, _to_result, EdgesOf, _dedupe_enriched, Enriched

(* A reference whose path cannot be built is answered as failed. *)
LEMMA PathFailsKeepsInv ==
    ASSUME PortInv, PathFails
    PROVE  PortInv'
<1>1. /\ asked # <<>> /\ asked' = Tail(asked) /\ failed' = failed \cup {Head(asked)}
      /\ pc = "idle" /\ pc' = pc /\ source_rows' = source_rows
      /\ target_rows' = target_rows /\ chains' = chains /\ edits' = edits
      /\ endpoint' = endpoint /\ items' = items
  BY DEF PathFails, Idle, vars
<1>2. asked \in Seq(References)
  BY DEF PortInv, StateOK
<1>3. /\ Head(asked) \in References /\ Tail(asked) \in Seq(References)
      /\ Len(Tail(asked)) = Len(asked) - 1 /\ Len(asked) \in Nat
      /\ \A a \in ToSet(asked) : a = Head(asked) \/ a \in ToSet(Tail(asked))
  BY <1>1, <1>2, AskedIsNonEmpty
<1>4. StateOK'
  <2>1. Responses' = Responses
    BY <1>1, ResponsesAreFixed
  <2>2. References' = References
    BY DEF References
  <2>3. Len(items) \in Nat
    BY DEF PortInv, StateOK
  <2> QED
    BY <1>1, <1>3, <2>1, <2>2, <2>3 DEF PortInv, StateOK
<1>5. ChapterSoFar'
  BY <1>1, <1>3 DEF PortInv, ChapterSoFar, ListedIn, Coordinates
<1>6. CallInv'
  BY <1>1 DEF CallInv
<1> QED
  BY <1>4, <1>5, <1>6 DEF PortInv

(* What a step leaves alone when it neither answers nor drops a reference. *)
LEMMA QuietKeepsState ==
    ASSUME PortInv, UNCHANGED <<source_rows, target_rows, endpoint, asked, items, failed>>,
           chains' \in Chains \cup {None}, edits' \in 0 .. MaxEdits
    PROVE  StateOK' /\ ChapterSoFar'
<1>1. Responses' = Responses
  BY ResponsesAreFixed
<1>2. StateOK'
  BY <1>1 DEF PortInv, StateOK
<1>3. ChapterSoFar'
  BY DEF PortInv, ChapterSoFar, ListedIn, Coordinates
<1> QED
  BY <1>2, <1>3

(* A call starts with the members of the reference asked, whatever chains   *)
(* are read for it.                                                          *)
LEMMA AskKeepsInv ==
    ASSUME PortInv, Ask
    PROVE  PortInv'
<1>1. /\ asked # <<>> /\ chains # None /\ UNCHANGED portVars
      /\ query' = [members |-> MembersOf(source_rows, Head(asked)),
                   srcHops |-> chains.srcHops, tgtHops |-> chains.tgtHops]
      /\ pc' = "assemble" /\ trigger' = None /\ caller' = None
      /\ worklist' = {} /\ seen' = {} /\ result' = None
  BY DEF Ask, MembersOf
<1>2. UNCHANGED <<source_rows, target_rows, chains, edits, endpoint, asked, items, failed>>
  BY <1>1 DEF portVars
<1>3. StateOK' /\ ChapterSoFar'
  BY <1>2, QuietKeepsState DEF PortInv, StateOK
<1>4. CallOK(query')
  <2>1. source_rows \in Tables /\ asked \in Seq(References) /\ chains \in Chains
    BY <1>1 DEF PortInv, StateOK
  <2>2. Head(asked) \in References
    BY <1>1, <2>1
  <2>3. MembersOK(query'.members)
    BY <1>1, <2>1, <2>2, AskedMembersOK
  <2> QED
    BY <1>1, <2>1, <2>3, CallsAssumption DEF CallOK
<1>5. ResolverInv'
  <2>1. Whence'
    BY <1>1, <1>4 DEF Whence
  <2>2. Collected'
    BY <1>1 DEF Collected, TargetsFound
  <2>3. None \notin {"trigger", "atomic"}
    BY CallsAssumption
  <2> QED
    BY <1>1, <2>1, <2>2, <2>3 DEF ResolverInv
<1>6. HullInv'
  BY <1>1 DEF HullInv
<1>7. MembersOf(source_rows, Head(asked))' = MembersOf(source_rows, Head(asked))
  BY <1>2 DEF MembersOf, _canonicalize_query_ref
<1>8. CallInv'
  BY <1>1, <1>2, <1>5, <1>6, <1>7 DEF CallInv
<1> QED
  BY <1>3, <1>8 DEF PortInv

(* The resolver works on the call it was given. *)
LEMMA ResolveKeepsInv ==
    ASSUME PortInv, Resolve
    PROVE  PortInv'
<1>1. Next /\ UNCHANGED <<source_rows, target_rows, chains, edits, endpoint, asked,
                          items, failed>>
  BY DEF Resolve, portVars
<1>2. pc # "idle"
  BY <1>1 DEF Next, Assemble, PopNode, FinishHull
<1>3. StateOK' /\ ChapterSoFar'
  BY <1>1, QuietKeepsState DEF PortInv, StateOK
<1>4. ResolverInv /\ HullInv /\ asked # <<>>
      /\ query.members = MembersOf(source_rows, Head(asked))
  BY <1>2 DEF PortInv, CallInv
<1>5. ResolverInv' /\ HullInv' /\ query' = query
  BY <1>1, <1>4, ResolverInvIsInductive, HullInvIsInductive, QueryIsFixed
<1>6. MembersOf(source_rows, Head(asked))' = MembersOf(source_rows, Head(asked))
  BY <1>1 DEF MembersOf, _canonicalize_query_ref
<1>7. CallInv'
  BY <1>1, <1>4, <1>5, <1>6 DEF CallInv
<1> QED
  BY <1>3, <1>7 DEF PortInv

(* Chains change between two references only, and change no answer given. *)
LEMMA EditKeepsInv ==
    ASSUME PortInv, EditChains
    PROVE  PortInv'
<1>1. /\ pc' = "idle" /\ chains' \in Changed /\ edits < MaxEdits /\ edits' = edits + 1
      /\ UNCHANGED <<source_rows, target_rows, endpoint, asked, items, failed>>
  BY DEF EditChains, Idle, vars
<1>2. chains' \in Chains \cup {None} /\ edits' \in 0 .. MaxEdits
  BY <1>1, PortAssumption DEF PortInv, StateOK
<1>3. StateOK' /\ ChapterSoFar'
  BY <1>1, <1>2, QuietKeepsState
<1>4. CallInv'
  BY <1>1 DEF CallInv
<1> QED
  BY <1>3, <1>4 DEF PortInv

(* An answer of the resolver keeps the part of the call. *)
LEMMA AnswerIsPartDto ==
    ASSUME CallOK(query), AnswerOK(query, result)
    PROVE  result \in PartDtos
<1>1. PICK m \in query.members : m \in OfPart(PartOf(query))
  BY MembersOfPart
<1>2. m \in Verses /\ m.part = PartOf(query)
  BY <1>1 DEF OfPart
<1> QED
  BY <1>2 DEF AnswerOK, PartDtos

(* The response to a stored whole verse lists it. *)
LEMMA ResponseListsWhole ==
    ASSUME PortInv, pc = "done", NEW row \in ToSet(source_rows), row.part = None,
           Head(asked) = WholeAsk(row)
    PROVE  VerseId(row.c, row.v, None)
                \in Coordinates(ToSet(_to_result(result).source_spans))
<1> DEFINE x == VerseId(row.c, row.v, None)
           s == _enrich_span(source_rows, x)
<1>1. /\ source_rows \in Tables /\ target_rows \in Tables
      /\ query.members = MembersOf(source_rows, WholeAsk(row))
      /\ CallOK(query) /\ AnswerOK(query, result)
  BY DEF PortInv, StateOK, CallInv, ResolverInv, Whence
<1>2. x \in result.sources
  BY <1>1, WholeIsAskedAsItself DEF AnswerOK
<1>3. s \in ToSet(_to_result(result).source_spans)
  BY <1>1, <1>2, AnswerIsPartDto, ResponseKeeps
<1>4. find_stored_span(source_rows, x) = row
  <2>1. PICK i \in DOMAIN source_rows : source_rows[i] = row
    BY DEF ToSet
  <2> QED
    BY <1>1, <2>1, FindsItself
<1>5. row # None
  BY <1>1, PortAssumption
<1>6. s.c = row.c /\ s.v = row.v /\ s.part = None
  BY <1>4, <1>5 DEF _enrich_span, VerseId
<1> HIDE DEF s
<1>7. VerseId(s.c, s.v, s.part) \in Coordinates(ToSet(_to_result(result).source_spans))
  BY <1>3 DEF Coordinates
<1> QED
  BY <1>6, <1>7

(* A response lists what was asked, or an earlier one that says the same does. *)
LEMMA RespondKeepsInv ==
    ASSUME PortInv, Respond
    PROVE  PortInv'
<1> DEFINE item == _to_result(result)
<1>1. /\ pc = "done" /\ pc' = "idle" /\ asked' = Tail(asked) /\ Emit(item)
      /\ UNCHANGED <<source_rows, target_rows, chains, edits, endpoint, failed>>
  BY DEF Respond
<1>2. asked # <<>> /\ asked \in Seq(References) /\ items \in Seq(Responses)
  BY <1>1 DEF PortInv, StateOK, CallInv
<1>3. /\ Head(asked) \in References /\ Tail(asked) \in Seq(References)
      /\ Len(Tail(asked)) = Len(asked) - 1 /\ Len(asked) \in Nat
      /\ \A a \in ToSet(asked) : a = Head(asked) \/ a \in ToSet(Tail(asked))
  BY <1>2, AskedIsNonEmpty
<1>4. item \in Responses
  <2>1. CallOK(query) /\ AnswerOK(query, result)
    BY <1>1 DEF PortInv, CallInv, ResolverInv, Whence
  <2> QED
    BY <2>1, AnswerIsPartDto DEF Responses
<1>5. \/ items' = Append(items, item)
      \/ items' = items /\ \E i \in DOMAIN items :
            alignment_fingerprint(items[i]) = alignment_fingerprint(item)
  BY <1>1 DEF Emit
<1> HIDE DEF item
<1>6. /\ items' \in Seq(Responses) /\ Len(items') <= Len(items) + 1
      /\ Len(items) \in Nat /\ Len(items') \in Nat
      /\ \A i \in DOMAIN items : i \in DOMAIN items' /\ items'[i] = items[i]
  BY SMTT(40), <1>2, <1>4, <1>5
<1>7. StateOK'
  <2>1. Responses' = Responses
    BY <1>1, ResponsesAreFixed
  <2>2. endpoint' = "single" => Len(items') + Len(asked') <= 1
    BY <1>1, <1>3, <1>6 DEF PortInv, StateOK
  <2> QED
    BY <1>1, <1>3, <1>6, <2>1, <2>2 DEF PortInv, StateOK
<1>8. \E i \in DOMAIN items' :
        Coordinates(ToSet(items'[i].source_spans)) = Coordinates(ToSet(item.source_spans))
  <2>1. CASE items' = Append(items, item)
    <3>1. Len(items) + 1 \in DOMAIN items' /\ items'[Len(items) + 1] = item
      BY <1>2, <1>4, <2>1
    <3> QED
      BY <3>1
  <2>2. CASE items' = items /\ \E i \in DOMAIN items :
            alignment_fingerprint(items[i]) = alignment_fingerprint(item)
    BY <2>2 DEF alignment_fingerprint
  <2> QED
    BY <1>5, <2>1, <2>2
<1>9. ChapterSoFar'
  <2> SUFFICES ASSUME endpoint = "chapter", NEW row \in ToSet(source_rows), row.part = None,
                      WholeAsk(row) \notin failed, WholeAsk(row) \notin ToSet(Tail(asked))
               PROVE  ListedIn(row, items')
    BY <1>1 DEF ChapterSoFar, ListedIn, Coordinates
  <2>1. CASE ListedIn(row, items)
    BY <1>6, <2>1 DEF ListedIn
  <2>2. CASE WholeAsk(row) \in ToSet(asked)
    <3>1. Head(asked) = WholeAsk(row)
      BY <1>3, <2>2
    <3>2. VerseId(row.c, row.v, None) \in Coordinates(ToSet(item.source_spans))
      BY <1>1, <3>1, ResponseListsWhole DEF item
    <3> QED
      BY <1>8, <3>2 DEF ListedIn
  <2> QED
    BY <2>1, <2>2 DEF PortInv, ChapterSoFar
<1>10. CallInv'
  BY <1>1 DEF CallInv
<1> QED
  BY <1>7, <1>9, <1>10 DEF PortInv

(* Every step of a request keeps the invariant. *)
LEMMA PortInvIsInductive ==
    ASSUME PortInv, [PortNext]_<<vars, portVars>>
    PROVE  PortInv'
<1>1. CASE UNCHANGED <<vars, portVars>>
  <2>1. UNCHANGED <<source_rows, target_rows, chains, edits, endpoint, asked, items, failed>>
    BY <1>1 DEF portVars
  <2>2. StateOK' /\ ChapterSoFar'
    BY <2>1, QuietKeepsState DEF PortInv, StateOK
  <2>3. CallInv'
    <3> SUFFICES ASSUME pc' # "idle" PROVE CallInv'
      BY DEF CallInv
    <3>1. pc' = pc /\ UNCHANGED vars
      BY <1>1 DEF vars
    <3>2. ResolverInv /\ HullInv /\ asked # <<>>
          /\ query.members = MembersOf(source_rows, Head(asked))
      BY <3>1 DEF PortInv, CallInv
    <3>3. ResolverInv' /\ HullInv' /\ query' = query
      BY <3>1, <3>2, ResolverInvIsInductive, HullInvIsInductive, QueryIsFixed
    <3>4. MembersOf(source_rows, Head(asked))' = MembersOf(source_rows, Head(asked))
      BY <2>1 DEF MembersOf, _canonicalize_query_ref
    <3> QED
      BY <2>1, <3>2, <3>3, <3>4 DEF CallInv
  <2> QED
    BY <2>2, <2>3 DEF PortInv
<1> QED
  BY <1>1, PathFailsKeepsInv, AskKeepsInv, ResolveKeepsInv, RespondKeepsInv,
     EditKeepsInv DEF PortNext

(* The state of a request keeps its shape, and every span that names a row   *)
(* names one that is stored, whatever the resolver answers.                  *)
THEOREM PortTypeCorrect == PortSpec => []PortTypeOK
<1>1. PortInv => PortTypeOK
  <2> SUFFICES ASSUME PortInv PROVE PortTypeOK
    OBVIOUS
  <2>1. failed \cup ToSet(asked) \subseteq
            [ref : [c : {x.c : x \in Verses}, lo : Nat, hi : Nat],
             part : {x.part : x \in Verses}]
    <3>1. failed \subseteq References /\ ToSet(asked) \subseteq References
      BY DEF PortInv, StateOK, ToSet
    <3> QED
      BY <3>1 DEF References
  <2>2. pc \in {"idle", "assemble", "hull", "done"}
    BY DEF PortInv, CallInv, ResolverInv
  <2>3. ~ Idle => asked # <<>> /\ query.members \subseteq Verses
    BY DEF PortInv, CallInv, ResolverInv, Whence, CallOK, MembersOK, Idle
  <2>4. ASSUME NEW i \in DOMAIN items
        PROVE  /\ items[i].relation \in Relations \cup {"complex", "range"}
               /\ \A s \in ToSet(items[i].source_spans) :
                    s.seq # None => s.seq \in DOMAIN source_rows
               /\ \A s \in ToSet(items[i].target_spans) :
                    s.seq # None => s.seq \in DOMAIN target_rows
    <3>1. items[i] \in Responses /\ source_rows \in Tables /\ target_rows \in Tables
      BY DEF PortInv, StateOK
    <3>2. PICK d \in PartDtos : items[i] = _to_result(d)
      BY <3>1 DEF Responses
    <3>3. /\ items[i].relation \in Relations \cup {"complex", "range"}
          /\ items[i].source_spans \in Seq(Spans(source_rows))
          /\ items[i].target_spans \in Seq(Spans(target_rows))
      BY <3>1, <3>2, ResponseKeeps
    <3>4. /\ ToSet(items[i].source_spans) \subseteq Spans(source_rows)
          /\ ToSet(items[i].target_spans) \subseteq Spans(target_rows)
      BY <3>3 DEF ToSet
    <3> QED
      BY <3>1, <3>3, <3>4, SpansNameRows
  <2>5. TypeOK
    BY InvHasShape DEF PortInv, CallInv, TypeOK
  <2> QED
    BY <2>1, <2>2, <2>3, <2>4, <2>5 DEF PortTypeOK, PortInv, StateOK
<1> QED
  BY <1>1, InitPortInv, PortInvIsInductive, PTL DEF PortSpec

(* No counterpart of a queried verse is lost when coordinates are taken      *)
(* together as rows, for any stored texts, references and chains.            *)
THEOREM CounterpartRowsAreListed == PortSpec => []CounterpartRowsListed
<1>1. PortInv => CounterpartRowsListed
  <2> SUFFICES ASSUME PortInv, pc = "done", NEW m \in query.members,
                      ~ apply_hops({m}, query.srcHops, TRUE).excluded,
                      NEW t \in Walk({m}).targets
               PROVE  _enrich_span(target_rows, t) \in ToSet(Item.target_spans)
    BY DEF CounterpartRowsListed
  <2>1. /\ source_rows \in Tables /\ target_rows \in Tables
        /\ CallOK(query) /\ AnswerOK(query, result)
    BY DEF PortInv, StateOK, CallInv, ResolverInv, Whence
  <2>2. t \in result.targets
    BY <2>1, AnswerKeepsCounterparts
  <2> QED
    BY <2>1, <2>2, AnswerIsPartDto, ResponseKeeps DEF Item
<1> QED
  BY <1>1, InitPortInv, PortInvIsInductive, PTL DEF PortSpec

(* A chapter response lists every stored whole verse whose path could be     *)
(* built, although alignments given before are dropped and the chains may    *)
(* change from one verse to the next.                                        *)
THEOREM ChaptersAreCovered == PortSpec => []ChapterCovers
<1>1. PortInv => ChapterCovers
  <2> SUFFICES ASSUME PortInv, asked = <<>>, endpoint = "chapter",
                      NEW row \in ToSet(source_rows), row.part = None
               PROVE  \/ \E f \in failed : f.ref = RefRange(row.c, row.v, row.v)
                      \/ ListedIn(row, items)
    BY DEF ChapterCovers, Answered, ListedIn
  <2>1. ToSet(asked) = {}
    BY DEF ToSet
  <2>2. WholeAsk(row) \in failed \/ ListedIn(row, items)
    BY <2>1 DEF PortInv, ChapterSoFar
  <2> QED
    BY <2>2 DEF WholeAsk
<1> QED
  BY <1>1, InitPortInv, PortInvIsInductive, PTL DEF PortSpec

-----------------------------------------------------------------------------
(* What is asked is listed. *)

(* No coordinates are stored twice, once by a row of their own and once in a *)
(* combined milestone over them.                                             *)
Apart(rows) ==
    \A i, j \in DOMAIN rows :
        i # j => ~ covers(rows[i].range, VerseId(rows[j].c, rows[j].v, None))

(* The row found for a verse: of its coordinates, of the whole verse, or a   *)
(* combined milestone over it.                                               *)
LEMMA RowFound ==
    ASSUME NEW rows \in Tables, NEW x
    PROVE  LET row == find_stored_span(rows, x)
           IN  /\ (\E i \in DOMAIN rows : Holds(rows[i], x)) => row # None
               /\ row # None =>
                    \/ VerseId(row.c, row.v, row.part) = x
                    \/ VerseId(row.c, row.v, row.part) = Whole(x)
                    \/ row.c = x.c /\ covers(row.range, x)
               /\ row # None /\ VerseId(row.c, row.v, row.part) # x =>
                    \A i \in DOMAIN rows :
                        VerseId(rows[i].c, rows[i].v, rows[i].part) # x
<1> DEFINE row == find_stored_span(rows, x)
           At(y) == {i \in DOMAIN rows :
                        VerseId(rows[i].c, rows[i].v, rows[i].part) = y}
           Over == {i \in DOMAIN rows : rows[i].c = x.c /\ covers(rows[i].range, x)}
<1>1. ASSUME NEW y
      PROVE  /\ _exact_span(rows, y) = None <=> At(y) = {}
             /\ _exact_span(rows, y) # None =>
                    LET f == _exact_span(rows, y) IN VerseId(f.c, f.v, f.part) = y
  <2>1. _exact_span(rows, y) = FirstAt(rows, At(y))
    BY DEF _exact_span
  <2>2. /\ At(y) # {} => /\ Min(At(y)) \in At(y)
                         /\ FirstAt(rows, At(y)) = rows[Min(At(y))]
        /\ FirstAt(rows, At(y)) = None <=> At(y) = {}
    BY FoundIsStored
  <2> QED
    BY <2>1, <2>2
<1>2. /\ _covering_span(rows, x) = None <=> Over = {}
      /\ _covering_span(rows, x) # None =>
            LET f == _covering_span(rows, x) IN f.c = x.c /\ covers(f.range, x)
  <2>1. _covering_span(rows, x) = FirstAt(rows, Over)
    BY DEF _covering_span
  <2>2. /\ Over # {} => /\ Min(Over) \in Over
                        /\ FirstAt(rows, Over) = rows[Min(Over)]
        /\ FirstAt(rows, Over) = None <=> Over = {}
    BY FoundIsStored
  <2> QED
    BY <2>1, <2>2
<1>3. (\E i \in DOMAIN rows : Holds(rows[i], x)) => At(x) # {} \/ Over # {}
  <2> SUFFICES ASSUME NEW i \in DOMAIN rows, Holds(rows[i], x), i \notin At(x)
               PROVE  i \in Over
    OBVIOUS
  <2>1. covers(rows[i].range, x)
    BY DEF Holds
  <2>2. StoredOK(rows[i])
    BY PortAssumption DEF ToSet
  <2>3. rows[i].c = x.c
    BY <2>1, <2>2 DEF StoredOK, covers, RefRange
  <2> QED
    BY <2>1, <2>3
<1>4. row = IF _exact_span(rows, x) # None THEN _exact_span(rows, x)
            ELSE IF _exact_span(rows, Whole(x)) # None THEN _exact_span(rows, Whole(x))
            ELSE _covering_span(rows, x)
  BY DEF find_stored_span
<1> HIDE DEF row, At, Over
<1>5. (\E i \in DOMAIN rows : Holds(rows[i], x)) => row # None
  BY <1>1, <1>2, <1>3, <1>4
<1>6. CASE _exact_span(rows, x) # None
  BY <1>1, <1>4, <1>5, <1>6 DEF row
<1>7. CASE _exact_span(rows, x) = None
  <2>1. \A i \in DOMAIN rows : VerseId(rows[i].c, rows[i].v, rows[i].part) # x
    BY <1>1, <1>7 DEF At
  <2>2. row # None =>
                    \/ VerseId(row.c, row.v, row.part) = Whole(x)
                    \/ row.c = x.c /\ covers(row.range, x)
    BY <1>1, <1>2, <1>4, <1>7
  <2> QED
    BY <1>5, <2>1, <2>2 DEF row
<1> QED
  BY <1>6, <1>7

(* The row found for a stored verse stores it, unless a part is asked of a   *)
(* verse stored twice.                                                       *)
LEMMA FindsHolder ==
    ASSUME NEW rows \in Tables, NEW x \in Verses, x.part = None \/ Apart(rows),
           NEW i \in DOMAIN rows, Holds(rows[i], x)
    PROVE  /\ find_stored_span(rows, x) # None
           /\ Holds(find_stored_span(rows, x), x)
<1> DEFINE row == find_stored_span(rows, x)
<1>1. /\ row # None
      /\ \/ VerseId(row.c, row.v, row.part) = x
         \/ VerseId(row.c, row.v, row.part) = Whole(x)
         \/ row.c = x.c /\ covers(row.range, x)
      /\ VerseId(row.c, row.v, row.part) # x =>
            VerseId(rows[i].c, rows[i].v, rows[i].part) # x
  BY RowFound
<1>2. PICK j \in DOMAIN rows : rows[j] = row
  BY <1>1, FindsRow
<1> HIDE DEF row
<1>3. x = VerseId(x.c, x.v, x.part) /\ Whole(x) = VerseId(x.c, x.v, None)
  <2>1. x = VerseId(x.c, x.v, x.part)
    BY CallsAssumption
  <2> QED
    BY <2>1 DEF Whole, VerseId
<1>4. ASSUME VerseId(row.c, row.v, row.part) = Whole(x), VerseId(row.c, row.v, row.part) # x
      PROVE  covers(row.range, x)
  <2>1. x.part # None
    BY <1>3, <1>4
  <2>2. covers(rows[i].range, x)
    BY <1>1, <1>4 DEF Holds
  <2>3. covers(rows[i].range, VerseId(rows[j].c, rows[j].v, None))
    BY <1>2, <1>3, <1>4, <2>2 DEF covers, VerseId
  <2>4. i = j
    BY <2>1, <2>3 DEF Apart
  <2> QED
    BY <1>2, <2>2, <2>4
<1> QED
  BY <1>1, <1>4 DEF Holds, row

(* ... and so does the row found for the verse it is asked as. *)
LEMMA AskedHolder ==
    ASSUME NEW rows \in Tables, NEW ask \in References,
           ask.part = None \/ Apart(rows),
           NEW x \in expand(ask.ref, ask.part),
           NEW i \in DOMAIN rows, Holds(rows[i], x)
    PROVE  \E m \in MembersOf(rows, ask) :
                /\ m.part = x.part /\ find_stored_span(rows, m) # None
                /\ Holds(find_stored_span(rows, m), x)
<1>1. PICK y \in Verses : y.part = ask.part
  BY DEF References, AskOK
<1>2. /\ ask.ref.lo \in Nat /\ ask.ref.hi \in Nat /\ ask.ref.lo <= ask.ref.hi
      /\ expand(ask.ref, ask.part) \subseteq Verses
  BY <1>1 DEF References, AskOK, RangeOK
<1>3. /\ x \in Verses /\ x.part = ask.part /\ x.c = ask.ref.c
      /\ x.v \in ask.ref.lo .. ask.ref.hi /\ x = VerseId(ask.ref.c, x.v, ask.part)
  BY <1>2 DEF expand, VerseId
<1>4. CASE _canonicalize_query_ref(rows, ask) = ask.ref
  <2>1. x \in MembersOf(rows, ask)
    BY <1>4 DEF MembersOf
  <2> QED
    BY <1>3, <2>1, FindsHolder
<1>5. CASE _canonicalize_query_ref(rows, ask) # ask.ref
  <2> DEFINE at == VerseId(ask.ref.c, ask.ref.lo, ask.part)
             row == find_stored_span(rows, at)
  <2>1. /\ ~ (width(ask.ref) > 0) /\ row # None /\ row.v # ask.ref.lo
        /\ _canonicalize_query_ref(rows, ask) = RefRange(row.c, row.v, row.v)
    <3> HIDE DEF row
    <3> QED
      BY <1>5 DEF _canonicalize_query_ref, row
  <2>2. x = at
    <3>1. x.v = ask.ref.lo
      BY <1>2, <1>3, <2>1 DEF width
    <3> QED
      BY <1>3, <3>1
  <2>3. /\ \/ VerseId(row.c, row.v, row.part) = at
           \/ VerseId(row.c, row.v, row.part) = Whole(at)
           \/ row.c = at.c /\ covers(row.range, at)
    BY <2>1, RowFound
  <2>4. PICK j \in DOMAIN rows : rows[j] = row
    BY <2>1, FindsRow
  <2> HIDE DEF row
  <2>5. VerseId(row.c, row.v, row.part) # at /\ VerseId(row.c, row.v, row.part) # Whole(at)
    BY <2>1 DEF VerseId, Whole
  <2>6. covers(row.range, x) /\ row.range # None
    BY <2>2, <2>3, <2>5 DEF covers
  <2> HIDE DEF at
  <2>7. /\ row.part = None /\ row.range = RefRange(row.c, row.v, row.range.hi)
        /\ row.range.hi \in Nat /\ VerseId(row.c, row.v, ask.part) \in Verses
    <3>1. StoredOK(row)
      BY <2>4, PortAssumption DEF ToSet
    <3> QED
      BY <1>1, <2>6, <3>1 DEF StoredOK
  <2> DEFINE m == VerseId(row.c, row.v, ask.part)
  <2>8. m.part = x.part /\ row.v \in Nat /\ m.v = row.v /\ m.c = row.c
    BY <1>3, <2>7, CallsAssumption DEF VerseId
  <2>9. MembersOf(rows, ask) = {m}
    BY <2>1, <2>8 DEF MembersOf, expand, RefRange
  <2>10. PICK g : g = find_stored_span(rows, m)
    OBVIOUS
  <2>11. covers(row.range, m)
    <3>1. row.range.c = row.c /\ row.range.lo = row.v
      BY <2>7 DEF RefRange
    <3>2. x.v \in row.range.lo .. row.range.hi
      BY <2>6 DEF covers
    <3>3. x.v \in Nat
      BY <1>3, CallsAssumption
    <3>4. row.v \in row.range.lo .. row.range.hi
      <4>1. row.range.lo \in Nat
        BY <2>8, <3>1
      <4>2. row.range.hi \in Nat
        BY <2>7
      <4> QED
        BY <2>8, <3>1, <3>2, <3>3, <4>1, <4>2
    <3> QED
      BY <2>6, <2>8, <3>1, <3>4 DEF covers
  <2>12. g # None /\ Holds(g, m)
    BY <1>3, <2>4, <2>7, <2>8, <2>10, <2>11, FindsHolder DEF Holds
  <2>13. g = row
    <3>1. VerseId(row.c, row.v, row.part) = Whole(m)
      BY <2>7, <2>8 DEF Whole, VerseId
    <3>2. CASE ask.part = None
      <4>1. m = VerseId(rows[j].c, rows[j].v, rows[j].part)
        BY <2>4, <2>7, <3>2
      <4> QED
        BY <2>4, <2>10, <4>1, FindsItself
    <3>3. CASE Apart(rows)
      <4>1. PICK k \in DOMAIN rows : rows[k] = g
        BY <2>10, <2>12, FindsRow
      <4>2. k # j => FALSE
        <5> SUFFICES ASSUME k # j PROVE FALSE
          OBVIOUS
        <5>1. ~ covers(rows[k].range, VerseId(rows[j].c, rows[j].v, None))
          BY <3>3 DEF Apart
        <5>2. ~ covers(g.range, m)
          BY <2>4, <2>8, <4>1, <5>1 DEF covers, VerseId
        <5>3. VerseId(g.c, g.v, g.part) = m
          BY <2>12, <5>2 DEF Holds
        <5>4. ~ covers(row.range, VerseId(g.c, g.v, None))
          BY <2>4, <3>3, <4>1 DEF Apart
        <5>5. g.c = m.c /\ g.v = m.v
          BY <5>3 DEF VerseId
        <5> QED
          BY <2>11, <5>4, <5>5 DEF covers, VerseId
      <4> QED
        BY <2>4, <4>1, <4>2
    <3> QED
      BY <3>2, <3>3
  <2>14. Holds(g, x)
    BY <2>6, <2>13 DEF Holds
  <2> QED
    BY <2>8, <2>9, <2>10, <2>12, <2>14
<1> QED
  BY <1>4, <1>5

(* What is asked is one of the requests allowed, or has no part. *)
AskedFrom == \A a \in ToSet(asked) : a \in Asks \/ a.part = None

LEMMA AskedFromIsInductive ==
    ASSUME PortInv, AskedFrom, [PortNext]_<<vars, portVars>>
    PROVE  AskedFrom'
<1>1. asked \in Seq(References)
  BY DEF PortInv, StateOK
<1>2. ASSUME asked' = Tail(asked), asked # <<>> PROVE AskedFrom'
  <2>1. Tail(asked) \in Seq(References) /\ Len(Tail(asked)) = Len(asked) - 1
        /\ Len(asked) \in Nat /\ \A i \in 1 .. Len(Tail(asked)) : Tail(asked)[i] = asked[i + 1]
    BY <1>1, <1>2
  <2>2. ToSet(Tail(asked)) \subseteq ToSet(asked)
    <3> SUFFICES ASSUME NEW i \in DOMAIN Tail(asked) PROVE Tail(asked)[i] \in ToSet(asked)
      BY DEF ToSet
    <3>1. i \in 1 .. Len(Tail(asked))
      BY <2>1
    <3>2. i + 1 \in 1 .. Len(asked)
      BY <2>1, <3>1
    <3>3. DOMAIN asked = 1 .. Len(asked)
      BY <1>1
    <3> QED
      BY <2>1, <3>1, <3>2, <3>3 DEF ToSet
  <2> QED
    BY <1>2, <2>2 DEF AskedFrom
<1>3. ASSUME asked' = asked PROVE AskedFrom'
  BY <1>3 DEF AskedFrom
<1>4. CASE PathFails
  BY <1>2, <1>4 DEF PathFails
<1>5. CASE Respond
  <2>1. asked # <<>>
    BY <1>5 DEF Respond, PortInv, CallInv
  <2> QED
    BY <1>2, <1>5, <2>1 DEF Respond
<1>6. CASE Ask \/ Resolve
  BY <1>3, <1>6 DEF Ask, Resolve, portVars
<1>7. CASE EditChains
  BY <1>3, <1>7 DEF EditChains
<1>8. CASE UNCHANGED <<vars, portVars>>
  BY <1>3, <1>8 DEF portVars
<1> QED
  BY <1>4, <1>5, <1>6, <1>7, <1>8 DEF PortNext

(* Whoever asks for a stored verse finds a span of a row that stores it, for *)
(* any chains and any hull.  When no milestone is stored over a verse stored *)
(* by itself, for every reference; otherwise, for references without a part. *)
THEOREM AskedRowsAreListed ==
    ASSUME \A ask \in Asks : \A rows \in Tables : ask.part = None \/ Apart(rows)
    PROVE  PortSpec => []QueryRowListed
<1>1. PortInit => AskedFrom
  <2> SUFFICES ASSUME PortInit PROVE AskedFrom
    OBVIOUS
  <2>1. CASE endpoint = "single" /\ \E ask \in Asks : asked = <<ask>>
    BY <2>1 DEF AskedFrom, ToSet
  <2>2. CASE endpoint = "chapter" /\ asked = _stored_whole_verses(source_rows)
    <3>1. \A i \in DOMAIN asked : asked[i].part = None
      BY <2>2 DEF _stored_whole_verses
    <3> QED
      BY <3>1 DEF AskedFrom, ToSet
  <2> QED
    BY <2>1, <2>2 DEF PortInit
<1>2. PortInv /\ AskedFrom => QueryRowListed
  <2> SUFFICES ASSUME PortInv, AskedFrom, pc = "done",
                      NEW x \in expand(Head(asked).ref, Head(asked).part),
                      NEW i \in DOMAIN source_rows, Holds(source_rows[i], x)
               PROVE  \E s \in ToSet(Item.source_spans) :
                            /\ s.seq # None /\ s.part = x.part
                            /\ Holds(source_rows[s.seq], x)
    BY DEF QueryRowListed
  <2> DEFINE ask == Head(asked)
             rows == source_rows
  <2>1. /\ rows \in Tables /\ target_rows \in Tables /\ asked # <<>>
        /\ asked \in Seq(References)
        /\ query.members = MembersOf(rows, ask)
        /\ CallOK(query) /\ AnswerOK(query, result)
    BY DEF PortInv, StateOK, CallInv, ResolverInv, Whence
  <2>2. ask \in References /\ ask \in ToSet(asked)
    <3>1. Len(asked) >= 1 /\ Head(asked) = asked[1] /\ 1 \in DOMAIN asked
          /\ asked[1] \in References
      BY <2>1
    <3> QED
      BY <3>1 DEF ToSet
  <2>3. ask.part = None \/ Apart(rows)
    BY <2>1, <2>2 DEF AskedFrom
  <2>4. PICK m \in MembersOf(rows, ask) :
                /\ m.part = x.part /\ find_stored_span(rows, m) # None
                /\ Holds(find_stored_span(rows, m), x)
    <3> HIDE DEF ask, rows
    <3>1. x \in expand(ask.ref, ask.part) /\ i \in DOMAIN rows /\ Holds(rows[i], x)
      BY DEF ask, rows
    <3> QED
      BY <2>1, <2>2, <2>3, <3>1, AskedHolder
  <2> DEFINE s == _enrich_span(rows, m)
             row == find_stored_span(rows, m)
  <2>5. s \in ToSet(Item.source_spans)
    <3>1. m \in result.sources
      BY <2>1 DEF AnswerOK
    <3> QED
      BY <2>1, <3>1, AnswerIsPartDto, ResponseKeeps DEF Item
  <2>6. PICK j \in DOMAIN rows : rows[j] = row
    BY <2>1, <2>4, FindsRow
  <2>7. s.seq = (CHOOSE k \in DOMAIN rows : rows[k] = row) /\ s.part = m.part
    BY <2>4 DEF _enrich_span
  <2>8. s.seq \in DOMAIN rows /\ rows[s.seq] = row
    <3> HIDE DEF s, row
    <3> QED
      BY <2>6, <2>7
  <2>9. s.seq # None
    <3>1. DOMAIN rows = 1 .. Len(rows) /\ None \notin Nat
      BY <2>1, PlacesOfTables, PortAssumption
    <3> HIDE DEF s, rows
    <3> QED
      BY <2>8, <3>1
  <2> HIDE DEF s
  <2> QED
    BY <2>4, <2>5, <2>7, <2>8, <2>9
<1> QED
  BY <1>1, <1>2, InitPortInv, PortInvIsInductive, AskedFromIsInductive,
     PTL DEF PortSpec
==============================================================================
