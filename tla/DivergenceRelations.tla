-------------------------- MODULE DivergenceRelations --------------------------
(* What corresponds to what: two schemes composed through org into relations *)
(* (divergence/compose.py) and the kind of each (divergence/classify.py).     *)
(*                                                                            *)
(* A relation is [A, O, B, flags, warn] with sets of verses, and, classified, *)
(* its present verses Ap and Bp, its cardinality rel and its type; the type   *)
(* None of the program is Same here.  The codes of a warning, which only name *)
(* it, are left out.                                                          *)
EXTENDS DivergenceScheme

Same == "SAME"

BooksOf(verses_) == {x[1] : x \in verses_}
ChaptersOf(verses_) == {<<x[1], x[2]>> : x \in verses_}

-----------------------------------------------------------------------------
(* ------------------------------- compose --------------------------------- *)
(* An org verse that maps to one other verse stands for that verse. *)
canon(org, x) ==
    IF \E y \in Mapped(org, x) : Mapped(org, x) = {y}
    THEN CHOOSE y \in Mapped(org, x) : TRUE ELSE x

OrgOf(scheme, org, x) == {canon(org, y) : y \in to_org(scheme, x)}

(* Every verse of a side is joined with its org verses ... *)
Links(side, scheme, org) ==
    LET sorted == Sorted(verses(scheme))
    IN  [i \in DOMAIN sorted |-> {<<side, sorted[i]>>}
            \cup {<<"O", y>> : y \in OrgOf(scheme, org, sorted[i])}]

(* ... one verse after the other: the sets of all of them become one. *)
union(parts, link) ==
    LET touched == {p \in parts : p \cap link # {}}
    IN  (parts \ touched) \cup {UNION touched}

Parts(links) ==
    LET parts[k \in 0 .. Len(links)] ==
            IF k = 0 THEN {{n} : n \in UNION ToSet(links)}
            ELSE union(parts[k - 1], links[k])
    IN  parts[Len(links)]

Components(a, b, org) == Parts(Links("A", a, org) \o Links("B", b, org))

(* An org verse of one book claimed by a default and a mapping of different  *)
(* chapters: whoever claims it collides.                                     *)
Collides(scheme, org, x) ==
    \E o \in OrgOf(scheme, org, x) :
        LET sources == {y \in verses(scheme) : o \in OrgOf(scheme, org, y)}
        IN  /\ \E y \in sources : IsDefault(scheme, y)
            /\ \E y \in sources : ~ IsDefault(scheme, y)
            /\ Cardinality(BooksOf(sources)) = 1
            /\ Cardinality(ChaptersOf(sources)) > 1

(* A default whose org verse is in a book org does not have. *)
NoAnchor(scheme, org, x) ==
    IsDefault(scheme, x) /\ canon(org, x)[1] \notin DOMAIN org.max

FlagsOf(scheme, org, listed) ==
    {f[2] : f \in {y \in scheme.flags : y[1] \in listed}}
        \cup {f \in {"noanchor"} : \E x \in listed : NoAnchor(scheme, org, x)}

RelationOf(component, a, b, org) ==
    LET At(side) == {n[2] : n \in {x \in component : x[1] = side}}
        flags == FlagsOf(a, org, At("A")) \cup FlagsOf(b, org, At("B"))
    IN  [A |-> At("A"), O |-> At("O"), B |-> At("B"), flags |-> flags,
         warn |-> \/ "warn" \in flags
                  \/ \E x \in At("A") : Collides(a, org, x)
                  \/ \E x \in At("B") : Collides(b, org, x)]

InBook(verses_, book) == {x \in verses_ : x[1] = book}
Copy(r, as, bs, warn) == [r EXCEPT !.A = as, !.B = bs, !.warn = warn]

(* Mutant of split_alternates: what is left on both sides is dropped too. *)
SplitWithoutLeftovers(r) ==
    LET common == BooksOf(r.A) \cap BooksOf(r.B)
    IN  IF common = {} \/ Cardinality(BooksOf(r.A) \cup BooksOf(r.B)) = 1
        THEN {r}
        ELSE {Copy(r, InBook(r.A, k), InBook(r.B, k), FALSE) : k \in common}

(* Alternate forms of a book share org verses: the same book on both sides   *)
(* pairs first, what is left pairs if both sides have some.                  *)
split_alternates(r) ==
    LET common == BooksOf(r.A) \cap BooksOf(r.B)
        leftA == {x \in r.A : x[1] \notin common}
        leftB == {x \in r.B : x[1] \notin common}
        paired == {Copy(r, InBook(r.A, k), InBook(r.B, k), FALSE) : k \in common}
    IN  IF \/ {} \in {r.A, r.B}
           \/ Cardinality(BooksOf(r.A)) = 1 /\ Cardinality(BooksOf(r.B)) = 1
        THEN {r}
        ELSE IF common # {}
        THEN paired \cup {Copy(r, leftA, leftB, r.warn) :
                            x \in IF {} \in {leftA, leftB} THEN {} ELSE {0}}
        ELSE IF Cardinality(BooksOf(r.A)) > 1
        THEN {Copy(r, InBook(r.A, k), r.B, FALSE) : k \in BooksOf(r.A)}
        ELSE {Copy(r, r.A, InBook(r.B, k), FALSE) : k \in BooksOf(r.B)}

-----------------------------------------------------------------------------
(* ------------------------------- classify -------------------------------- *)
Few(verses_) == Min({Cardinality(verses_), 2})

(* Mutant of PairedType: equal verses on both sides are not looked for. *)
PairedTypeUnequal(r, ap, bp) ==
    IF Cardinality(BooksOf(ap \cup bp)) > 1 THEN "CROSS_BOOK"
    ELSE IF ChaptersOf(ap) # ChaptersOf(bp) THEN "CHAPTER_MOVE"
    ELSE IF Cardinality(ap) > Cardinality(bp) THEN "MERGE"
    ELSE IF Cardinality(ap) < Cardinality(bp) THEN "SPLIT" ELSE "RENUMBER"

(* Mutant of PairedType: as many verses on both sides are a merge. *)
PairedTypeMerge(r, ap, bp) ==
    IF Cardinality(BooksOf(ap \cup bp)) > 1 THEN "CROSS_BOOK"
    ELSE IF ChaptersOf(ap) # ChaptersOf(bp) THEN "CHAPTER_MOVE"
    ELSE IF ap = bp THEN Same
    ELSE IF Cardinality(ap) >= Cardinality(bp) THEN "MERGE" ELSE "SPLIT"

PairedType(r, ap, bp) ==
    IF Cardinality(BooksOf(ap \cup bp)) > 1 THEN "CROSS_BOOK"
    ELSE IF ChaptersOf(ap) # ChaptersOf(bp) THEN "CHAPTER_MOVE"
    ELSE IF ap = bp THEN Same
    ELSE IF Cardinality(ap) = 1 /\ Cardinality(bp) = 1
    THEN IF \E x \in ap \cup bp : x[3] = 0 THEN "VERSE0_TITLE" ELSE "RENUMBER"
    ELSE IF "segment" \in r.flags THEN "SEGMENT"
    ELSE IF Cardinality(ap) > Cardinality(bp) THEN "MERGE"
    ELSE IF Cardinality(ap) < Cardinality(bp) THEN "SPLIT" ELSE "RENUMBER"

TypeOf(r, ap, bp) ==
    CASE ap = {} /\ bp = {} -> Same
      [] ap = {} /\ bp # {} -> IF r.A # {} THEN "EXCLUDED" ELSE "ONE_SIDED"
      [] ap # {} /\ bp = {} -> IF r.B # {} THEN "EXCLUDED" ELSE "ONE_SIDED"
      [] OTHER -> PairedType(r, ap, bp)

(* The first pass over one relation. *)
Classified(r, a, b) ==
    LET ap == r.A \ a.excluded
        bp == r.B \ b.excluded
        type == TypeOf(r, ap, bp)
        approximate == /\ type \in {"MERGE", "SPLIT", "SEGMENT"}
                       /\ ~ (a.has_vrs /\ b.has_vrs)
    IN  [A |-> r.A, O |-> r.O, B |-> r.B, Ap |-> ap, Bp |-> bp,
         rel |-> <<Few(ap), Few(bp)>>, type |-> type, etype |-> type,
         flags |-> r.flags \cup (IF approximate THEN {"approx"} ELSE {}),
         warn |-> r.warn \/ /\ type \in {"EXCLUDED", "ONE_SIDED"}
                            /\ "noanchor" \in r.flags]

(* How many of the subsequences so far the i-th value can follow, and one. *)
bisect_right(seq, tails, i) ==
    Cardinality({j \in DOMAIN tails : ~ Before(seq[i], seq[Last(tails[j])])}) + 1

(* For every length the subsequence with the least last value so far, as the *)
(* sequence of its indices: the i-th value ends a new one.                   *)
Put(seq, tails, i) ==
    LET place == bisect_right(seq, tails, i)
        chain == IF place = 1 THEN <<i>> ELSE Append(tails[place - 1], i)
    IN  IF place > Len(tails) THEN Append(tails, chain)
        ELSE [tails EXCEPT ![place] = chain]

Tails(seq) ==
    LET tails[k \in 0 .. Len(seq)] ==
            IF k = 0 THEN <<>> ELSE Put(seq, tails[k - 1], k)
    IN  tails[Len(seq)]

(* Mutant of _lis_keep: the last value of every length, not one subsequence. *)
KeepTails(seq) == {Last(chain) : chain \in ToSet(Tails(seq))}

(* One longest non-decreasing subsequence. *)
_lis_keep(seq) == IF Tails(seq) = <<>> THEN {} ELSE ToSet(Last(Tails(seq)))

(* The relations in the order of a key; equal keys stay in the order of the  *)
(* components, A's first, and of the books of B.                             *)
Ordered(relations_, key) ==
    LET Sooner(x, y) ==
            \/ Before(key[x], key[y])
            \/ /\ key[x] = key[y]
               /\ \/ x.A # {} /\ y.A = {}
                  \/ (x.A = {}) = (y.A = {}) /\ x.B # {} /\ y.B # {}
                        /\ Before(FirstOf(x.B), FirstOf(y.B))
    IN  InOrder(relations_, {p \in relations_ \X relations_ : Sooner(p[1], p[2])})

FirstA(r) == FirstOf(r.Ap)
Paired(relations_) == {r \in relations_ : r.Ap # {} /\ r.Bp # {}}

ByFirstA(relations_) == Ordered(relations_, [r \in relations_ |-> FirstA(r)])

(* Relations of a book of A, in its order, and those off the backbone in B. *)
OfBook(relations_, book) == ByFirstA({r \in Paired(relations_) : FirstA(r)[1] = book})
Inverted(seq) ==
    LET keep == _lis_keep([i \in DOMAIN seq |-> FirstOf(seq[i].Bp)])
    IN  {seq[i] : i \in DOMAIN seq \ keep}

classify(first) ==
    LET off == UNION {Inverted(OfBook(first, k)) :
                        k \in {FirstA(r)[1] : r \in Paired(first)}}
    IN  (first \ off) \cup {[r EXCEPT !.type = "ORDER_INVERSION",
                                      !.etype = "ORDER_INVERSION"] : r \in off}

FirstPass(a, b, org) ==
    LET components == {RelationOf(c, a, b, org) : c \in Components(a, b, org)}
    IN  {Classified(r, a, b) :
            r \in UNION {split_alternates(c) : c \in components}}

compose_schemes(a, b, org) == classify(FirstPass(a, b, org))
=============================================================================
