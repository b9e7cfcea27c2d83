---------------------------- MODULE VerseMapping ----------------------------
(* The coordinate arithmetic under every resolve: mapping rows derived from  *)
(* a scheme's ingredient (ingest/derive_mappings.py), the covering row of a  *)
(* verse and its projection (resolver/cover.py), the composition of relations *)
(* (resolver/compose.py) and the walk along a chain of schemes               *)
(* (resolver/walk.py).  Pure operators, no state.                            *)
(*                                                                           *)
(* A verse is [c, v, part]: book and chapter are one coordinate c, because   *)
(* the code only ever compares the two together.  A range is [c, lo, hi].    *)
(* The mapping rows of a scheme are a sequence: a row's place is its ordinal. *)
EXTENDS Integers, FiniteSets, Sequences, SequencesExt

CONSTANTS None       \* Python's None: no part, no base, no covering row

Relations == {"exclude", "merge", "split", "renumber", "shift", "partial",
              "one_to_one"}

(* ------------------------- references (parse_ref) ------------------------ *)
RefRange(c, lo, hi) == [c |-> c, lo |-> lo, hi |-> hi]
VerseId(c, v, part) == [c |-> c, v |-> v, part |-> part]

width(r) == r.hi - r.lo
expand(r, part) == {VerseId(r.c, v, part) : v \in r.lo .. r.hi}
covers(r, verse) == r # None /\ r.c = verse.c /\ verse.v \in r.lo .. r.hi

(* --------------------- ingredient -> mapping rows ------------------------ *)
(* shift, renumber or one_to_one for a mappedVerses pair. *)
classify_mapped(source, base) ==
    IF source.c # base.c \/ width(source) # width(base) THEN "renumber"
    ELSE IF width(source) = 0 /\ source.lo = base.lo THEN "one_to_one"
    ELSE "shift"

(* The base a mappedVerses entry gives a merged or split reference. *)
MappedBase(ingredient, ref) ==
    LET at == {i \in DOMAIN ingredient.mapped :
                    ingredient.mapped[i].source = ref}
    IN  IF at = {} THEN None ELSE ingredient.mapped[CHOOSE i \in at : TRUE].base

(* The rows of a scheme in ordinal order.  A reference listed as merged or   *)
(* split gives no mapped row of its own; a split without a base gives none.  *)
derive_mapping_records(ingredient) ==
    LET Row(source, base, part, relation) ==
            [source |-> source, base |-> base, part |-> part,
             relation |-> relation]
        listed == ToSet(ingredient.merged) \cup ToSet(ingredient.split)
        mapped == SelectSeq(ingredient.mapped,
                            LAMBDA m : m.source \notin listed)
        split  == SelectSeq(ingredient.split,
                            LAMBDA r : MappedBase(ingredient, r) # None)
    IN  [i \in DOMAIN mapped |->
            Row(mapped[i].source, mapped[i].base, None,
                classify_mapped(mapped[i].source, mapped[i].base))]
        \o [i \in DOMAIN ingredient.excluded |->
            Row(ingredient.excluded[i], None, None, "exclude")]
        \o [i \in DOMAIN ingredient.merged |->
            Row(ingredient.merged[i],
                MappedBase(ingredient, ingredient.merged[i]), None, "merge")]
        \o [i \in DOMAIN split |->
            Row(split[i], MappedBase(ingredient, split[i]), None, "split")]
        \o [i \in DOMAIN ingredient.partial |->
            Row(ingredient.partial[i].source, ingredient.partial[i].source,
                ingredient.partial[i].part, "partial")]

(* ---------------------------- relations (compose) ------------------------ *)
priority_rank == [exclude |-> 1, merge |-> 2, split |-> 3, renumber |-> 4,
                  shift |-> 5, partial |-> 6, one_to_one |-> 7]

invert_relation(r) ==
    CASE r = "split" -> "merge" [] r = "merge" -> "split" [] OTHER -> r

(* Mutant of compose: a second hop of the same kind undoes the first. *)
ComposeSameCancels(left, right) ==
    IF left = right \/ {left, right} = {"split", "merge"} THEN "one_to_one"
    ELSE IF priority_rank[left] <= priority_rank[right] THEN left ELSE right

(* The higher priority wins; a split met by a merge cancels.  one_to_one has  *)
(* the lowest priority, so it is neutral, and exclude the highest.           *)
compose(left, right) ==
    IF {left, right} = {"split", "merge"} THEN "one_to_one"
    ELSE IF priority_rank[left] <= priority_rank[right] THEN left ELSE right

(* The non-identity relation of the highest priority, None if there is none. *)
dominant_relation(relations) ==
    LET others == relations \ {"one_to_one"}
    IN  IF others = {} THEN None
        ELSE CHOOSE r \in others :
                \A q \in others : priority_rank[r] <= priority_rank[q]

(* ------------------- one hop: cover and projection (cover) ---------------- *)
(* The side of a row that covers when walking up (towards the base), or the  *)
(* opposite one when walking down.                                           *)
Side(row, upward) == IF upward THEN row.source ELSE row.base

(* The place of the narrowest covering row, the lowest on a tie; 0: no row.  *)
(* Partial rows only cover a verse queried with that part.                   *)
find_covering_record(rows, verse, upward) ==
    LET candidates ==
            {i \in DOMAIN rows :
                /\ covers(Side(rows[i], upward), verse)
                /\ rows[i].relation = "partial" => rows[i].part = verse.part}
        W(i) == width(Side(rows[i], upward))
    IN  IF candidates = {} THEN 0
        ELSE CHOOSE i \in candidates : \A j \in candidates \ {i} :
                \/ W(i) < W(j)
                \/ W(i) = W(j) /\ i < j

Projection(verses, relation, excluded, siblings) ==
    [verses |-> verses, relation |-> relation, excluded |-> excluded,
     siblings |-> siblings]

(* A verse paired by index with the other range, clamped into it. *)
_zip_project(verse, from, to) ==
    VerseId(to.c, Min({to.lo + verse.v - from.lo, to.hi}), verse.part)

(* A verse through its covering row.  A merge lands on the first base verse   *)
(* (of its own range when it has no base) and reports every verse merged; a   *)
(* split lands on the whole base; every other relation pairs the two ranges   *)
(* by index.                                                                 *)
project_through(verse, row, upward) ==
    LET relation == IF upward THEN row.relation
                    ELSE invert_relation(row.relation)
        from == Side(row, upward)
        far  == Side(row, ~upward)
        to   == IF far = None /\ relation = "merge"
                THEN RefRange(from.c, from.lo, from.lo) ELSE far
    IN  IF relation = "exclude" \/ to = None
        THEN Projection({}, "exclude", TRUE, {})
        ELSE CASE relation = "merge" ->
                    Projection({VerseId(to.c, to.lo, verse.part)}, relation,
                               FALSE, expand(from, verse.part))
               [] relation = "split" ->
                    Projection(expand(to, verse.part), relation, FALSE, {})
               [] OTHER ->
                    Projection({_zip_project(verse, from, to)}, relation,
                               FALSE, {})

(* Without a covering row the hop is the identity. *)
project_verse(verse, rows, upward) ==
    LET i == find_covering_record(rows, verse, upward)
    IN  IF i = 0 THEN Projection({verse}, "one_to_one", FALSE, {})
        ELSE project_through(verse, rows[i], upward)

(* The cover of a row that pairs ranges of unequal length by index, or None. *)
unequal_zip_cover(row, upward) ==
    IF /\ row.relation \in {"one_to_one", "shift", "renumber"}
       /\ row.source # None /\ row.base # None
       /\ width(row.source) # width(row.base)
    THEN Side(row, upward) ELSE None

(* ----------------------- chains of hops (walk) --------------------------- *)
PartRank(part) == IF part = None THEN 0 ELSE 1

Before(x, y) ==
    \/ x.c < y.c
    \/ x.c = y.c /\ x.v < y.v
    \/ x.c = y.c /\ x.v = y.v /\ PartRank(x.part) < PartRank(y.part)

sort_verses(S) ==
    [i \in 1 .. Cardinality(S) |->
        CHOOSE x \in S : Cardinality({y \in S : Before(y, x)}) = i - 1]

is_contiguous(S) ==
    LET s == sort_verses(S)
    IN  \A i \in DOMAIN s : s[i].c = s[1].c /\ s[i].v = s[1].v + i - 1

(* One hop of a walk: every verse in sorted order through its row. *)
ApplyHop(walk, rows, upward) ==
    LET through(x) == project_verse(x, rows, upward)
        current == sort_verses(walk.verses)
        relation[k \in 0 .. Len(current)] ==
            IF k = 0 THEN walk.relation
            ELSE compose(relation[k - 1], through(current[k]).relation)
    IN  Projection(UNION {through(x).verses : x \in walk.verses},
                   relation[Len(current)],
                   walk.excluded \/ \E x \in walk.verses : through(x).excluded,
                   walk.siblings \cup UNION {through(x).siblings : x \in walk.verses})

apply_hops(verses, hops, upward) ==
    LET walk[k \in 0 .. Len(hops)] ==
            IF k = 0 THEN Projection(verses, "one_to_one", FALSE, {})
            ELSE ApplyHop(walk[k - 1], hops[k], upward)
    IN  walk[Len(hops)]

(* Neighbours in the pivot numbering and back.  One excluded branch empties  *)
(* the whole set, even when other branches survive.                          *)
Reached(walk) == IF walk.excluded THEN {} ELSE walk.verses
up_set(verse, hops)   == Reached(apply_hops({verse}, hops, TRUE))
down_set(verse, hops) == Reached(apply_hops({verse}, hops, FALSE))

(* Mutant of src_of_pivot: climbs the hops instead of inverting them. *)
SrcOfPivotUpward(pivot, hops) == up_set(pivot, Reverse(hops))

src_of_pivot(pivot, hops)   == down_set(pivot, Reverse(hops))
piv_of_target(target, hops) == up_set(target, Reverse(hops))

(* The relation of the source leg, the target leg and both together on the   *)
(* path source - pivot - target.                                             *)
edge_legs(source, pivot, target, srcHops, tgtHops) ==
    LET Leg(walk, to) ==
            IF walk.excluded \/ to \notin walk.verses THEN "one_to_one"
            ELSE walk.relation
        Both(up, down) ==
            [up |-> up, down |-> down, composed |-> compose(up, down)]
    IN  Both(Leg(apply_hops({source}, srcHops, TRUE), pivot),
             Leg(apply_hops({pivot}, tgtHops, FALSE), target))
=============================================================================
