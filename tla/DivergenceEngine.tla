--------------------------- MODULE DivergenceEngine ---------------------------
(* The computation of a divergence report, stage by stage (divergence/        *)
(* report.py): load both sides and org, compose relations, group them into    *)
(* events (divergence/events.py), lay them out as runs (divergence/runs.py);  *)
(* the stage "classifying" is announced between, with nothing to do of its    *)
(* own.                                                                       *)
(* The encoding of names as numbers is left out, the counts, spans and types  *)
(* that it encodes are not.                                                   *)
EXTENDS DivergenceRelations

CONSTANTS
    Sides,          \* what a side may be: [doc, spans]
    Orgs            \* root documents

ASSUME EngineAssumption == (\A side \in Sides : SideOK(side)) /\ \A doc \in Orgs : DocOK(doc)

VARIABLES
    left, right, root,  \* the inputs: two sides and the root's document
    stage,              \* the stage the report is at
    A, B, org,          \* the loaded schemes
    relations, events, runs

inputs == <<left, right, root>>
schemes == <<A, B, org>>
vars == <<inputs, stage, schemes, relations, events, runs>>

STAGES == {"loading", "composing", "events", "runs", "encoding"}
NoScheme == [max |-> <<>>]

-----------------------------------------------------------------------------
(* -------------------------------- events --------------------------------- *)
Span(x, y) == <<x[1], x[2], x[3], y[2], y[3]>>
span(verses_) ==
    IF verses_ = {} THEN <<>>
    ELSE IF FirstOf(verses_)[1] # LastOf(verses_)[1]
    THEN Span(FirstOf(verses_), FirstOf(verses_))
    ELSE Span(FirstOf(verses_), LastOf(verses_))

(* The next verse, or the beginning of the next chapter. *)
_adjacent(x, y) ==
    /\ x[1] = y[1]
    /\ \/ x[2] = y[2] /\ y[3] = x[3] + 1
       \/ y[2] = x[2] + 1 /\ y[3] <= 1

Offset(x, y) == <<y[1], y[2] - x[2], y[3] - x[3]>>
_delta(r) == Offset(FirstOf(r.Ap), FirstOf(r.Bp))

Family(type) ==
    CASE type \in {"RENUMBER", "VERSE0_TITLE"} -> "shift"
      [] type \in {"CHAPTER_MOVE", "CROSS_BOOK"} -> "move"
      [] type = "ORDER_INVERSION" -> "inv"
      [] OTHER -> "none"
Simple(r) == r.rel = <<1, 1>> /\ Family(r.type) # "none"

(* A relation goes to the group of the one before it. *)
Joins(p, r) ==
    \/ /\ Simple(p) /\ Simple(r)
       /\ Family(p.type) = Family(r.type) /\ _delta(p) = _delta(r)
       /\ _adjacent(FirstA(p), FirstA(r))
       /\ Family(r.type) = "shift" => FirstA(p)[2] = FirstA(r)[2]
    \/ /\ ~ Simple(p) /\ ~ Simple(r)
       /\ p.type = r.type /\ p.rel = r.rel /\ p.flags = r.flags /\ p.warn = r.warn
       /\ _adjacent(LastOf(p.Ap), FirstA(r))

(* Relations one side of which is absent: where they are, what is missing. *)
AnchorSide(r) == IF r.A # {} THEN "A" ELSE "B"
AnchorVerses(r) == IF r.A # {} THEN r.A ELSE r.B
Missing(r) == IF r.Ap = {} THEN "A" ELSE "B"

LoneJoins(p, r) ==
    /\ p.type = r.type /\ AnchorSide(p) = AnchorSide(r) /\ Missing(p) = Missing(r)
    /\ _adjacent(LastOf(AnchorVerses(p)), FirstOf(AnchorVerses(r)))

(* The groups of a sequence, some places of which join the group before. *)
Groups(seq, joining) ==
    LET Take(groups, i) ==
            IF i \in joining
            THEN [groups EXCEPT ![Len(groups)] = Append(@, seq[i])]
            ELSE Append(groups, <<seq[i]>>)
        groups[k \in 0 .. Len(seq)] ==
            IF k = 0 THEN <<>> ELSE Take(groups[k - 1], k)
    IN  groups[Len(seq)]

(* The most specific type in a group, or that of its first relation. *)
_flush_group(group) ==
    LET ranked == <<"ORDER_INVERSION", "CROSS_BOOK", "CHAPTER_MOVE", "VERSE0_TITLE">>
        there == {i \in DOMAIN ranked : \E r \in ToSet(group) : r.type = ranked[i]}
    IN  IF there = {} THEN Head(group).type ELSE ranked[Min(there)]

(* An event stands for the present verses of its relations, or for those that *)
(* are listed if none is present; of names the relations.                     *)
emit(type, group) ==
    LET of == ToSet(group)
        Or(x, y) == IF x = {} THEN y ELSE x
        as == Or(UNION {r.Ap : r \in of}, UNION {r.A : r \in of})
        bs == Or(UNION {r.Bp : r \in of}, UNION {r.B : r \in of})
    IN  [type |-> type, a |-> span(as), o |-> span(UNION {r.O : r \in of}),
         b |-> span(bs), n |-> Max({Cardinality(as), Cardinality(bs)}), of |-> of]

Typed == {r \in relations : r.type # Same}

PairedGroups ==
    LET both == ByFirstA(Paired(Typed))
    IN  Groups(both, {i \in 2 .. Len(both) : Joins(both[i - 1], both[i])})

Lone(side) == {r \in Typed \ Paired(Typed) : AnchorSide(r) = side}
LoneGroups(side) ==
    LET lone == Ordered(Lone(side), [r \in Lone(side) |-> FirstOf(AnchorVerses(r))])
    IN  Groups(lone, {i \in 2 .. Len(lone) : LoneJoins(lone[i - 1], lone[i])})

RelationEvents ==
    LET both == PairedGroups
        alone == LoneGroups("A") \o LoneGroups("B")
    IN  [i \in DOMAIN both |-> emit(_flush_group(both[i]), both[i])]
            \o [i \in DOMAIN alone |-> emit(alone[i][1].type, alone[i])]

(* The present verses a verse of A corresponds to, of B. *)
a_to_b(x) == UNION {r.Bp : r \in {y \in relations : x \in y.Ap}}
b_to_a(x) == UNION {r.Ap : r \in {y \in relations : x \in y.Bp}}

BridgeSet(bridge) ==
    {<<bridge.book, bridge.chapter, v>> : v \in bridge.lo .. bridge.hi}

(* A bridge of a side with no bridge of the other over its counterparts, as   *)
(* often as the scheme lists it.                                             *)
BridgeEvents(side) ==
    LET mine == IF side = "A" THEN A.bridges ELSE B.bridges
        others == {BridgeSet(k) : k \in ToSet(IF side = "A" THEN B.bridges ELSE A.bridges)}
        Counterpart(bridge) ==
            UNION {IF side = "A" THEN a_to_b(x) ELSE b_to_a(x) : x \in BridgeSet(bridge)}
        lonely == Pick(mine, {i \in DOMAIN mine :
                    Counterpart(mine[i]) = {} \/ Counterpart(mine[i]) \notin others})
        Event(as, bs, n) == [type |-> "BRIDGE", a |-> span(as), o |-> <<>>,
                             b |-> span(bs), n |-> n, of |-> {}]
        Of(bridge) == IF side = "A"
            THEN Event(BridgeSet(bridge), Counterpart(bridge), Cardinality(BridgeSet(bridge)))
            ELSE Event(Counterpart(bridge), BridgeSet(bridge), Cardinality(BridgeSet(bridge)))
    IN  [i \in DOMAIN lonely |-> Of(lonely[i])]

SegmentsOf(scheme, x) == {s[2] : s \in {y \in scheme.segments : y[1] = x}}

(* Corresponding verses that are cut into different parts. *)
SegmentEvents ==
    LET pairs == {p \in UNION {r.Ap \X r.Bp : r \in relations} :
                    SegmentsOf(A, p[1]) # SegmentsOf(B, p[2])}
        differ == InOrder(pairs, {q \in pairs \X pairs :
                    \/ Before(q[1][1], q[2][1])
                    \/ q[1][1] = q[2][1] /\ Before(q[1][2], q[2][2])})
        Event(p) == [type |-> "SEGMENT", a |-> span({p[1]}), o |-> <<>>,
                     b |-> span({p[2]}), n |-> 1, of |-> {}]
    IN  [i \in DOMAIN differ |-> Event(differ[i])]

Total(numbers) ==
    LET total[i \in 0 .. Len(numbers)] ==
            IF i = 0 THEN 0 ELSE total[i - 1] + numbers[i]
    IN  total[Len(numbers)]

(* Mutant of FoldBook: the one-sided events of every book are taken. *)
FoldAnyBook(evs, scheme, side, book) ==
    LET Key(e) == IF side = "A" THEN e.a ELSE e.b
        mine == {i \in DOMAIN evs : /\ evs[i].type = "ONE_SIDED" /\ Key(evs[i]) # <<>>}
        chapters == scheme.max[book]
        covered == Pick(evs, mine)
        n == Total([i \in DOMAIN covered |-> covered[i].n])
        whole == <<book, 1, 1, Len(chapters), Last(chapters)>>
    IN  IF Total(chapters) = 0 \/ 2 * n < Total(chapters) THEN evs
        ELSE Append(Pick(evs, DOMAIN evs \ mine),
                    [type |-> "BOOK_ONE_SIDED", n |-> Total(chapters), o |-> <<>>,
                     a |-> IF side = "A" THEN whole ELSE <<>>,
                     b |-> IF side = "B" THEN whole ELSE <<>>, of |-> {}])

(* A book of one side only, at least half of it in one-sided events: one     *)
(* event for the book in their place.                                        *)
FoldBook(evs, scheme, side, book) ==
    LET Key(e) == IF side = "A" THEN e.a ELSE e.b
        mine == {i \in DOMAIN evs : /\ evs[i].type = "ONE_SIDED" /\ Key(evs[i]) # <<>>
                                   /\ Key(evs[i])[1] = book}
        chapters == scheme.max[book]
        covered == Pick(evs, mine)
        n == Total([i \in DOMAIN covered |-> covered[i].n])
        whole == <<book, 1, 1, Len(chapters), Last(chapters)>>
    IN  IF Total(chapters) = 0 \/ 2 * n < Total(chapters) THEN evs
        ELSE Append(Pick(evs, DOMAIN evs \ mine),
                    [type |-> "BOOK_ONE_SIDED", n |-> Total(chapters), o |-> <<>>,
                     a |-> IF side = "A" THEN whole ELSE <<>>,
                     b |-> IF side = "B" THEN whole ELSE <<>>, of |-> {}])

FoldBooks(evs, scheme, side, books) ==
    LET folded[k \in 0 .. Len(books)] ==
            IF k = 0 THEN evs ELSE FoldBook(folded[k - 1], scheme, side, books[k])
    IN  folded[Len(books)]

_fold_book_one_sided(evs) ==
    LET onlyA == Increasing(DOMAIN A.max \ DOMAIN B.max)
        onlyB == Increasing(DOMAIN B.max \ DOMAIN A.max)
    IN  FoldBooks(FoldBooks(evs, A, "A", onlyA), B, "B", onlyB)

-----------------------------------------------------------------------------
(* --------------------------------- runs ---------------------------------- *)
OneEach(r) == \A verses_ \in {r.A, r.O, r.B} : Cardinality(verses_) = 1
_offset(r, verses_) == Offset(FirstOf(r.A), FirstOf(verses_))

(* Mutant of Extends: the offset to B is not compared. *)
ExtendsAnyB(row, r) ==
    /\ OneEach(r) /\ row.simple /\ row.t = r.etype
    /\ _offset(r, r.O) = row.dO
    /\ LastOf(row.A)[1] = FirstOf(r.A)[1] /\ LastOf(row.A)[2] = FirstOf(r.A)[2]
    /\ FirstOf(r.A)[3] = LastOf(row.A)[3] + 1

(* The relation is one verse further on every axis. *)
Extends(row, r) ==
    /\ OneEach(r) /\ row.simple /\ row.t = r.etype
    /\ _offset(r, r.O) = row.dO /\ _offset(r, r.B) = row.dB
    /\ LastOf(row.A)[1] = FirstOf(r.A)[1] /\ LastOf(row.A)[2] = FirstOf(r.A)[2]
    /\ FirstOf(r.A)[3] = LastOf(row.A)[3] + 1

Row(r) ==
    [A |-> r.A, O |-> r.O, B |-> r.B, t |-> r.etype, simple |-> OneEach(r),
     dO |-> IF OneEach(r) THEN _offset(r, r.O) ELSE <<>>,
     dB |-> IF OneEach(r) THEN _offset(r, r.B) ELSE <<>>,
     exA |-> r.A # r.Ap, exB |-> r.B # r.Bp]

Lengthened(row, r) == [row EXCEPT !.A = @ \cup r.A, !.O = @ \cup r.O, !.B = @ \cup r.B]

(* A relation lengthens the last row or begins one.  The marks of excluded   *)
(* verses are those of the first relation of a row.                          *)
TakeRow(rows, r) ==
    IF rows # <<>> /\ Extends(Last(rows), r)
    THEN [rows EXCEPT ![Len(rows)] = Lengthened(Last(rows), r)]
    ELSE Append(rows, Row(r))

Rows ==
    LET ordered == Ordered(relations, [r \in relations |-> FirstOf(AnchorVerses(r))])
        rows[k \in 0 .. Len(ordered)] ==
            IF k = 0 THEN <<>> ELSE TakeRow(rows[k - 1], ordered[k])
    IN  rows[Len(ordered)]

build_runs ==
    LET rows == Rows
    IN  [i \in DOMAIN rows |->
            [a |-> span(rows[i].A), o |-> span(rows[i].O), b |-> span(rows[i].B),
             t |-> rows[i].t, exA |-> rows[i].exA, exB |-> rows[i].exB]]

-----------------------------------------------------------------------------
Init ==
    /\ left \in Sides /\ right \in Sides /\ root \in Orgs
    /\ stage = "loading"
    /\ A = NoScheme /\ B = NoScheme /\ org = NoScheme
    /\ relations = {} /\ events = <<>> /\ runs = <<>>

(* load_side twice and load_org, which takes no text and no supplement. *)
Load ==
    /\ stage = "loading"
    /\ A' = apply_text_facts(load_scheme(left.doc), left.spans)
    /\ B' = apply_text_facts(load_scheme(right.doc), right.spans)
    /\ org' = load_scheme([root EXCEPT !.vrs = {}, !.has_vrs = FALSE])
    /\ stage' = "composing"
    /\ UNCHANGED <<inputs, relations, events, runs>>

Compose ==
    /\ stage = "composing"
    /\ relations' = compose_schemes(A, B, org)
    /\ stage' = "events"
    /\ UNCHANGED <<inputs, schemes, events, runs>>

(* Every relation of a group is drawn as the group's event is. *)
BuildEvents ==
    LET Etype(r) == LET of == {e \in ToSet(RelationEvents) : r \in e.of}
                    IN  IF of = {} THEN r.type ELSE (CHOOSE e \in of : TRUE).type
    IN  /\ stage = "events"
        /\ events' = _fold_book_one_sided(
                RelationEvents \o BridgeEvents("A") \o BridgeEvents("B")
                \o SegmentEvents)
        /\ relations' = {[r EXCEPT !.etype = Etype(r)] : r \in relations}
        /\ stage' = "runs"
        /\ UNCHANGED <<inputs, schemes, runs>>

BuildRuns ==
    /\ stage = "runs"
    /\ runs' = build_runs
    /\ stage' = "encoding"
    /\ UNCHANGED <<inputs, schemes, relations, events>>

Next == Load \/ Compose \/ BuildEvents \/ BuildRuns

Spec == Init /\ [][Next]_vars

-----------------------------------------------------------------------------
TYPE_IDS == {"VERSE0_TITLE", "BRIDGE", "RENUMBER", "MERGE", "SPLIT", "SEGMENT",
             "CHAPTER_MOVE", "ORDER_INVERSION", "CROSS_BOOK", "EXCLUDED",
             "ONE_SIDED", "BOOK_ONE_SIDED"}

(* Shape of the state.  Edges start at verses and end at no title, every     *)
(* event and every row has a side to be drawn on.                            *)
TypeOK ==
    /\ left \in Sides /\ right \in Sides /\ root \in Orgs /\ stage \in STAGES
    /\ stage = "composing" => \A s \in {A, B, org} : \A e \in s.edges :
            e[2][3] # 0 /\ (e[1][3] = 0 \/ _exists(s.max, e[1])
                           \/ e[1][1] \notin DOMAIN s.max)
    /\ \A r \in relations : {r.type, r.etype} \subseteq TYPE_IDS \cup {Same}
    /\ \A e \in ToSet(events) :
            e.type \in TYPE_IDS /\ e.n > 0 /\ {e.a, e.b} # {<<>>}
    /\ \A row \in ToSet(runs) :
            row.t \in TYPE_IDS \cup {Same} /\ {row.a, row.b} # {<<>>}

Listed(Part(_)) == UNION {Part(r) : r \in relations}

(* A verse is left out of a report only as the alternate form of a book whose *)
(* verses, already paired, have no counterpart over: neither the union of org *)
(* verses nor the split by books loses one.                                   *)
LeftOver(mine, other, listed, x) ==
    \E r \in {y \in relations : {} \notin {y.A, y.B}} :
        /\ r.O \cap OrgOf(mine, org, x) # {}
        /\ \A y \in verses(other) : OrgOf(other, org, y) \cap r.O # {} =>
                y[1] # x[1] /\ y \in listed

NoVerseLost ==
    LET listedA == Listed(LAMBDA r : r.A)
        listedB == Listed(LAMBDA r : r.B)
    IN  stage = "events" =>
            /\ \A x \in verses(A) \ listedA : LeftOver(A, B, listedB, x)
            /\ \A x \in verses(B) \ listedB : LeftOver(B, A, listedA, x)

(* Every relation that differs is in exactly one event, or in the event of a *)
(* book of one side only; relations that agree are in none.  The event of    *)
(* the book is that of the relation, unless relations of one side have       *)
(* verses of several books: their group is told under its first book.        *)
EveryDivergenceReported ==
    LET several == \E r \in relations : r.type = "ONE_SIDED"
                        /\ \E x, y \in r.A \cup r.B : x[1] # y[1]
        BookTold(r) == \E e \in ToSet(events) :
            /\ e.type = "BOOK_ONE_SIDED"
            /\ several \/ (e.a \o e.b)[1] = FirstOf(AnchorVerses(r))[1]
    IN  stage = "runs" => \A r \in relations :
        LET own == {i \in DOMAIN events :
                        [r EXCEPT !.etype = r.type] \in events[i].of}
        IN  IF r.type = Same THEN own = {}
            ELSE \/ Cardinality(own) = 1
                 \/ own = {} /\ r.type = "ONE_SIDED" /\ BookTold(r)

Ascending(rs) == \A x, y \in rs :
    Before(FirstA(x), FirstA(y)) => ~ Before(FirstOf(y.Bp), FirstOf(x.Bp))

(* doc/divergence-engine.md:46: what is off the longest increasing           *)
(* subsequence is an inversion.  What stays in order is in order, and no     *)
(* choice of fewer inversions in the book would be.                          *)
InversionsAreFewest ==
    stage = "events" => \A k \in {FirstA(r)[1] : r \in Paired(relations)} :
        LET of == ToSet(OfBook(relations, k))
            kept == {r \in of : r.type # "ORDER_INVERSION"}
        IN  /\ Ascending(kept)
            /\ \A rs \in SUBSET of :
                    Ascending(rs) => Cardinality(rs) <= Cardinality(kept)

(* The runs tell every relation: one row, and only one, has its span on      *)
(* every axis, or has its verses at the same distance from its beginning, and *)
(* its type.  A row with the span of a relation of several verses tells that *)
(* one only: its span may take in verses of others, between its own.         *)
Spans(row, r) ==
    row.t = r.etype /\ row.a = span(r.A) /\ row.o = span(r.O) /\ row.b = span(r.B)
Nth(sp, k) == <<sp[1], sp[2], sp[3] + k>>
Tells(row, r) ==
    \/ Spans(row, r)
    \/ /\ OneEach(r) /\ row.t = r.etype /\ <<>> \notin {row.a, row.o, row.b}
       /\ \E k \in 0 .. (row.a[5] - row.a[3]) :
            /\ r.A = {Nth(row.a, k)} /\ r.O = {Nth(row.o, k)}
            /\ r.B = {Nth(row.b, k)}
       /\ \A s \in relations : Spans(row, s) => OneEach(s)

RunsDecode ==
    stage = "encoding" => \A r \in relations :
        Cardinality({i \in DOMAIN runs : Tells(runs[i], r)}) = 1

(* A side compared with itself differs in nothing, whatever it maps, leaves  *)
(* out or stores, but for bridges and parts, which are compared by verse.    *)
SelfComparisonIsSilent ==
    left = right => \A e \in ToSet(events) :
        e.type \in {"BRIDGE", "SEGMENT"} /\ e.of = {}

Turned(type) ==
    CASE type = "MERGE" -> "SPLIT" [] type = "SPLIT" -> "MERGE" [] OTHER -> type
Mirrored(r) ==
    [A |-> r.B, O |-> r.O, B |-> r.A, Ap |-> r.Bp, Bp |-> r.Ap,
     rel |-> <<r.rel[2], r.rel[1]>>, type |-> Turned(r.type),
     etype |-> Turned(r.etype), flags |-> r.flags, warn |-> r.warn]

Inversions(rs) == Cardinality({r \in rs : r.type = "ORDER_INVERSION"})

(* schedule_precompute stores both directions of a pair: the first pass finds *)
(* the same relations either way, merges as splits, unless both sides of what *)
(* is joined are in several books of which none is shared (those are split by *)
(* the books of the side called A); if no book is left for another, as many   *)
(* relations are out of order.                                                *)
Crossed(component) ==
    LET Books(side) == BooksOf({n[2] : n \in {x \in component : x[1] = side}})
    IN  /\ Cardinality(Books("A")) > 1 /\ Cardinality(Books("B")) > 1
        /\ Books("A") \cap Books("B") = {}
MirrorAgrees ==
    LET there == FirstPass(A, B, org)
        back == FirstPass(B, A, org)
    IN  stage = "events" /\ (\A c \in Components(A, B, org) : ~ Crossed(c)) =>
            /\ {Mirrored(r) : r \in there} = back
            /\ (\A r \in there : Cardinality(BooksOf(r.Ap \cup r.Bp)) <= 1)
                    => Inversions(classify(there)) = Inversions(classify(back))
=============================================================================
