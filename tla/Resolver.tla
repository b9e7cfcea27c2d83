------------------------------ MODULE Resolver ------------------------------
(* One call of resolve() (resolver/resolve.py): the members of a reference   *)
(* go up the source chain to the pivot numbering and down the target chain.  *)
(* assemble() decides between an atomic answer, a range hull                 *)
(* (resolver/range_hull.py) and the connected hull, which build_hull grows   *)
(* with a worklist.  The loop takes nodes in the order Python's sets give    *)
(* them, and so do the loops over the pivots: both orders depend on string   *)
(* hashes that change with every process, and are left open here.            *)
EXTENDS VerseMapping

CONSTANTS
    Verses,         \* every coordinate of the numberings involved
    MemberSets,     \* what a reference expands to: sets of verses
    Chains          \* hops up to the shared ancestor and down from it

(* Both ranges of a mapping row are references to verses of the numberings,  *)
(* only an excluded row or a merge has no base, and only a row that leads    *)
(* nowhere else is one_to_one (derive_mapping_records, classify_mapped).     *)
RangeOK(r) ==
    /\ r.lo \in Nat /\ r.hi \in Nat /\ r.lo <= r.hi
    /\ \A x \in Verses : expand(r, x.part) \subseteq Verses

RowOK(row) ==
    /\ row.relation \in Relations
    /\ row.source # None /\ RangeOK(row.source)
    /\ IF row.base = None THEN row.relation \in {"exclude", "merge"}
       ELSE row.relation # "exclude" /\ RangeOK(row.base)
    /\ row.relation = "one_to_one" => row.base = row.source

RowsOK(rows) ==
    /\ rows \in Seq(ToSet(rows))
    /\ \A i \in DOMAIN rows : RowOK(rows[i])

HopsOK(hops) ==
    /\ hops \in Seq(ToSet(hops))
    /\ \A k \in DOMAIN hops : RowsOK(hops[k])

(* The members of a reference share its part. *)
MembersOK(members) ==
    /\ members # {} /\ members \subseteq Verses
    /\ \A x, y \in members : x.part = y.part

Dtos == [sources : SUBSET Verses, targets : SUBSET Verses,
         relation : Relations \cup {"complex", "range"},
         edges : SUBSET [source : Verses, target : Verses, relation : Relations],
         source_rel : Relations \cup {"range", None},
         target_rel : Relations \cup {"range", None}]

ASSUME CallsAssumption ==
    /\ None \notin Dtos \cup {"trigger", "atomic", "range"}
    /\ IsFiniteSet(Verses)
    /\ \A x \in Verses :
            x = VerseId(x.c, x.v, x.part) /\ x.c \in Nat /\ x.v \in Nat
    /\ \A members \in MemberSets : MembersOK(members)
    /\ \A chain \in Chains :
            /\ {"srcHops", "tgtHops"} = DOMAIN chain
            /\ HopsOK(chain.srcHops) /\ HopsOK(chain.tgtHops)

VARIABLES
    query,      \* the call being answered
    pc,         \* "assemble", "hull" (in build_hull's loop) or "done"
    trigger,    \* the range trigger of assemble, or None
    caller,     \* who called build_hull: "trigger", "atomic", or None
    worklist, seen,     \* build_hull's: sets of nodes [kind, verse]
    result              \* the ResolutionDTO returned, None before

vars == <<query, pc, trigger, caller, worklist, seen, result>>

Node(kind, verses) == {[kind |-> kind, verse |-> x] : x \in verses}
OfKind(kind) == {n.verse : n \in {m \in seen : m.kind = kind}}

Dto(sources, targets, relation, edges, sourceRel, targetRel) ==
    [sources |-> sources, targets |-> targets, relation |-> relation,
     edges |-> edges, source_rel |-> sourceRel, target_rel |-> targetRel]

Plain(sources, targets, relation) ==
    Dto(sources, targets, relation, {}, None, None)

Edge(source, target, relation) ==
    [source |-> source, target |-> target, relation |-> relation]

-----------------------------------------------------------------------------
(* The walk of some source verses through both chains. *)
Walk(verses) ==
    LET Joined(up, down) ==
            [targets |-> down.verses, siblings |-> up.siblings,
             up_rel |-> up.relation, down_rel |-> down.relation,
             composed |-> compose(up.relation, down.relation),
             dropped |-> \/ up.excluded /\ up.verses = {}
                         \/ down.excluded /\ down.verses = {}]
        Down(up) == Joined(up, apply_hops(up.verses, query.tgtHops, FALSE))
    IN  Down(apply_hops(verses, query.srcHops, TRUE))

Fans(walk) == {walk.up_rel, walk.down_rel} \cap {"split", "merge"} # {}

(* --------------------- the atomic answer (_atomic_result) ---------------- *)
(* None stands for the calls of build_hull. *)
_atomic_result ==
    LET members == query.members
        one(S) == Cardinality(S) = 1
        Answer(walks) ==
            LET kept == {m \in members : ~ walks[m].dropped}
                relations == {IF m \in kept THEN walks[m].composed
                              ELSE "exclude" : m \in members}
                sources == members \cup UNION {walks[m].siblings : m \in members}
                targets == UNION {walks[m].targets : m \in kept}
                manyToMany == \E m \in kept :
                    \/ Fans(walks[m])
                    \/ /\ ~ one({m} \cup walks[m].siblings)
                       /\ Cardinality(walks[m].targets) > 1
            IN  IF manyToMany THEN None
                ELSE IF relations = {"exclude"} THEN Plain(sources, {}, "exclude")
                ELSE IF ~ one(relations) \/ ~ is_contiguous(sources)
                        \/ ~ is_contiguous(targets) THEN None
                ELSE Plain(sources, targets,
                        IF one(sources) /\ Cardinality(targets) > 1 THEN "split"
                        ELSE IF ~ one(sources) /\ one(targets) THEN "merge"
                        ELSE CHOOSE r \in relations : TRUE)
    IN  Answer([m \in members |-> Walk({m})])

(* A 1-1 answer on its own coordinate is no shift and no renumber. *)
normalize_same_bcv(dto) ==
    IF /\ dto.relation \in {"shift", "renumber"}
       /\ dto.sources = dto.targets /\ Cardinality(dto.sources) = 1
    THEN [dto EXCEPT !.relation = "one_to_one"] ELSE dto

(* ------------------------ the range hull (range_hull) -------------------- *)
(* The verses a chain is entered with at each hop. *)
Levels(verses, hops, upward) ==
    [k \in DOMAIN hops |->
        apply_hops(verses, SubSeq(hops, 1, k - 1), upward).verses]

(* The unequal rows met on the way, each with the place it was met at. *)
TriggerCandidates(verses, hops, upward, side) ==
    LET level == Levels(verses, hops, upward)
        Met(k) == {find_covering_record(hops[k], x, upward) : x \in level[k]}
    IN  UNION {{[side |-> side, hop |-> k, ordinal |-> i,
                 cover |-> unequal_zip_cover(hops[k][i], upward)] :
                    i \in {j \in Met(k) \ {0} :
                            unequal_zip_cover(hops[k][j], upward) # None}} :
                k \in DOMAIN hops}

(* The narrowest cover; then the ordinal, the source side, and the hop       *)
(* nearest to the query on that side.                                        *)
find_range_trigger(q) ==
    LET pivots == apply_hops(q.members, q.srcHops, TRUE).verses
        candidates ==
            TriggerCandidates(q.members, q.srcHops, TRUE, "source")
            \cup TriggerCandidates(pivots, q.tgtHops, FALSE, "target")
        Order(t) == <<width(t.cover), t.ordinal,
                      IF t.side = "source" THEN 0 ELSE 1,
                      IF t.side = "source" THEN t.hop ELSE 0 - t.hop>>
        Less(a, b) == \E k \in 1 .. 4 :
                        /\ a[k] < b[k]
                        /\ \A j \in 1 .. (k - 1) : a[j] = b[j]
    IN  IF candidates = {} \/ \E m \in q.members : m.part # None THEN None
        ELSE CHOOSE t \in candidates : \A u \in candidates \ {t} :
                Less(Order(t), Order(u))

(* The trigger's cover in query-side coordinates. *)
_participants_for_trigger ==
    LET cover == expand(trigger.cover, None)
        pivots == UNION {piv_of_target(x, SubSeq(query.tgtHops, 1,
                                                 trigger.hop - 1)) : x \in cover}
    IN  IF trigger.side = "source"
        THEN UNION {src_of_pivot(x, SubSeq(query.srcHops, 1, trigger.hop - 1)) :
                        x \in cover}
        ELSE UNION {src_of_pivot(p, query.srcHops) : p \in pivots}

(* Fan-out away from the two ends, unless it stays on the source climb of a  *)
(* source-side trigger.                                                      *)
_interior_requires_complex(walks, interior) ==
    \E s \in interior :
        \/ Cardinality(walks[s].targets) > 1
        \/ walks[s].down_rel \in {"split", "merge"}
        \/ walks[s].up_rel \in {"split", "merge"} /\ trigger.side # "source"

(* The answer of build_range_hull; None when it declines. *)
build_range_hull ==
    LET Answer(sources, walks) ==
            LET targets == UNION {walks[s].targets : s \in sources}
                sorted == sort_verses(sources)
                corners == {sorted[1], sorted[Len(sorted)]}
                complex ==
                    \/ \E s \in corners : Fans(walks[s])
                                          \/ Cardinality(walks[s].targets) > 1
                    \/ _interior_requires_complex(walks, sources \ corners)
                edges == UNION {{Edge(s, t, walks[s].composed) :
                                    t \in walks[s].targets} : s \in corners}
                up   == dominant_relation({walks[s].up_rel : s \in sources})
                down == dominant_relation({walks[s].down_rel : s \in sources})
            IN  IF \/ Cardinality(sources) < 2
                   \/ ~ (query.members \subseteq sources)
                   \/ \E s \in sources : walks[s].dropped
                   \/ targets = {}
                   \/ Cardinality(sources) = Cardinality(targets) /\ ~ complex
                THEN None
                ELSE IF ~ complex
                THEN Dto(sources, targets, "range", edges, None, None)
                ELSE IF trigger.side = "source"
                THEN Dto(sources, targets, "complex", edges, "range", down)
                ELSE Dto(sources, targets, "complex", edges, up, "range")
        For(sources) == Answer(sources, [s \in sources |-> Walk({s})])
    IN  For(_participants_for_trigger)

(* ---------------------- the connected hull (build_hull) ------------------ *)
(* Mutants of Neighbours: the climb is never inverted; a target climbs the   *)
(* hops in the order they are descended.                                     *)
NeighboursForwardOnly(n) ==
    IF n.kind = "source" THEN Node("pivot", up_set(n.verse, query.srcHops))
    ELSE IF n.kind = "pivot"
         THEN Node("target", down_set(n.verse, query.tgtHops))
    ELSE Node("pivot", piv_of_target(n.verse, query.tgtHops))
NeighboursNotReversed(n) ==
    IF n.kind = "source" THEN Node("pivot", up_set(n.verse, query.srcHops))
    ELSE IF n.kind = "pivot"
         THEN Node("source", src_of_pivot(n.verse, query.srcHops))
              \cup Node("target", down_set(n.verse, query.tgtHops))
    ELSE Node("pivot", up_set(n.verse, query.tgtHops))

(* What popping a node puts on the worklist. *)
Neighbours(n) ==
    IF n.kind = "source" THEN Node("pivot", up_set(n.verse, query.srcHops))
    ELSE IF n.kind = "pivot"
         THEN Node("source", src_of_pivot(n.verse, query.srcHops))
              \cup Node("target", down_set(n.verse, query.tgtHops))
    ELSE Node("pivot", piv_of_target(n.verse, query.tgtHops))

(* The answer once the loop is over, the pivots taken in the given order: the *)
(* first pivot that links a source with a target names their relation.       *)
HullAnswer(order) ==
    LET S == OfKind("source")
        T == OfKind("target")
        linked == [i \in DOMAIN order |->
                    (src_of_pivot(order[i], query.srcHops) \cap S)
                        \X (down_set(order[i], query.tgtHops) \cap T)]
        LegsOf(links) ==
            [x \in UNION ToSet(links) |->
                LET first == Min({i \in DOMAIN links : x \in links[i]})
                IN  edge_legs(x[1], order[first], x[2],
                              query.srcHops, query.tgtHops)]
        Complex(legs) ==
            Dto(S, T, "complex",
                {Edge(x[1], x[2], legs[x].composed) : x \in DOMAIN legs},
                dominant_relation({legs[x].up : x \in DOMAIN legs}),
                dominant_relation({legs[x].down : x \in DOMAIN legs}))
    IN  IF T = {} THEN Plain(S, {}, "exclude")
        ELSE IF Cardinality(S) = 1 /\ Cardinality(T) = 1
        THEN Plain(S, T, edge_legs(CHOOSE s \in S : TRUE, order[1],
                                   CHOOSE t \in T : TRUE,
                                   query.srcHops, query.tgtHops).composed)
        ELSE IF Cardinality(S) = 1 THEN Plain(S, T, "split")
        ELSE IF Cardinality(T) = 1 THEN Plain(S, T, "merge")
        ELSE Complex(LegsOf(linked))

-----------------------------------------------------------------------------
Init ==
    /\ \E members \in MemberSets, chain \in Chains :
          query = [members |-> members, srcHops |-> chain.srcHops,
                   tgtHops |-> chain.tgtHops]
    /\ pc = "assemble"
    /\ trigger = None /\ caller = None
    /\ worklist = {} /\ seen = {}
    /\ result = None

Return(dto) ==
    /\ pc' = "done"
    /\ result' = dto
    /\ UNCHANGED <<caller, worklist, seen>>

(* Mutant of CallBuildHull: only one verse of a range seeds the hull. *)
CallBuildHullFirst(by) ==
    /\ pc' = "hull" /\ caller' = by
    /\ worklist' = Node("source", {CHOOSE m \in query.members : TRUE})
    /\ seen' = {}
    /\ UNCHANGED result

CallBuildHull(by) ==
    /\ pc' = "hull" /\ caller' = by
    /\ worklist' = Node("source", query.members)
    /\ seen' = {}
    /\ UNCHANGED result

(* The atomic path, which may itself call build_hull. *)
Atomic ==
    IF _atomic_result = None THEN CallBuildHull("atomic")
    ELSE Return(normalize_same_bcv(_atomic_result))

(* assemble: the range trigger decides the path. *)
Assemble ==
    /\ pc = "assemble"
    /\ trigger' = find_range_trigger(query)
    /\ IF trigger' # None THEN CallBuildHull("trigger") ELSE Atomic
    /\ UNCHANGED query

(* Mutant of PopNode: a node already seen is expanded again. *)
PopNodeAgain(n) ==
    /\ pc = "hull" /\ n \in worklist
    /\ seen' = seen \cup {n}
    /\ worklist' = (worklist \ {n}) \cup Neighbours(n)
    /\ UNCHANGED <<query, pc, trigger, caller, result>>

(* One turn of build_hull's loop. *)
PopNode(n) ==
    /\ pc = "hull" /\ n \in worklist
    /\ IF n \in seen
       THEN worklist' = worklist \ {n} /\ UNCHANGED seen
       ELSE /\ seen' = seen \cup {n}
            /\ worklist' = (worklist \ {n}) \cup Neighbours(n)
    /\ UNCHANGED <<query, pc, trigger, caller, result>>

(* What assemble makes of the hull: with a trigger, a hull that is not        *)
(* complex gives way to the range hull.  None: build_range_hull declines and *)
(* the atomic path is taken.                                                 *)
HullReturn(order) ==
    LET Taken(hull) == IF caller = "atomic" THEN normalize_same_bcv(hull)
                       ELSE IF hull.relation = "complex" THEN hull
                       ELSE build_range_hull
    IN  Taken(HullAnswer(order))

(* The loop is over: the answer goes back to the caller. *)
FinishHull(order) ==
    /\ pc = "hull" /\ worklist = {}
    /\ IF caller = "trigger" /\ HullReturn(order) = None THEN Atomic
       ELSE Return(HullReturn(order))
    /\ UNCHANGED <<query, trigger>>

(* The relation a response gets (ports/resolver_port.py) once spans that are *)
(* one stored row have been taken together.                                  *)
Coordinates(spans) == {VerseId(x.c, x.v, x.part) : x \in spans}

_relation_after_dedupe(sources, targets, relation) ==
    LET s == Cardinality(sources)
        t == Cardinality(targets)
    IN  CASE relation = "complex"          -> "complex"
          [] relation # "complex" /\ t = 0 -> "exclude"
          [] relation # "complex" /\ s = 1 /\ t = 1 ->
                IF Coordinates(sources) = Coordinates(targets)
                THEN "one_to_one" ELSE relation
          [] relation # "complex" /\ s > 1 /\ t = 1 -> "merge"
          [] relation # "complex" /\ s = 1 /\ t > 1 -> "split"
          [] OTHER -> relation

Orders == LET P == OfKind("pivot")
          IN  {o \in [1 .. Cardinality(P) -> P] : ToSet(o) = P}

Next ==
    \/ Assemble
    \/ \E n \in worklist : PopNode(n)
    \/ \E order \in Orders : FinishHull(order)

Spec == Init /\ [][Next]_vars

-----------------------------------------------------------------------------
(* The answer as a response shows it, for translations that store every      *)
(* verse by itself.                                                          *)
Public(dto) ==
    IF dto = None THEN None
    ELSE [dto EXCEPT !.relation =
            _relation_after_dedupe(dto.sources, dto.targets, dto.relation)]

LoopOver == pc = "hull" /\ worklist = {}

(* Shape of the state and of the answer.  The coordinates never leave the    *)
(* numberings involved: pairing by index clamps inside the other range.      *)
(* (Idle: a caller has no call under way, ResolvePort.)                      *)
TypeOK ==
    pc # "idle" =>
        /\ MembersOK(query.members)
        /\ pc \in {"assemble", "hull", "done"}
        /\ caller \in {None, "trigger", "atomic"}
        /\ trigger # None => trigger.side \in {"source", "target"}
        /\ (caller = None) = (seen \cup worklist = {})
        /\ seen \cup worklist \subseteq
                [kind : {"source", "pivot", "target"}, verse : Verses]
        /\ (pc = "done") = (result # None)
        /\ result # None =>
                /\ result.relation \in Relations \cup {"complex", "range"}
                /\ result.sources \cup result.targets \subseteq Verses
                /\ result.edges \subseteq [source : result.sources,
                                          target : result.targets,
                                          relation : Relations]

(* build_hull collects the complete connected component: when its loop ends, *)
(* the query is in it, and every verse of it has its neighbours in it, in    *)
(* both directions along both chains, whatever order the loop took.          *)
HullClosed ==
    LoopOver =>
        /\ query.members \subseteq OfKind("source")
        /\ \A s \in OfKind("source") :
                up_set(s, query.srcHops) \subseteq OfKind("pivot")
        /\ \A p \in OfKind("pivot") :
                /\ src_of_pivot(p, query.srcHops) \subseteq OfKind("source")
                /\ down_set(p, query.tgtHops) \subseteq OfKind("target")
        /\ \A t \in OfKind("target") :
                piv_of_target(t, query.tgtHops) \subseteq OfKind("pivot")

(* What is reachable from the query in at most n hops of either chain. *)
ReachedIn(n) ==
    LET More(S) ==
            S \cup UNION {
                CASE x.kind = "source" ->
                        Node("pivot", up_set(x.verse, query.srcHops))
                  [] x.kind = "pivot" ->
                        Node("source", src_of_pivot(x.verse, query.srcHops))
                        \cup Node("target", down_set(x.verse, query.tgtHops))
                  [] x.kind = "target" ->
                        Node("pivot", piv_of_target(x.verse, query.tgtHops)) :
                x \in S}
        reach[k \in 0 .. n] == IF k = 0 THEN Node("source", query.members)
                               ELSE More(reach[k - 1])
    IN  reach[n]

(* ... and nothing else: when build_hull's loop ends it holds exactly what a  *)
(* breadth-first search from the query reaches, so that the spans of a hull  *)
(* do not depend on the order of its loop.  A walk carries the part along,   *)
(* so the number of verses bounds the depth of the search.                   *)
HullIsComponent ==
    LoopOver => seen = ReachedIn(3 * Cardinality({<<x.c, x.v>> : x \in Verses}))

(* A queried verse is always part of the answer, and when nothing on its     *)
(* climb is excluded, so is every verse it leads to: no path of assemble     *)
(* loses a counterpart.                                                      *)
NothingLost ==
    pc = "done" => \A m \in query.members :
        /\ m \in result.sources
        /\ ~ apply_hops({m}, query.srcHops, TRUE).excluded
                => Walk({m}).targets \subseteq result.targets

(* The connectors of a complex hull reach every target: none is shown        *)
(* detached, although a connector needs a pivot that inverts to a source.    *)
(* (A range hull has connectors at its first and last source only.)          *)
TargetsLinked ==
    pc = "done" /\ result.relation = "complex"
        /\ "range" \notin {result.source_rel, result.target_rel} =>
        \A t \in result.targets : \E e \in result.edges : e.target = t

(* A split or a merge is met on the way. *)
CombinedOn(verses, hops, upward) ==
    \E k \in DOMAIN hops : \E x \in Levels(verses, hops, upward)[k] :
        project_verse(x, hops[k], upward).relation \in {"split", "merge"}
Combined(q) ==
    \/ CombinedOn(q.members, q.srcHops, TRUE)
    \/ CombinedOn(apply_hops(q.members, q.srcHops, TRUE).verses, q.tgtHops, FALSE)

(* A single verse answered with a 1-1 relation has one source and one target *)
(* (merge siblings would contradict the relation), and it is reported as     *)
(* unmoved only when it is, or when what is split and merged on its path may *)
(* cancel.                                                                   *)
SingleVerseAnswer ==
    pc = "done" /\ Cardinality(query.members) = 1
        /\ result.relation \in {"one_to_one", "shift", "renumber", "partial"} =>
        /\ Cardinality(result.sources) = 1 /\ Cardinality(result.targets) = 1
        /\ result.relation = "one_to_one" =>
                result.sources = result.targets \/ Combined(query)

(* Every turn of build_hull's loop marks a node that was not, or takes one   *)
(* off the worklist and adds none: over finitely many coordinates it ends,   *)
(* although sources, pivots and targets keep putting each other back.        *)
LoopAdvances ==
    [][pc = "hull" /\ pc' = "hull" /\ caller' = caller =>
            \/ seen \subseteq seen' /\ seen' # seen
            \/ seen' = seen /\ worklist' \subseteq worklist
               /\ worklist' # worklist]_vars

(* The answer is a function of the call: when the loop ends, every order of   *)
(* the pivots gives the caller the same public answer.  An index row and a   *)
(* live resolve, computed by two processes, are then the same.               *)
AnswerIsFixed ==
    LoopOver => \A o1, o2 \in Orders :
        Public(HullReturn(o1)) = Public(HullReturn(o2))
=============================================================================
