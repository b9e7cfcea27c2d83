----------------------------- MODULE ResolvePort -----------------------------
(* GET /api/resolve and GET /api/resolve/chapter: what stands between the    *)
(* resolver and the stored text (ports/resolver_port.py, ports/span_lookup.py,*)
(* resolve_chapter.py).  A reference into a combined milestone is asked as   *)
(* its anchor, Resolver answers in coordinates, every coordinate is looked   *)
(* up among the stored rows, and coordinates that turn out to be one row are *)
(* one span of the response.  A chapter asks every stored whole verse in     *)
(* turn, each through chains that are read again, and gives an alignment     *)
(* once.                                                                     *)
(*                                                                           *)
(* The rows of a translation are a sequence in the order of seq; a row is    *)
(* [c, v, part, range], range being the verses of a combined milestone or    *)
(* None.  Chains may change between two reads: another request commits.      *)
EXTENDS Resolver

CONSTANTS
    Tables,         \* rows a translation may store
    Asks,           \* references of a single resolve: [ref, part]
    Changed,        \* the chains, or None, another request leaves
    MaxEdits        \* bound: commits that change the chains

(* uq_verse_span_coords: coordinates are unique, a missing part included. *)
UniqueCoords(rows) ==
    \A i, j \in DOMAIN rows :
        /\ rows[i].c = rows[j].c /\ rows[i].v = rows[j].v
        /\ rows[i].part = rows[j].part
        => i = j

(* Rows and references are about verses and parts of the numberings.  A       *)
(* combined milestone is stored whole, under the first of its verses         *)
(* (parse_usx).                                                              *)
StoredOK(row) ==
    /\ \E x \in Verses : x.part = row.part
    /\ \A x \in Verses : VerseId(row.c, row.v, x.part) \in Verses
    /\ row.range # None =>
            /\ row.part = None /\ row.range.hi \in Nat
            /\ row.range = RefRange(row.c, row.v, row.range.hi)

AskOK(ask) ==
    /\ ask = [ref |-> RefRange(ask.ref.c, ask.ref.lo, ask.ref.hi),
              part |-> ask.part]
    /\ RangeOK(ask.ref) /\ \E x \in Verses : x.part = ask.part

ASSUME PortAssumption ==
    /\ \A rows \in Tables :
            /\ rows \in Seq(ToSet(rows)) /\ None \notin ToSet(rows)
            /\ UniqueCoords(rows) /\ \A row \in ToSet(rows) : StoredOK(row)
    /\ \A ask \in Asks : AskOK(ask)
    /\ Changed \subseteq Chains \cup {None}
    /\ MaxEdits \in Nat /\ None \notin Nat

VARIABLES
    source_rows, target_rows,   \* the stored rows of both translations
    chains,         \* what build_resolve_path would read now; None for
                    \* a cycle or no shared ancestor (LookupError)
    edits,          \* commits that changed it
    endpoint,       \* "single" or "chapter"
    asked,          \* the references of the request still to be resolved
    items, failed   \* the responses so far; the references that failed

portVars == <<source_rows, target_rows, chains, edits, endpoint, asked, items,
              failed>>

-----------------------------------------------------------------------------
(* -------------------- the stored row of a verse (span_lookup) ------------ *)
(* _exact_span and _covering_span: the row of the coordinates, the first row *)
(* of the chapter whose milestone covers the verse; None without one.        *)
FirstAt(rows, places) == IF places = {} THEN None ELSE rows[Min(places)]

_exact_span(rows, x) ==
    FirstAt(rows, {i \in DOMAIN rows :
                    VerseId(rows[i].c, rows[i].v, rows[i].part) = x})
_covering_span(rows, x) ==
    FirstAt(rows, {i \in DOMAIN rows :
                    rows[i].c = x.c /\ covers(rows[i].range, x)})

Whole(x) == [x EXCEPT !.part = None]

find_stored_span(rows, x) ==
    CASE _exact_span(rows, x) # None -> _exact_span(rows, x)
      [] _exact_span(rows, x) = None /\ _exact_span(rows, Whole(x)) # None ->
            _exact_span(rows, Whole(x))
      [] OTHER -> _covering_span(rows, x)

(* The lookup of the index builder: tables loaded once.  A later row of the  *)
(* same coordinates would replace an earlier one.                            *)
_load_span_tables(rows) ==
    LET At(key) == {i \in DOMAIN rows :
                        VerseId(rows[i].c, rows[i].v, rows[i].part) = key}
    IN  [exact |-> [key \in Coordinates(ToSet(rows)) |-> rows[Max(At(key))]],
         covering |-> [c \in {r.c : r \in ToSet(rows)} |->
            Restrict(rows, {i \in DOMAIN rows :
                                rows[i].c = c /\ rows[i].range # None})]]

_preloaded_covering(table, x) ==
    FirstAt(table, {i \in DOMAIN table : covers(table[i].range, x)})

(* Mutant of _lookup_preloaded: a part no row has goes to the milestones. *)
PreloadedNoWhole(tables, x) ==
    IF x \in DOMAIN tables.exact THEN tables.exact[x]
    ELSE IF x.c \in DOMAIN tables.covering
    THEN _preloaded_covering(tables.covering[x.c], x)
    ELSE None

_lookup_preloaded(tables, x) ==
    IF x \in DOMAIN tables.exact THEN tables.exact[x]
    ELSE IF Whole(x) \in DOMAIN tables.exact THEN tables.exact[Whole(x)]
    ELSE IF x.c \in DOMAIN tables.covering
    THEN _preloaded_covering(tables.covering[x.c], x)
    ELSE None

(* ----------------------- the request (resolver_port) --------------------- *)
(* A single verse inside a combined milestone is asked as the verse its row  *)
(* is stored under; a range is asked as it stands.                           *)
_canonicalize_query_ref(rows, ask) ==
    LET Anchor(row) == IF row = None \/ row.v = ask.ref.lo THEN ask.ref
                       ELSE RefRange(row.c, row.v, row.v)
    IN  IF width(ask.ref) > 0 THEN ask.ref
        ELSE Anchor(find_stored_span(rows,
                        VerseId(ask.ref.c, ask.ref.lo, ask.part)))

-----------------------------------------------------------------------------
(* ------------------------ the response (_to_result) ---------------------- *)
(* A coordinate as a span of the response: the coordinates of the row that   *)
(* stores it and its place (seq, None for a verse no row stores).            *)
_enrich_span(rows, x) ==
    LET Span(row) ==
            IF row = None THEN [c |-> x.c, v |-> x.v, part |-> x.part, seq |-> None]
            ELSE [c |-> row.c, v |-> row.v, part |-> x.part,
                  seq |-> CHOOSE i \in DOMAIN rows : rows[i] = row]
    IN  Span(find_stored_span(rows, x))

(* Mutant of _dedupe_enriched: only the row tells spans apart. *)
DedupeBySeq(spans) ==
    LET out[k \in 0 .. Len(spans)] ==
            IF k = 0 THEN <<>>
            ELSE IF spans[k].seq \in {o.seq : o \in ToSet(out[k - 1])}
            THEN out[k - 1] ELSE Append(out[k - 1], spans[k])
    IN  out[Len(spans)]

(* The first span of every row stays, in the order of the coordinates. *)
_dedupe_enriched(spans) ==
    LET out[k \in 0 .. Len(spans)] ==
            IF k = 0 THEN <<>>
            ELSE IF spans[k] \in ToSet(out[k - 1]) THEN out[k - 1]
            ELSE Append(out[k - 1], spans[k])
    IN  out[Len(spans)]

Enriched(rows, verses) ==
    LET sorted == sort_verses(verses)
    IN  [i \in DOMAIN sorted |-> _enrich_span(rows, sorted[i])]

Place(x, verses) == CHOOSE i \in DOMAIN sort_verses(verses) :
                        sort_verses(verses)[i] = x

(* Connectors name places in the lists of the resolver, before dedupe. *)
EdgesOf(dto) ==
    {[source_index |-> Place(e.source, dto.sources),
      target_index |-> Place(e.target, dto.targets),
      relation |-> e.relation] : e \in dto.edges}

(* Mutant of _to_result: the targets are looked up in the source text. *)
TargetsFromSource(dto) ==
    LET Result(sources, targets) ==
            [source_spans |-> sources, target_spans |-> targets,
             relation |-> _relation_after_dedupe(ToSet(sources), ToSet(targets),
                                                 dto.relation),
             edges |-> EdgesOf(dto),
             source_rel |-> dto.source_rel, target_rel |-> dto.target_rel]
    IN  Result(_dedupe_enriched(Enriched(source_rows, dto.sources)),
               _dedupe_enriched(Enriched(source_rows, dto.targets)))

_to_result(dto) ==
    LET Result(sources, targets) ==
            [source_spans |-> sources, target_spans |-> targets,
             relation |-> _relation_after_dedupe(ToSet(sources), ToSet(targets),
                                                 dto.relation),
             edges |-> EdgesOf(dto),
             source_rel |-> dto.source_rel, target_rel |-> dto.target_rel]
    IN  Result(_dedupe_enriched(Enriched(source_rows, dto.sources)),
               _dedupe_enriched(Enriched(target_rows, dto.targets)))

(* Mutant of alignment_fingerprint: the source spans are left out. *)
FingerprintNoSources(item) ==
    <<item.relation, Coordinates(ToSet(item.target_spans)), item.edges,
      item.source_rel, item.target_rel>>

(* What makes two responses of a chapter the same alignment. *)
alignment_fingerprint(item) ==
    <<item.relation, Coordinates(ToSet(item.source_spans)),
      Coordinates(ToSet(item.target_spans)), item.edges,
      item.source_rel, item.target_rel>>

(* The references of a chapter: the stored whole verses in order. *)
_stored_whole_verses(rows) ==
    LET sorted == sort_verses({VerseId(r.c, r.v, None) :
                                r \in {x \in ToSet(rows) : x.part = None}})
        Asked(x) == [ref |-> RefRange(x.c, x.v, x.v), part |-> None]
    IN  [i \in DOMAIN sorted |-> Asked(sorted[i])]

-----------------------------------------------------------------------------
Idle == pc = "idle"

PortInit ==
    /\ source_rows \in Tables /\ target_rows \in Tables
    /\ chains \in Chains /\ edits = 0
    /\ \/ /\ endpoint = "single"
          /\ \E ask \in Asks : asked = <<ask>>
       \/ /\ endpoint = "chapter"
          /\ asked = _stored_whole_verses(source_rows)
    /\ items = <<>> /\ failed = {}
    /\ query = [members |-> {}, srcHops |-> <<>>, tgtHops |-> <<>>]
    /\ pc = "idle"
    /\ trigger = None /\ caller = None
    /\ worklist = {} /\ seen = {} /\ result = None

(* resolve_single_with_schemes: the chains are read for every reference; one *)
(* that cannot be built fails the reference, which a chapter leaves out.     *)
PathFails ==
    /\ Idle /\ asked # <<>> /\ chains = None
    /\ failed' = failed \cup {Head(asked)}
    /\ asked' = Tail(asked)
    /\ UNCHANGED <<vars, source_rows, target_rows, chains, edits, endpoint, items>>

(* Mutant of Ask: the part of the request is not put on the members. *)
AskWithoutPart ==
    /\ Idle /\ asked # <<>> /\ chains # None
    /\ query' = [members |-> expand(_canonicalize_query_ref(source_rows, Head(asked)),
                                    None),
                 srcHops |-> chains.srcHops, tgtHops |-> chains.tgtHops]
    /\ pc' = "assemble"
    /\ trigger' = None /\ caller' = None
    /\ worklist' = {} /\ seen' = {} /\ result' = None
    /\ UNCHANGED portVars

Ask ==
    /\ Idle /\ asked # <<>> /\ chains # None
    /\ query' = [members |-> expand(_canonicalize_query_ref(source_rows, Head(asked)),
                                    Head(asked).part),
                 srcHops |-> chains.srcHops, tgtHops |-> chains.tgtHops]
    /\ pc' = "assemble"
    /\ trigger' = None /\ caller' = None
    /\ worklist' = {} /\ seen' = {} /\ result' = None
    /\ UNCHANGED portVars

(* assemble at work. *)
Resolve == Next /\ UNCHANGED portVars

(* Mutant of Emit: a chapter gives every answer. *)
EmitAlways(item) == items' = Append(items, item)

(* A chapter gives an alignment once. *)
Emit(item) ==
    items' = IF \E i \in DOMAIN items :
                    alignment_fingerprint(items[i]) = alignment_fingerprint(item)
             THEN items ELSE Append(items, item)

(* The answer of the resolver becomes the response, or an item of it. *)
Respond ==
    /\ pc = "done"
    /\ Emit(_to_result(result))
    /\ asked' = Tail(asked)
    /\ pc' = "idle"
    /\ UNCHANGED <<query, trigger, caller, worklist, seen, result, source_rows,
                   target_rows, chains, edits, endpoint, failed>>

(* Another request changes the chains.  They are only read by Ask, so that a *)
(* change while the resolver works shows no other behaviour.                 *)
EditChains ==
    /\ Idle /\ asked # <<>> /\ items # <<>> /\ edits < MaxEdits
    /\ chains' \in Changed \ {chains}
    /\ edits' = edits + 1
    /\ UNCHANGED <<vars, source_rows, target_rows, endpoint, asked, items, failed>>

PortNext == PathFails \/ Ask \/ Resolve \/ Respond \/ EditChains

PortSpec == PortInit /\ [][PortNext]_<<vars, portVars>>

-----------------------------------------------------------------------------
Answered == Idle /\ asked = <<>>
Item == _to_result(result)

(* Shape of the state, the resolver's at work included.  A span names a row  *)
(* by its place, its connectors name places of at most as many spans as the  *)
(* resolver answered with.                                                   *)
PortTypeOK ==
    /\ TypeOK
    /\ {source_rows, target_rows} \subseteq Tables
    /\ chains \in Chains \cup {None} /\ edits \in 0 .. MaxEdits
    /\ endpoint \in {"single", "chapter"}
    /\ failed \cup ToSet(asked) \subseteq
            [ref : [c : {x.c : x \in Verses}, lo : Nat, hi : Nat],
             part : {x.part : x \in Verses}]
    /\ pc \in {"idle", "assemble", "hull", "done"}
    /\ ~ Idle => asked # <<>> /\ query.members \subseteq Verses
    /\ endpoint = "single" => Len(items) + Len(asked) <= 1
    /\ \A i \in DOMAIN items :
            /\ items[i].relation \in Relations \cup {"complex", "range"}
            /\ \A s \in ToSet(items[i].source_spans) :
                    s.seq # None => s.seq \in DOMAIN source_rows
            /\ \A s \in ToSet(items[i].target_spans) :
                    s.seq # None => s.seq \in DOMAIN target_rows

(* The lookup in preloaded tables that fills an index and the lookup in the  *)
(* database that answers live find the same row for every verse and part: an *)
(* index row and a live answer cannot differ in their spans.                 *)
FindersAgree ==
    items = <<>> /\ Idle => \A x \in Verses :
        find_stored_span(source_rows, x)
            = _lookup_preloaded(_load_span_tables(source_rows), x)

Holds(row, x) == VerseId(row.c, row.v, row.part) = x \/ covers(row.range, x)

(* Whoever asks for a verse the source translation stores, by itself or in a *)
(* combined milestone, finds a span of a row that stores it on the source    *)
(* side of the response, whatever the hull made of the reference.            *)
QueryRowListed ==
    pc = "done" => \A x \in expand(Head(asked).ref, Head(asked).part) :
        (\E i \in DOMAIN source_rows : Holds(source_rows[i], x)) =>
            \E s \in ToSet(Item.source_spans) :
                /\ s.seq # None /\ s.part = x.part
                /\ Holds(source_rows[s.seq], x)

(* No counterpart is lost when coordinates are taken together as rows: every *)
(* verse a queried one leads to, when nothing on its climb is excluded, is   *)
(* still on the target side, as its row or as a verse no row stores.         *)
CounterpartRowsListed ==
    pc = "done" => \A m \in query.members :
        ~ apply_hops({m}, query.srcHops, TRUE).excluded =>
            \A t \in Walk({m}).targets :
                _enrich_span(target_rows, t) \in ToSet(Item.target_spans)

(* doc/resolver.md:54: the same source and target span set is not emitted    *)
(* twice in a chapter response.  The fingerprint also tells relations and    *)
(* connectors apart and chains may change on the way, yet only the           *)
(* connectors of a complex answer, which depend on the order of a set of     *)
(* pivots, bring the same spans twice.                                       *)
EmittedOnce ==
    \A i, j \in DOMAIN items :
        /\ Coordinates(ToSet(items[i].source_spans))
                = Coordinates(ToSet(items[j].source_spans))
        /\ Coordinates(ToSet(items[i].target_spans))
                = Coordinates(ToSet(items[j].target_spans))
        /\ items[i].relation # "complex"
        => i = j

(* A chapter response leaves out no stored verse but those whose path could  *)
(* not be built: an alignment dropped as emitted before lists the verse.     *)
ChapterCovers ==
    Answered /\ endpoint = "chapter" =>
        \A r \in ToSet(source_rows) : r.part = None =>
            \/ \E f \in failed : f.ref = RefRange(r.c, r.v, r.v)
            \/ \E i \in DOMAIN items :
                    VerseId(r.c, r.v, None)
                        \in Coordinates(ToSet(items[i].source_spans))
=============================================================================
