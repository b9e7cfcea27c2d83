----------------------------- MODULE BatchResolve -----------------------------
(* The batch endpoints (resolve_batch.py, verse_range.py) beside the index    *)
(* they read (indexing/lookup.py, indexing/keys.py) and what writes it: one   *)
(* ordered pair of translations, each with an index on the scheme a request   *)
(* selects, the workers that rebuild them, edits, indexes that are queued     *)
(* again, deleted, created and reclaimed.  A request is a dozen statements,   *)
(* a build many transactions, each of which sees what is committed when it    *)
(* runs.                                                                      *)
(*                                                                           *)
(* The writers are kept as far as a reader can tell and are otherwise free:   *)
(* any number of builds runs at once (nothing here rests on the build lock),  *)
(* an index is queued again at any time, a build publishes over whatever      *)
(* happened since it looked.  The lifecycle itself is Indexing.               *)
EXTENDS BatchRequests, FiniteSetsExt

CONSTANTS
    Workers,        \* builds that run at once: one for each process
    MaxRequests,    \* bound: requests
    MaxIds          \* bound: indexes created

ASSUME MaxAssumption == MaxRequests \in Nat /\ MaxIds \in Nat /\ MaxIds >= 2
ASSUME WorkersAssumption == IsFiniteSet(Workers)

Sides == {"from", "to"}

VARIABLES
    catalog,    \* the version now
    index,      \* side -> [id, status, floor] of the translation_index row
    mappings,   \* index_mapping rows [src, tgt, ref, first, last]
    build,      \* worker -> its build
    call,       \* the request being answered
    response,   \* the last response
    lastId,     \* the last id given to an index
    served      \* requests so far

(* Auxiliary: the floor of an index is the version its last build began at,   *)
(* or the oldest of the builds beside it, if any ran then.  Nothing reads it   *)
(* but a property.                                                            *)
NoIndex == [id |-> 0, status |-> "none", floor |-> 0]

(* A build: where it is (step), its index, the other index it pairs that one  *)
(* with (0 if none was ready), the versions it began at (first) and last      *)
(* loaded text at (last), the verses to do, and the floor it gives its index. *)
NoBuild == [step |-> "idle", side |-> "from", id |-> 0, other |-> 0,
            first |-> 0, last |-> 0, todo |-> {}, since |-> 0]

(* A call: the request and the version it found, where it is (pc), the        *)
(* version when its schemes and hop path began to be read (first), its        *)
(* members and the size of its window, the ready indexes found so far, the    *)
(* higher of their floors, the rows loaded from them, the answers so far.     *)
NoPair == [src |-> 0, tgt |-> 0]
NoCall == [pc |-> "idle"]
NoResponse == [status |-> "none"]

NewCall(req) ==
    [req |-> req, since |-> catalog, pc |-> "prepare", first |-> catalog,
     refs |-> <<>>, total |-> 0, pair |-> NoPair, floor |-> 0,
     payloads |-> {}, entries |-> <<>>]

indexVars == <<index, mappings, build, lastId>>
readerVars == <<call, response, served>>
vars == <<catalog, indexVars, readerVars>>

(* What a client sees of it. *)
Promise == INSTANCE BatchPromise WITH
    pending <- IF call.pc = "idle" THEN [open |-> FALSE]
               ELSE [open |-> TRUE, req |-> call.req, since |-> call.since]

-----------------------------------------------------------------------------
(* ------------------------- windows (verse_range) ------------------------- *)
verse_key(book, chapter, verse) == <<book, chapter, verse>>

_lower_bound(bound) ==
    verse_key(bound.book, IF bound.chapter = None THEN -1 ELSE bound.chapter,
              IF bound.verse = None THEN -1 ELSE bound.verse)

_upper_bound(bound) ==
    verse_key(bound.book, IF bound.chapter = None THEN MaxBound ELSE bound.chapter,
              IF bound.verse = None THEN MaxBound ELSE bound.verse)

(* Tuples compared as Python compares them. *)
LessEq(x, y) ==
    x = y \/ \E i \in 1 .. 3 : x[i] < y[i] /\ \A j \in 1 .. (i - 1) : x[j] = y[j]

(* Distinct coordinates as Python sorts them. *)
Ascending(set) ==
    CHOOSE s \in [1 .. Cardinality(set) -> set] : \A i, j \in DOMAIN s :
        i < j => LessEq(s[i], s[j]) /\ s[i] # s[j]

(* The books or the bounds are reversed: 422. *)
ReversedWindow(from, to) ==
    to.book < from.book \/ ~ LessEq(_lower_bound(from), _upper_bound(to))

range_window(from, to) ==
    [books |-> from.book .. to.book,
     lower |-> _lower_bound(from), upper |-> _upper_bound(to)]

(* The stored whole verses and the constituents of milestones in a window,   *)
(* in USX order.                                                             *)
stored_verse_refs(rows, window) ==
    LET fetched == {row \in rows : row.at[1] \in window.books}
        covered == UNION {{verse_key(row.at[1], row.at[2], v) :
                            v \in row.at[3] .. row.hi} : row \in fetched}
        inside == {x \in covered : LessEq(window.lower, x)
                                   /\ LessEq(x, window.upper)}
    IN  [i \in 1 .. Cardinality(inside) |-> Verse(Ascending(inside)[i])]

(* A limit out of bounds is refused, an offset raised to 0. *)
LimitOf(limit) == IF limit = None THEN DEFAULT_LIMIT ELSE limit

clamp_page(limit, offset) ==
    [limit |-> LimitOf(limit),
     offset |-> IF offset = None \/ offset < 0 THEN 0 ELSE offset]

Slice(all, page) ==
    SubSeq(all, page.offset + 1, Min({page.offset + page.limit, Len(all)}))

(* ---------------------------- the index (lookup) ------------------------- *)
(* The key of one verse, spaces stripped; none for several or no verse. *)
NoKey == [kind |-> "none"]

(* Mutant of index_key: several verses have the key of the first.            *)
IndexKeyOfFirst(ref) == IF ref.kind = "bad" THEN NoKey ELSE Verse(ref.at)

index_key(ref) == IF ref.kind \in {"verse", "padded"} THEN Verse(ref.at) ELSE NoKey

Exists(side) == index[side].status # "none"
Ready(side) == index[side].status = "ready"

load_payloads(p, refs) ==
    LET keys == {index_key(refs[i]) : i \in DOMAIN refs} \ {NoKey}
    IN  {m \in mappings : m.src = p.src /\ m.tgt = p.tgt /\ m.ref \in keys}

-----------------------------------------------------------------------------
Init ==
    /\ catalog = 0
    /\ index = [s \in Sides |-> [id |-> IF s = "from" THEN 1 ELSE 2,
                                 status |-> "pending", floor |-> 0]]
    /\ mappings = {} /\ build = [w \in Workers |-> NoBuild] /\ lastId = 2
    /\ call = NoCall /\ response = NoResponse /\ served = 0

(* --------------------------- the index's writers ------------------------- *)
(* "pending" stands for every status that is neither building nor ready.     *)
Queued(side) == [index EXCEPT ![side].status = IF Exists(side) THEN "pending" ELSE @]

(* A commit that changes answers and queues the index of its side: an edit of *)
(* the translation or its scheme, another preferred scheme (which also moves  *)
(* the index).                                                                *)
Edit(side) ==
    /\ catalog + 1 \in Versions
    /\ catalog' = catalog + 1 /\ index' = Queued(side)
    /\ UNCHANGED <<mappings, build, lastId, readerVars>>

(* One that queues neither: further up a chain, or a base, or an index that   *)
(* was created after the edit had listed those to queue.                      *)
EditFurther ==
    /\ catalog + 1 \in Versions
    /\ catalog' = catalog + 1
    /\ UNCHANGED <<indexVars, readerVars>>

(* Queued, cancelled, swept, recovered at the start of a process, failed.     *)
Requeue(side) ==
    /\ Exists(side) /\ index' = Queued(side)
    /\ UNCHANGED <<catalog, mappings, build, lastId, readerVars>>

CreateIndex(side) ==
    /\ ~ Exists(side) /\ lastId < MaxIds
    /\ lastId' = lastId + 1
    /\ index' = [index EXCEPT ![side] =
                    [id |-> lastId', status |-> "pending", floor |-> 0]]
    /\ UNCHANGED <<catalog, mappings, build, readerVars>>

(* The row goes, its mapping rows are reclaimed later. *)
DropIndex(side) ==
    /\ Exists(side)
    /\ index' = [index EXCEPT ![side] = NoIndex]
    /\ UNCHANGED <<catalog, mappings, build, lastId, readerVars>>

LiveIds == {index[s].id : s \in {x \in Sides : Exists(x)}}

ReclaimRow(m) ==
    /\ {m.src, m.tgt} \ LiveIds # {}
    /\ mappings' = mappings \ {m}
    /\ UNCHANGED <<catalog, index, build, lastId, readerVars>>

(* ------------------------------- a build --------------------------------- *)
Running == {w \in Workers : build[w].step # "idle"}
BuildsSince == {catalog} \cup {build[w].since : w \in Running}

Claim(w, side) ==
    /\ w \notin Running /\ index[side].status = "pending"
    /\ build' = [build EXCEPT ![w] = [NoBuild EXCEPT !.step = "open", !.side = side,
                    !.id = index[side].id, !.first = catalog,
                    !.since = Min(BuildsSince)]]
    /\ index' = [index EXCEPT ![side].status = "building",
                              ![side].floor = Min(BuildsSince)]
    /\ UNCHANGED <<catalog, mappings, lastId, readerVars>>

BuildStep(w, to) ==
    /\ build' = [build EXCEPT ![w] = to]
    /\ UNCHANGED <<catalog, index, lastId, readerVars>>

(* Whether the index is still the one claimed is checked between chunks only; *)
(* a build may also fail, and its process stop, anywhere.                     *)
StopBuild(w) == w \in Running /\ BuildStep(w, NoBuild) /\ UNCHANGED mappings

Other(side) == IF side = "from" THEN "to" ELSE "from"
Of(id) == {m \in mappings : id \in {m.src, m.tgt}}

(* The ready indexes are listed once, at the start. *)
OpenBuild(w) ==
    /\ build[w].step = "open"
    /\ BuildStep(w, [build[w] EXCEPT !.step = "clear", !.other =
                        IF Ready(Other(build[w].side))
                        THEN index[Other(build[w].side)].id ELSE 0])
    /\ UNCHANGED mappings

(* The rows of the index are deleted first. *)
ClearMapping(w, m) ==
    /\ build[w].step = "clear" /\ m \in Of(build[w].id)
    /\ mappings' = mappings \ {m}
    /\ UNCHANGED <<catalog, index, build, lastId, readerVars>>

(* The scheme and the chains of a pair are read, then spans and verses are    *)
(* loaded once for all its rows.                                              *)
OpenPair(w) ==
    /\ build[w].step = "clear" /\ Of(build[w].id) = {}
    /\ BuildStep(w, [build[w] EXCEPT !.step = "pair"])
    /\ UNCHANGED mappings

LoadPair(w) ==
    /\ build[w].step = "pair" /\ build[w].other # 0
    /\ BuildStep(w, [build[w] EXCEPT !.step = "rows", !.last = catalog,
                        !.todo = {Verse(x) : x \in StoredVerses(catalog)}])
    /\ UNCHANGED mappings

(* One row of a chunk, inserted or replaced.  Rows are still written after    *)
(* the index was queued or deleted.                                           *)
PairOf(b) == IF b.side = "from" THEN [src |-> b.id, tgt |-> b.other]
             ELSE [src |-> b.other, tgt |-> b.id]

BuildRow(w, ref) ==
    LET p == PairOf(build[w])
    IN  /\ build[w].step = "rows" /\ ref \in build[w].todo
        /\ BuildStep(w, [build[w] EXCEPT !.todo = @ \ {ref}])
        /\ mappings' =
            {m \in mappings : ~ (m.src = p.src /\ m.tgt = p.tgt /\ m.ref = ref)}
            \cup {[src |-> p.src, tgt |-> p.tgt, ref |-> ref,
                   first |-> build[w].first, last |-> build[w].last]}

(* _finish looks whether the index is still the one claimed.  A pair or a     *)
(* member that failed is left without rows.                                   *)
CheckFinish(w) ==
    LET now == index[build[w].side]
    IN  /\ build[w].step \in {"pair", "rows"}
        /\ now.id = build[w].id /\ now.status = "building"
        /\ BuildStep(w, [build[w] EXCEPT !.step = "publish", !.todo = {}])
        /\ UNCHANGED mappings

(* Then computes the fingerprint and writes ready over whatever it is now.    *)
Publish(w) ==
    /\ build[w].step = "publish" /\ index[build[w].side].id = build[w].id
    /\ build' = [build EXCEPT ![w] = NoBuild]
    /\ index' = [index EXCEPT ![build[w].side].status = "ready"]
    /\ UNCHANGED <<catalog, mappings, lastId, readerVars>>

(* ------------------------------ the request ------------------------------ *)
At(step) == call.pc = step

Reply(res) ==
    /\ response' = res /\ call' = NoCall
    /\ UNCHANGED <<catalog, indexVars, served>>

Step(to) ==
    /\ call' = to
    /\ UNCHANGED <<catalog, indexVars, response, served>>

Receive(req) ==
    /\ call = NoCall /\ served < MaxRequests
    /\ call' = NewCall(req)
    /\ response' = NoResponse /\ served' = served + 1
    /\ UNCHANGED <<catalog, indexVars>>

(* The page or the length of the list is checked before anything is read. *)
Refused(req) ==
    IF req.endpoint = "verses" THEN Len(req.refs) \notin 1 .. MAX_LIMIT
    ELSE LimitOf(req.limit) \notin 1 .. MAX_LIMIT

RefuseBatch == At("prepare") /\ Refused(call.req) /\ Reply([status |-> "422"])

(* _prepare begins to select schemes and to read the hop path, over several   *)
(* statements: an answer is dated from the first.                             *)
Prepare ==
    /\ At("prepare") /\ ~ Refused(call.req)
    /\ Step(IF call.req.endpoint = "verses"
            THEN [call EXCEPT !.pc = "find", !.first = catalog,
                              !.refs = call.req.refs, !.total = Len(call.req.refs)]
            ELSE [call EXCEPT !.pc = "expand", !.first = catalog])

(* expand_stored_range, and the page of it. *)
Expand ==
    LET req == call.req
        all == stored_verse_refs(Texts[catalog], range_window(req.from, req.to))
    IN  /\ At("expand")
        /\ IF ReversedWindow(req.from, req.to) THEN Reply([status |-> "422"])
           ELSE Step([call EXCEPT !.pc = "find", !.total = Len(all),
                        !.refs = Slice(all, clamp_page(req.limit, req.offset))])

(* find_ready_pair: two statements. *)
FindSource ==
    /\ At("find")
    /\ Step(IF Ready("from")
            THEN [call EXCEPT !.pc = "find target", !.pair.src = index["from"].id,
                              !.floor = index["from"].floor]
            ELSE [call EXCEPT !.pc = "find target"])

(* Mutant of FindTarget: the target index may be at work. *)
FindTargetAtWork ==
    /\ At("find target")
    /\ Step(IF call.pair.src # 0 /\ Exists("to")
            THEN [call EXCEPT !.pc = "load", !.pair.tgt = index["to"].id,
                              !.floor = Max({@, index["to"].floor})]
            ELSE [call EXCEPT !.pc = "resolve", !.pair = NoPair])

FindTarget ==
    /\ At("find target")
    /\ Step(IF call.pair.src # 0 /\ Ready("to")
            THEN [call EXCEPT !.pc = "load", !.pair.tgt = index["to"].id,
                              !.floor = Max({@, index["to"].floor})]
            ELSE [call EXCEPT !.pc = "resolve", !.pair = NoPair])

LoadPayloads ==
    /\ At("load")
    /\ Step([call EXCEPT !.pc = "resolve",
                         !.payloads = load_payloads(call.pair, call.refs)])

(* The live answer: the path of the request, and spans read until now.        *)
Live(ref) == IF ref.kind \in {"verse", "range"} THEN Answer(ref, call.first, catalog)
             ELSE Error

(* The stored payload, else the live answer. *)
Resolved(ref) ==
    LET cached == {m \in call.payloads : m.ref = index_key(ref)}
    IN  IF cached = {} THEN Live(ref)
        ELSE LET m == CHOOSE m \in cached : TRUE IN Answer(m.ref, m.first, m.last)

Unanswered == Len(call.entries) < Len(call.refs)

(* Mutant of ResolveEntry: a cached entry is answered live as well. *)
ResolveEntryTwice ==
    LET ref == call.refs[Len(call.entries) + 1]
    IN  /\ At("resolve") /\ Unanswered
        /\ Step([call EXCEPT !.entries =
                IF Resolved(ref) = Live(ref) THEN Append(@, Live(ref))
                ELSE @ \o <<Resolved(ref), Live(ref)>>])

ResolveEntry ==
    /\ At("resolve") /\ Unanswered
    /\ Step([call EXCEPT !.entries =
                Append(@, Resolved(call.refs[Len(call.entries) + 1]))])

RespondBatch ==
    /\ At("resolve") /\ ~ Unanswered
    /\ Reply([status |-> "ok", refs |-> call.refs, total |-> call.total,
              entries |-> call.entries, index_used |-> call.pair # NoPair])

Builder(w) ==
    \/ \E s \in Sides : Claim(w, s)
    \/ OpenBuild(w) \/ OpenPair(w) \/ LoadPair(w) \/ CheckFinish(w) \/ Publish(w)
    \/ StopBuild(w)
    \/ \E m \in mappings : ClearMapping(w, m)
    \/ \E ref \in build[w].todo : BuildRow(w, ref)

Writers ==
    \/ EditFurther
    \/ \E s \in Sides : Edit(s) \/ Requeue(s) \/ CreateIndex(s) \/ DropIndex(s)
    \/ \E m \in mappings : ReclaimRow(m)
    \/ \E w \in Workers : Builder(w)

Reader ==
    \/ \E req \in Requests : Receive(req)
    \/ RefuseBatch \/ Prepare \/ Expand \/ FindSource \/ FindTarget \/ LoadPayloads
    \/ ResolveEntry \/ RespondBatch

Next == Writers \/ Reader

Spec == Init /\ [][Next]_vars

-----------------------------------------------------------------------------
(* Shape of the state.  No id is used by two indexes, no request has more    *)
(* entries than members.                                                     *)
TypeOK ==
    /\ catalog \in Versions /\ lastId \in 2 .. MaxIds /\ served \in 0 .. MaxRequests
    /\ \A s \in Sides :
            \/ index[s] = NoIndex
            \/ index[s] \in [id : 1 .. lastId, floor : 0 .. catalog,
                             status : {"pending", "building", "ready"}]
    /\ index["from"].id = index["to"].id => index["from"] = NoIndex
    /\ \A m \in mappings : /\ m.first \in 0 .. m.last /\ m.last \in 0 .. catalog
                           /\ m.ref.kind = "verse"
    /\ \A w \in Workers :
            /\ build[w].side \in Sides /\ build[w].since \in 0 .. build[w].first
            /\ build[w].step \in {"idle", "open", "clear", "pair", "rows", "publish"}
    /\ call # NoCall =>
            /\ call.req \in Requests /\ call.since \in 0 .. catalog
            /\ call.pc \in {"prepare", "expand", "find", "find target", "load",
                            "resolve"}
            /\ Len(call.entries) <= Len(call.refs)

(* Whatever is rebuilt, deleted or edited between its statements, a response *)
(* has one entry for every member, in order, each the answer of its own      *)
(* reference: read during the request, or taken from an index that the       *)
(* response says was used.  A window's page and total are of one moment.     *)
ImplementsPromise == Promise!Spec

(* A stored answer is never older than the index it comes from: everything   *)
(* behind it was read after the call, or after the last build of either      *)
(* index began (or a build that ran beside that one), although clearing and   *)
(* filling an index, its status and its rows are written and read by          *)
(* separate statements and a build may publish over a later request.         *)
AnsweredSinceBuild ==
    call # NoCall => \A i \in DOMAIN call.entries :
        \/ call.entries[i] = Error
        \/ call.entries[i].first >= Min({call.since, call.floor})
=============================================================================
