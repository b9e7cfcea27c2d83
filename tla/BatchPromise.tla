----------------------------- MODULE BatchPromise -----------------------------
(* What POST /api/resolve/verses and GET /api/resolve/range promise, however *)
(* the answer is come by: one entry for every reference of the request, in   *)
(* its order, each the answer the live resolver gives over reads made        *)
(* between the call and the response.  A window is answered with the page of *)
(* the verses its translation stored at one such moment.  Only when the      *)
(* response says that an index was used may the answer of a single verse be  *)
(* an earlier one: how much earlier is AnsweredSinceBuild of BatchResolve.   *)
EXTENDS BatchRequests

VARIABLES
    catalog,    \* the version now
    pending,    \* the call being answered and the version it found, if any
    response    \* the last response, if none is awaited

vars == <<catalog, pending, response>>

NoCall == [open |-> FALSE]
NoResponse == [status |-> "none"]

-----------------------------------------------------------------------------
(* The answers of a reference, read between two versions. *)
IsLive(entry, ref, from, to) ==
    /\ entry = Answer(ref, entry.first, entry.last)
    /\ entry.first \in from .. to /\ entry.last \in entry.first .. to

(* The live resolver rejects a padded reference, the index finds its verse. *)
Acceptable(entry, ref, from, to) ==
    CASE ref.kind \in {"verse", "range"} -> IsLive(entry, ref, from, to)
      [] OTHER -> entry = Error

FromIndex(entry, ref, to) ==
    ref.kind \in {"verse", "padded"} /\ IsLive(entry, Verse(ref.at), 0, to)

(* ----------------------------- windows ----------------------------------- *)
(* A bound is [book, chapter, verse]; a missing part (None) leaves it open.  *)
Sooner(x, y) ==
    \/ x[1] < y[1]
    \/ x[1] = y[1] /\ x[2] < y[2]
    \/ x[1] = y[1] /\ x[2] = y[2] /\ x[3] < y[3]

NotBefore(x, bound) ==
    \/ x[1] > bound.book
    \/ /\ x[1] = bound.book
       /\ bound.chapter # None =>
            \/ x[2] > bound.chapter
            \/ x[2] = bound.chapter /\ (bound.verse # None => x[3] >= bound.verse)

NotAfter(x, bound) ==
    \/ x[1] < bound.book
    \/ /\ x[1] = bound.book
       /\ bound.chapter # None =>
            \/ x[2] < bound.chapter
            \/ x[2] = bound.chapter /\ (bound.verse # None => x[3] <= bound.verse)

InWindow(req, version) ==
    {x \in StoredVerses(version) : NotBefore(x, req.from) /\ NotAfter(x, req.to)}

Limit(req) == IF req.limit = None THEN DEFAULT_LIMIT ELSE req.limit
Offset(req) == IF req.offset = None \/ req.offset < 0 THEN 0 ELSE req.offset

(* The page holds the verses with offset, offset + 1, ... others before them, *)
(* until the window or the limit ends.                                       *)
IsPage(refs, req, version) ==
    LET window == InWindow(req, version)
        Place(x) == Cardinality({y \in window : Sooner(y, x)})
        page == {x \in window :
                    Place(x) \in Offset(req) .. (Offset(req) + Limit(req) - 1)}
    IN  /\ Len(refs) = Cardinality(page)
        /\ \A x \in page : refs[Place(x) - Offset(req) + 1] = Verse(x)

Backwards(req) ==
    \/ req.to.book < req.from.book
    \/ /\ req.to.book = req.from.book
       /\ None \notin {req.from.chapter, req.to.chapter}
       /\ \/ req.to.chapter < req.from.chapter
          \/ /\ req.to.chapter = req.from.chapter
             /\ None \notin {req.from.verse, req.to.verse}
             /\ req.to.verse < req.from.verse

(* A request the endpoints reject with 422. *)
Rejected(req) ==
    IF req.endpoint = "verses" THEN Len(req.refs) \notin 1 .. MAX_LIMIT
    ELSE Limit(req) \notin 1 .. MAX_LIMIT \/ Backwards(req)

IsAnswer(res, req, from, to) ==
    /\ res.status = "ok" /\ ~ Rejected(req)
    /\ IF req.endpoint = "verses"
       THEN res.refs = req.refs /\ res.total = Len(req.refs)
       ELSE \E v \in from .. to : /\ IsPage(res.refs, req, v)
                                  /\ res.total = Cardinality(InWindow(req, v))
    /\ DOMAIN res.entries = DOMAIN res.refs
    /\ \A i \in DOMAIN res.refs :
            \/ Acceptable(res.entries[i], res.refs[i], from, to)
            \/ res.index_used /\ FromIndex(res.entries[i], res.refs[i], to)

-----------------------------------------------------------------------------
Init == catalog = 0 /\ pending = NoCall /\ response = NoResponse

(* A commit that changes what references resolve to. *)
Change ==
    /\ catalog + 1 \in Versions
    /\ catalog' = catalog + 1
    /\ UNCHANGED <<pending, response>>

Call ==
    /\ pending = NoCall
    /\ \E req \in Requests :
            pending' = [open |-> TRUE, req |-> req, since |-> catalog]
    /\ response' = NoResponse
    /\ UNCHANGED catalog

Reject ==
    /\ pending.open /\ Rejected(pending.req)
    /\ response' = [status |-> "422"]
    /\ pending' = NoCall
    /\ UNCHANGED catalog

Respond ==
    /\ pending.open
    /\ IsAnswer(response', pending.req, pending.since, catalog)
    /\ pending' = NoCall
    /\ UNCHANGED catalog

Next == Change \/ Call \/ Reject \/ Respond

Spec == Init /\ [][Next]_vars
=============================================================================
