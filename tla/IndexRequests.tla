---------------------------- MODULE IndexRequests ----------------------------
(***************************************************************************)
(* The HTTP requests that change an index: the registry (create, pin,      *)
(* delete, rebuild, cancel) and the catalog edits whose handlers requeue,   *)
(* retarget or drop indexes.  A request loads the rows it will write        *)
(* (Load...), and commits later (CommitRequest): the worker may commit in   *)
(* between.  Bound: one request is in flight at a time.                     *)
(***************************************************************************)
EXTENDS IndexRows

InFlight(op, t, s, S) ==
    /\ spent.requests < MaxRequests
    /\ spent' = [spent EXCEPT !.requests = @ + 1]
    /\ txn' = [op |-> op, tr |-> t, scheme |-> s, seen |-> [i \in S |-> rows[i]]]

\* What every Load action leaves alone.
dataVars == <<rows, older, maps, notes, reclaim, catalog, w, down>>

IndexesOf(t) == {i \in Ids : Exists(i) /\ rows[i].tr = t}
IndexesOn(s) == {i \in Ids : Exists(i) /\ rows[i].scheme = s}
-----------------------------------------------------------------------------
(* registry.py *)

\* POST /api/indexes.  An explicit scheme must be associated; a defaulted one is
\* the preferred scheme.  A taken pair is 409.
CreateIndex(i, t, explicit, s) ==
    /\ txn = None
    /\ rows[i].status = "none"
    /\ pref[t] # None
    /\ IF explicit THEN s \in Associated[t] ELSE s = pref[t]
    /\ ~Clash(t, s, i)
    /\ rows' = [rows EXCEPT ![i] =
                   [status |-> "pending", tr |-> t, scheme |-> s,
                    explicit |-> explicit, cancel |-> FALSE, fp |-> None]]
    /\ older' = Restamped({i})
    /\ UNCHANGED <<maps, notes, reclaim, catalog, txn, w, down, spent>>

\* POST /api/indexes/{id}/rebuild.
LoadRebuild(i) ==
    /\ txn = None /\ Exists(i)
    /\ InFlight("rebuild", None, None, {i})
    /\ UNCHANGED dataVars

\* POST /api/indexes/{id}/cancel.  Any other status is 409.
LoadCancel(i) ==
    /\ txn = None /\ rows[i].status \in {"pending", "building"}
    /\ InFlight("cancel", None, None, {i})
    /\ UNCHANGED dataVars

\* PATCH /api/indexes/{id}.  409 when another index has the pair.
LoadSetVersification(i, s) ==
    /\ txn = None /\ Exists(i)
    /\ s \in Associated[rows[i].tr]
    /\ ~Clash(rows[i].tr, s, i)
    /\ InFlight("pin", None, s, {i})
    /\ UNCHANGED dataVars

\* DELETE /api/indexes/{id}.
LoadDelete(i) ==
    /\ txn = None /\ Exists(i)
    /\ InFlight("delete", None, None, {i})
    /\ UNCHANGED dataVars
-----------------------------------------------------------------------------
(* Catalog edits and invalidation.py *)

\* PATCH /api/translations/{id}: invalidate_for_translation.
LoadUpdateTranslation(t) ==
    /\ txn = None /\ pref[t] # None /\ stamp[t] < MaxEdits
    /\ InFlight("edit", t, None, IndexesOf(t))
    /\ UNCHANGED dataVars

\* PATCH /api/versifications/{id}: invalidate_for_scheme.
LoadUpdateVersification(s) ==
    /\ txn = None /\ stamp[s] < MaxEdits
    /\ InFlight("edit", s, None, IndexesOn(s))
    /\ UNCHANGED dataVars

\* PUT .../versifications/{id}/preferred: retarget_default_indexes moves the
\* defaulted indexes of t, except one whose new pair is taken.  Two of them would
\* take the same pair: the flush fails, and the request with it.
LoadMakePreferred(t, s) ==
    LET moved == {i \in IndexesOf(t) : /\ ~rows[i].explicit
                                       /\ rows[i].scheme # s
                                       /\ ~Clash(t, s, i)}
    IN /\ txn = None /\ pref[t] # None /\ s \in Associated[t]
       /\ Cardinality(moved) <= 1
       /\ InFlight("prefer", t, s, moved)
       /\ UNCHANGED dataVars

\* DELETE /api/translations/{id}: drop_indexes_for_translation.  409 while a
\* scheme is based on the translation.
LoadDeleteTranslation(t) ==
    /\ txn = None /\ pref[t] # None
    /\ \A s \in Schemes : BasedOn[s] # t
    /\ InFlight("drop", t, None, IndexesOf(t))
    /\ UNCHANGED dataVars
-----------------------------------------------------------------------------
(* Commit *)

\* _requeue, request_rebuild, set_versification: back to the queue.
Requeued(r) == [r EXCEPT !.status = "pending", !.cancel = FALSE]

\* Mutant of CancelAssigned: a status the table does not have.
CancelAssignedMisspelt(r) ==
    IF r.status = "pending" THEN [r EXCEPT !.status = "canceled", !.cancel = FALSE]
    ELSE [r EXCEPT !.cancel = TRUE]

\* request_cancel: a pending row at once, a building one at the next checkpoint.
CancelAssigned(r) ==
    IF r.status = "pending" THEN [r EXCEPT !.status = "cancelled", !.cancel = FALSE]
    ELSE [r EXCEPT !.cancel = TRUE]

\* What the handler assigns to a row it loaded as r.
Assigned(op, s, r) ==
    IF op = "cancel" THEN CancelAssigned(r)
    ELSE Requeued([r EXCEPT !.scheme = IF op \in {"pin", "prefer"} THEN s ELSE @,
                            !.explicit = IF op = "pin" THEN TRUE ELSE @])

Requeueing == {"rebuild", "pin", "prefer", "edit"}
Dropping == {"delete", "drop"}

\* Mutant of CommitDrop: only indexes that have mapping rows by now are queued.
CommitDropIfMapped ==
    /\ txn # None /\ txn.op \in Dropping
    /\ rows' = [i \in Ids |-> IF i \in DOMAIN txn.seen THEN GoneRow ELSE rows[i]]
    /\ reclaim' = reclaim \cup {i \in DOMAIN txn.seen : MappingsOf(i) # {}}
    /\ pref' = IF txn.op = "drop" THEN [pref EXCEPT ![txn.tr] = None] ELSE pref
    /\ txn' = None
    /\ UNCHANGED <<older, maps, notes, stamp, w, down, spent>>

\* queue_reclaim, then the rows are deleted, in the request's transaction.
CommitDrop ==
    /\ txn # None /\ txn.op \in Dropping
    /\ rows' = [i \in Ids |-> IF i \in DOMAIN txn.seen THEN GoneRow ELSE rows[i]]
    /\ reclaim' = reclaim \cup DOMAIN txn.seen
    /\ pref' = IF txn.op = "drop" THEN [pref EXCEPT ![txn.tr] = None] ELSE pref
    /\ txn' = None
    /\ UNCHANGED <<older, maps, notes, stamp, w, down, spent>>

\* The edit itself and the rows it requeues become visible together.
CommitUpdate ==
    /\ txn # None /\ txn.op \notin Dropping
    /\ rows' = [i \in Ids |->
                   IF i \in DOMAIN txn.seen
                   THEN Flush(rows[i], txn.seen[i],
                              Assigned(txn.op, txn.scheme, txn.seen[i]))
                   ELSE rows[i]]
    /\ older' = IF txn.op \in Requeueing THEN Restamped(DOMAIN txn.seen) ELSE older
    /\ stamp' = IF txn.op = "edit" THEN [stamp EXCEPT ![txn.tr] = @ + 1] ELSE stamp
    /\ pref' = IF txn.op = "prefer" THEN [pref EXCEPT ![txn.tr] = txn.scheme] ELSE pref
    /\ txn' = None
    /\ UNCHANGED <<maps, notes, reclaim, w, down, spent>>

Request ==
    \/ \E i \in Ids :
          \/ \E t \in Translations, s \in Schemes, explicit \in BOOLEAN :
                CreateIndex(i, t, explicit, s)
          \/ LoadRebuild(i)
          \/ LoadCancel(i)
          \/ \E s \in Schemes : LoadSetVersification(i, s)
          \/ LoadDelete(i)
    \/ \E t \in Translations :
          \/ LoadUpdateTranslation(t)
          \/ \E s \in Schemes : LoadMakePreferred(t, s)
          \/ LoadDeleteTranslation(t)
    \/ \E s \in Schemes : LoadUpdateVersification(s)
    \/ CommitDrop
    \/ CommitUpdate
=============================================================================
