------------------------------ MODULE IndexRows ------------------------------
(***************************************************************************)
(* The database the indexing component works on: the translation_index,    *)
(* index_mapping and index_reclaim tables, the part of the catalog an      *)
(* index is computed from, and what SQLAlchemy's unit of work does with a  *)
(* loaded row.  IndexRequests and IndexWorker act on this state, Indexing   *)
(* composes them.                                                          *)
(*                                                                         *)
(* Data kept: one stored verse per translation, so one index_mapping row   *)
(* per ordered pair; a numbering chain of at most two hops (a scheme and   *)
(* the preferred scheme of the translation it is based on); updated_at as  *)
(* a counter.  Two chains are only ever compared for equality.             *)
(***************************************************************************)
EXTENDS Naturals, FiniteSets

CONSTANTS
    Ids,           \* index ids (UUIDs: an id is used for one row, never again)
    Translations,  \* translations that may be indexed
    Schemes,       \* versification schemes
    None,          \* SQL NULL
    BasedOn,       \* scheme -> the translation it is based on, or None for a root
    Associated,    \* translation -> the schemes associated with it
    Preferred0,    \* translation -> the scheme preferred at the start
    ChunkSize,     \* mapping rows deleted per direction in one statement
    MaxRequests,   \* bound: requests that change an existing index or the catalog
    MaxEdits,      \* bound: edits of one translation or scheme
    MaxCrashes,    \* bound: crashes of the process that runs the worker
    MaxBoots,      \* bound: starts of a further process beside it
    MaxDbErrors,   \* bound: database errors inside a build
    MaxFaults      \* bound: crashes, starts and errors together

ASSUME CatalogAssumption ==
    /\ None \notin Ids \cup Translations \cup Schemes
    /\ Translations \cap Schemes = {}
    /\ BasedOn \in [Schemes -> Translations \cup {None}]
    /\ Associated \in [Translations -> SUBSET Schemes]
    /\ Preferred0 \in [Translations -> Schemes]
    /\ \A t \in Translations : Preferred0[t] \in Associated[t]
    /\ \A s, t \in Translations : s # t => Associated[s] \cap Associated[t] = {}
    \* a base translation prefers roots only: chains have at most two hops
    /\ \A s \in Schemes : BasedOn[s] # None =>
           \A r \in Associated[BasedOn[s]] : BasedOn[r] = None

ASSUME BoundsAssumption ==
    /\ ChunkSize \in Nat \ {0}
    /\ MaxRequests \in Nat
    /\ MaxEdits \in Nat
    /\ MaxCrashes \in Nat
    /\ MaxBoots \in Nat
    /\ MaxDbErrors \in Nat
    /\ MaxFaults \in Nat

VARIABLES
    rows,      \* translation_index: id -> row
    older,     \* requested_at: id -> the ids requested strictly before it
    maps,      \* index_mapping rows
    notes,     \* build_notes: id -> the ordered pairs the build skipped
    reclaim,   \* index_reclaim: ids of deleted indexes to clean up
    pref,      \* translation -> preferred scheme (None: translation deleted)
    stamp,     \* updated_at of every translation and scheme
    txn,       \* the HTTP request in flight, or None
    w,         \* the index worker that holds the build lock
    down,      \* TRUE between a crash of the worker's process and its restart
    spent      \* how often each bounded event has happened

vars == <<rows, older, maps, notes, reclaim, pref, stamp, txn, w, down, spent>>

catalog == <<pref, stamp>>
-----------------------------------------------------------------------------
(* translation_index rows *)

INDEX_STATUSES == {"pending", "building", "ready", "failed", "cancelled"}

\* A row that was never inserted, and one that was deleted.
NoRow == [status |-> "none", tr |-> None, scheme |-> None,
          explicit |-> FALSE, cancel |-> FALSE, fp |-> None]
GoneRow == [NoRow EXCEPT !.status = "gone"]

Exists(i) == rows[i].status \in INDEX_STATUSES
Gone(i) == rows[i].status = "gone"
WithStatus(st) == {i \in Ids : rows[i].status = st}

\* uq_translation_index_pair: is the pair (t, s) taken by an index other than i?
Clash(t, s, i) ==
    \E j \in Ids \ {i} : Exists(j) /\ rows[j].tr = t /\ rows[j].scheme = s

\* requested_at := now for every id of S at once.
Restamped(S) == [i \in Ids |-> IF i \in S THEN Ids \ S ELSE older[i] \ S]

\* The UPDATE the unit of work emits: an attribute is written if its assigned value
\* differs from the value loaded, and no version column guards the row.
Merge(stored, loaded, assigned) == IF assigned = loaded THEN stored ELSE assigned

Flush(stored, loaded, assigned) ==
    [status   |-> Merge(stored.status, loaded.status, assigned.status),
     tr       |-> Merge(stored.tr, loaded.tr, assigned.tr),
     scheme   |-> Merge(stored.scheme, loaded.scheme, assigned.scheme),
     explicit |-> Merge(stored.explicit, loaded.explicit, assigned.explicit),
     cancel   |-> Merge(stored.cancel, loaded.cancel, assigned.cancel),
     fp       |-> Merge(stored.fp, loaded.fp, assigned.fp)]
-----------------------------------------------------------------------------
(* What a mapping row is computed from *)

\* build_chain: the scheme, then the preferred scheme of its base translation.
Chain(s) == [head |-> s,
             tail |-> IF BasedOn[s] = None THEN None ELSE pref[BasedOn[s]]]

\* numbering_nodes of the chain of s: the base translation of each hop, or the
\* translation that prefers the root scheme the chain ends in.
PreferredOwner(s) == {t \in Translations : pref[t] = s}

NumberingNodes(s) ==
    IF BasedOn[s] = None THEN PreferredOwner(s) ELSE {BasedOn[s]}

SharedAncestor(s, t) == NumberingNodes(s) \cap NumberingNodes(t) # {}

\* build_resolve_path: everything the payload of a row depends on.
Path(s, t) == [from |-> Chain(s), to |-> Chain(t)]

\* index_fingerprint.
Digest(t, s) ==
    [tr |-> t, at |-> stamp[t], chain |-> Chain(s), headAt |-> stamp[s],
     tailAt |-> IF Chain(s).tail = None THEN 0 ELSE stamp[Chain(s).tail]]
-----------------------------------------------------------------------------
(* index_mapping rows *)

Outbound(i) == {m \in maps : m.src = i}
Inbound(i) == {m \in maps : m.tgt = i}
MappingsOf(i) == Outbound(i) \cup Inbound(i)

\* One page of a side: LIMIT chunk_size rows, any of them.
PageOf(side) ==
    {p \in SUBSET side :
        Cardinality(p) = IF Cardinality(side) < ChunkSize
                         THEN Cardinality(side) ELSE ChunkSize}

\* delete_mapping_chunk: a page of each direction.
DeletePages(i) == {p \cup q : p \in PageOf(Outbound(i)), q \in PageOf(Inbound(i))}

\* _upsert_chunk: insert, or replace the payload on conflict.
Upserted(a, b, p) ==
    {m \in maps : m.src # a \/ m.tgt # b} \cup {[src |-> a, tgt |-> b, path |-> p]}
-----------------------------------------------------------------------------
(* Types *)

Chains == [head : Schemes, tail : Schemes \cup {None}]
Paths == [from : Chains, to : Chains]
Digests == [tr : Translations, at : Nat, chain : Chains, headAt : Nat, tailAt : Nat]
Rows == [status : INDEX_STATUSES, tr : Translations, scheme : Schemes,
         explicit : BOOLEAN, cancel : BOOLEAN, fp : Digests \cup {None}]
Mappings == [src : Ids, tgt : Ids, path : Paths]
=============================================================================
