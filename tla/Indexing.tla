------------------------------ MODULE Indexing ------------------------------
(***************************************************************************)
(* The indexing component: HTTP requests, the index worker and faults over *)
(* one database, and what must hold of them.                               *)
(***************************************************************************)
EXTENDS IndexRequests, IndexWorker

Init ==
    /\ rows = [i \in Ids |-> NoRow]
    /\ older = [i \in Ids |-> {}]
    /\ maps = {}
    /\ notes = [i \in Ids |-> {}]
    /\ reclaim = {}
    /\ pref = Preferred0
    /\ stamp = [x \in Translations \cup Schemes |-> 0]
    /\ txn = None
    /\ w = Idle
    /\ down = FALSE
    /\ spent = [requests |-> 0, crashes |-> 0, boots |-> 0, errors |-> 0]

\* A process that is down serves no request.
Next == (~down /\ Request) \/ Worker \/ Fault

Spec == Init /\ [][Next]_vars

\* The worker thread polls for ever, the supervisor restarts a dead process, a
\* request that reached its handler commits, and a queue that is empty again and
\* again is swept once the timer is due.
Fairness ==
    /\ WF_vars(Worker)
    /\ WF_vars(Restart)
    /\ WF_vars(CommitDrop \/ CommitUpdate)
    /\ SF_vars(SweepFingerprints)

FairSpec == Spec /\ Fairness
-----------------------------------------------------------------------------
(* Types *)

WorkerPcs == {"idle", "queue", "open", "check", "cancel", "clear", "pair", "write",
              "back", "rewrite", "finish", "publish", "fail"}

TxnOK ==
    txn # None =>
        /\ txn.op \in Requeueing \cup Dropping \cup {"cancel"}
        /\ txn.tr \in Translations \cup Schemes \cup {None}
        /\ txn.scheme \in Schemes \cup {None}
        /\ DOMAIN txn.seen \subseteq Ids
        /\ \A i \in DOMAIN txn.seen : txn.seen[i] \in Rows

Workers == [pc : WorkerPcs, id : Ids \cup {None}, row : Rows \cup {NoRow},
            next : {"idle", "clear", "pair", "back"}, src : Schemes \cup {None},
            todo : SUBSET Ids, other : Ids \cup {None}, tgt : Schemes \cup {None},
            path : Paths \cup {None}, fp : Digests \cup {None}]

\* Type correctness of the tables, of the request in flight and of the worker.
TypeOK ==
    /\ rows \in [Ids -> Rows \cup {NoRow, GoneRow}]
    /\ older \in [Ids -> SUBSET Ids]
    /\ maps \subseteq Mappings
    /\ notes \in [Ids -> SUBSET (Ids \X Ids)]
    /\ reclaim \subseteq Ids
    /\ pref \in [Translations -> Schemes \cup {None}]
    /\ stamp \in [Translations \cup Schemes -> 0..MaxEdits]
    /\ TxnOK
    /\ w \in Workers
    /\ down \in BOOLEAN
    /\ spent \in [requests : 0..MaxRequests, crashes : 0..MaxCrashes,
                  boots : 0..MaxBoots, errors : 0..MaxDbErrors]
-----------------------------------------------------------------------------
(* Safety *)

\* A mapping row of a deleted index is always on its way out: its index has an
\* entry in the reclaim queue, also when the index was deleted while a build was
\* still writing rows for it (queue_reclaim, drain_reclaim, purge_orphan_mappings).
OrphansTracked ==
    \A m \in maps : \A i \in {m.src, m.tgt} : Gone(i) => i \in reclaim

\* The pair (a, b) was materialized, or the build that skipped it noted so.
Covered(a, b) ==
    \/ \E m \in maps : m.src = a /\ m.tgt = b
    \/ <<a, b>> \in notes[a] \cup notes[b]

\* Any two ready indexes are materialized in both directions, whichever of them
\* was built last and whatever happened to the other meanwhile: what
\* find_ready_pair's callers rely on to answer from the index (build_index).
ReadyPairsCovered ==
    \A a, b \in WithStatus("ready") : a # b => Covered(a, b)

\* The scheme on i's side of a mapping row.
SideOf(m, i) == IF m.src = i THEN m.path.from.head ELSE m.path.to.head

\* When an index becomes ready, every row of it, in either direction, was computed
\* on the scheme its new fingerprint records, whatever was pinned or preferred
\* during the build: a re-pinned index keeps no row of its former scheme
\* (build_index clears both directions, then resolves with one source_scheme).
PublishedRowsMatch ==
    [][\A i \in Ids : rows'[i].status = "ready" /\ rows[i].status # "ready"
            => \A m \in MappingsOf(i) : SideOf(m, i) = rows'[i].fp.chain.head]_vars
-----------------------------------------------------------------------------
(* Claims of the code's own comments *)

\* build_index: "Publishes ready only while the row is still building and not
\* cancel requested, so a concurrent rebuild or cancel wins."
ConcurrentRequestWins ==
    [][\A i \in Ids : rows'[i].status = "ready" /\ rows[i].status # "ready"
                          => rows[i].status = "building" /\ ~rows[i].cancel]_vars

\* index_fingerprint: its digest "changes whenever this index's inputs change";
\* so a row that is out of date is betrayed by the fingerprint of its source or
\* of its target, and the next sweep rebuilds it.
StaleIsDetected ==
    \A m \in maps :
        /\ {m.src, m.tgt} \subseteq WithStatus("ready")
        /\ m.path # Path(rows[m.src].scheme, rows[m.tgt].scheme)
        => {m.src, m.tgt} \cap StaleIndexes # {}
-----------------------------------------------------------------------------
(* The inductive invariant behind the safety properties *)

Working == w.pc \notin {"idle", "queue"}

\* The step the build is at, or will be at after the check it is in.
Stage == IF w.pc \in {"check", "cancel"} THEN w.next ELSE w.pc

\* The rows of the build's index have been cleared.
Cleared == Stage \in {"pair", "write", "back", "rewrite", "finish", "publish", "fail"}

\* The stages at which a counterpart is being worked on.
Pairing == Stage \in {"write", "back", "rewrite"}

\* What the steps of a build find in the worker's local variables.
WorkerOK ==
    Working =>
        /\ w.id \in Ids
        /\ rows[w.id].status \notin {"none", "ready"}
        /\ w.id \notin w.todo
        /\ w.pc \in {"check", "cancel"} => w.next # "idle"
        /\ w.pc \in {"cancel", "clear", "publish"} => w.row # NoRow
        /\ w.row # NoRow /\ Exists(w.id) => w.row.fp = rows[w.id].fp
        /\ Cleared => w.src \in Schemes
        /\ Pairing => w.other \in w.todo /\ w.tgt \in Schemes
        /\ w.pc \in {"write", "rewrite"} => w.path \in Paths
        /\ w.pc \in {"finish", "publish"} => w.todo = {} /\ w.next = "pair"
        /\ w.pc = "publish" => w.fp \in Digests /\ w.fp.chain.head = w.src

\* What a commit finds in the request in flight.
RequestOK ==
    txn # None =>
        /\ \A i \in DOMAIN txn.seen : Exists(i)
        /\ txn.op \in {"pin", "prefer"} => txn.scheme \in Schemes
        /\ txn.op \in {"prefer", "drop"} => txn.tr \in Translations
        /\ txn.op = "edit" => txn.tr \in Translations \cup Schemes
                               /\ stamp[txn.tr] < MaxEdits

\* An index deleted under a build stays in the reclaim queue until the build ends.
BuildTracksOrphans ==
    Working => \A i \in w.todo \cup {w.id} :
        rows[i].status # "none" /\ (Gone(i) => i \in reclaim)

\* A build has covered every ready index that is not on its list any more.
BuildCovers ==
    Working /\ w.pc # "open" =>
        /\ \A b \in WithStatus("ready") \ w.todo :
               Cleared /\ Covered(w.id, b) /\ Covered(b, w.id)
        /\ Stage \in {"back", "rewrite"} => Covered(w.id, w.other)

\* A cleared index has only rows of the build's source scheme.
BuildMatches ==
    Working /\ Cleared =>
        /\ \A m \in MappingsOf(w.id) : SideOf(m, w.id) = w.src
        /\ w.pc = "write" => w.path.from.head = w.src
        /\ w.pc = "rewrite" => w.path.to.head = w.src

IInv ==
    /\ TypeOK
    /\ WorkerOK
    /\ RequestOK
    /\ OrphansTracked
    /\ BuildTracksOrphans
    /\ ReadyPairsCovered
    /\ BuildCovers
    /\ BuildMatches
-----------------------------------------------------------------------------
(* Liveness *)

\* Requests stop coming.
Quiet == <>[][~Request]_vars

Settled ==
    /\ reclaim = {}
    /\ \A m \in maps : Exists(m.src) /\ Exists(m.tgt)
    /\ \A i \in Ids : rows[i].status \notin {"pending", "building"}
    /\ StaleIndexes = {}

\* Once requests stop, the worker brings every index to rest: nothing stays queued
\* or building, no ready index has an outdated fingerprint, and every row of a
\* deleted index is gone, across crashes and restarts (IndexWorker._run).
SettlesWhenQuiet == Quiet => <>[]Settled
=============================================================================
