--------------------------- MODULE IndexingProofs ---------------------------
(***************************************************************************)
(* Theorems of Indexing, for any number of indexes, translations, schemes   *)
(* and requests.                                                           *)
(***************************************************************************)
EXTENDS Indexing, TLAPS

(* Facts about rows *)

\* A flush of one row onto another is a row.
LEMMA FlushType ==
    ASSUME NEW stored \in Rows, NEW loaded \in Rows, NEW assigned \in Rows
    PROVE  Flush(stored, loaded, assigned) \in Rows
BY DEF Flush, Merge, Rows

\* An existing index has a row of the table.
LEMMA ExistsInRows ==
    ASSUME TypeOK, NEW i \in Ids
    PROVE  Exists(i) <=> rows[i] \in Rows
BY DEF TypeOK, Exists, Rows, NoRow, GoneRow, INDEX_STATUSES

\* A request never assigns ready, and leaves the fingerprint alone.
LEMMA AssignedType ==
    ASSUME NEW op \in Requeueing \cup {"cancel"}, NEW s, NEW r \in Rows,
           op \in {"pin", "prefer"} => s \in Schemes
    PROVE  /\ Assigned(op, s, r) \in Rows
           /\ Assigned(op, s, r).fp = r.fp
           /\ Assigned(op, s, r).status # r.status => Assigned(op, s, r).status # "ready"
<1>1. CASE op = "cancel"
  BY <1>1 DEF Assigned, CancelAssigned, Rows, INDEX_STATUSES
<1>2. CASE op # "cancel"
  BY <1>2 DEF Assigned, Requeued, Rows, INDEX_STATUSES, Requeueing
<1> QED  BY <1>1, <1>2

\* The chain of a scheme, and the path between two.
LEMMA ChainType ==
    ASSUME TypeOK, NEW s \in Schemes
    PROVE  Chain(s) \in Chains /\ Chain(s).head = s
BY CatalogAssumption DEF TypeOK, Chain, Chains

LEMMA PathType ==
    ASSUME TypeOK, NEW s \in Schemes, NEW t \in Schemes
    PROVE  Path(s, t) \in Paths /\ Path(s, t).from.head = s /\ Path(s, t).to.head = t
BY ChainType DEF Path, Paths

LEMMA DigestType ==
    ASSUME TypeOK, NEW t \in Translations, NEW s \in Schemes
    PROVE  Digest(t, s) \in Digests /\ Digest(t, s).chain.head = s
<1>1. Chain(s) \in Chains /\ Chain(s).head = s
  BY ChainType
<1>2. stamp[t] \in Nat /\ stamp[s] \in Nat
  BY BoundsAssumption DEF TypeOK
<1>3. Chain(s).tail # None => Chain(s).tail \in Schemes
  BY <1>1 DEF Chains
<1>4. Chain(s).tail # None => stamp[Chain(s).tail] \in Nat
  BY <1>3, BoundsAssumption DEF TypeOK
<1> QED  BY <1>1, <1>2, <1>4 DEF Digest, Digests
-----------------------------------------------------------------------------
(* The initial states *)

LEMMA InitInv == Init => IInv
<1> SUFFICES ASSUME Init PROVE IInv
  OBVIOUS
<1>1. TypeOK
  <2>1. pref \in [Translations -> Schemes \cup {None}]
    BY CatalogAssumption DEF Init
  <2>2. w \in Workers
    BY DEF Init, Idle, Workers, WorkerPcs
  <2>3. spent \in [requests : 0..MaxRequests, crashes : 0..MaxCrashes,
                   boots : 0..MaxBoots, errors : 0..MaxDbErrors]
    BY BoundsAssumption DEF Init
  <2>4. stamp \in [Translations \cup Schemes -> 0..MaxEdits]
    BY BoundsAssumption DEF Init
  <2> QED  BY <2>1, <2>2, <2>3, <2>4 DEF Init, TypeOK, TxnOK
<1>2. ~Working
  BY DEF Init, Idle, Working
<1>3. WithStatus("ready") = {}
  BY DEF Init, WithStatus, NoRow
<1> QED
  BY <1>1, <1>2, <1>3 DEF Init, IInv, WorkerOK, RequestOK, OrphansTracked,
     BuildTracksOrphans, ReadyPairsCovered, BuildCovers, BuildMatches
-----------------------------------------------------------------------------
(* How the parts of IInv survive a step, by what the step changes *)

\* A stuttering step.
LEMMA StutterInv == IInv /\ UNCHANGED vars => IInv'
<1> SUFFICES ASSUME IInv, UNCHANGED vars PROVE IInv'
  OBVIOUS
<1> USE DEF vars, IInv
<1>1. TypeOK' /\ RequestOK'
  BY DEF TypeOK, TxnOK, RequestOK, Exists
<1>2. OrphansTracked' /\ ReadyPairsCovered'
  BY DEF OrphansTracked, ReadyPairsCovered, Gone, WithStatus, Covered
<1>3. WorkerOK'
  BY DEF WorkerOK, Working, Stage, Cleared, Pairing, Exists
<1>4. BuildTracksOrphans'
  BY DEF BuildTracksOrphans, Working, Gone
<1>5. BuildCovers'
  BY DEF BuildCovers, Working, Stage, Cleared, WithStatus, Covered
<1>6. BuildMatches'
  BY DEF BuildMatches, Working, Stage, Cleared, MappingsOf, Outbound, Inbound, SideOf
<1> QED  BY <1>1, <1>2, <1>3, <1>4, <1>5, <1>6

\* A step that changes only the request in flight and the counters.
LEMMA RequestStepInv ==
    ASSUME IInv, UNCHANGED dataVars, TxnOK', RequestOK',
           spent' \in [requests : 0..MaxRequests, crashes : 0..MaxCrashes,
                       boots : 0..MaxBoots, errors : 0..MaxDbErrors]
    PROVE  IInv'
<1> USE DEF dataVars, catalog, IInv
<1>1. TypeOK'
  BY DEF TypeOK
<1>2. OrphansTracked' /\ ReadyPairsCovered'
  BY DEF OrphansTracked, ReadyPairsCovered, Gone, WithStatus, Covered
<1>3. WorkerOK'
  BY DEF WorkerOK, Working, Stage, Cleared, Pairing, Exists
<1>4. BuildTracksOrphans'
  BY DEF BuildTracksOrphans, Working, Gone
<1>5. BuildCovers'
  BY DEF BuildCovers, Working, Stage, Cleared, WithStatus, Covered
<1>6. BuildMatches'
  BY DEF BuildMatches, Working, Stage, Cleared, MappingsOf, Outbound, Inbound, SideOf
<1> QED  BY <1>1, <1>2, <1>3, <1>4, <1>5, <1>6

\* What every step that is not the worker's does to the rows: no index becomes
\* ready, none is inserted under a used id, a fingerprint does not change, and an
\* index that is deleted enters the reclaim queue.
RowsOnly ==
    /\ \A i \in Ids :
        /\ rows'[i].status = "ready" => rows[i].status = "ready"
        /\ rows[i].status # "none" => rows'[i].status # "none"
        /\ rows[i].status # "none" /\ Exists(i)' => Exists(i) /\ rows'[i].fp = rows[i].fp
        /\ Gone(i)' => Gone(i) \/ i \in reclaim'
    /\ reclaim \subseteq reclaim'
    /\ UNCHANGED <<maps, notes>>

LEMMA RowsOnlyOrphans ==
    ASSUME TypeOK, OrphansTracked, RowsOnly
    PROVE  OrphansTracked'
BY DEF TypeOK, RowsOnly, OrphansTracked, Mappings, Gone

LEMMA RowsOnlyCovered ==
    ASSUME ReadyPairsCovered, RowsOnly
    PROVE  ReadyPairsCovered'
BY DEF RowsOnly, ReadyPairsCovered, WithStatus, Covered

\* The worker's part survives such a step.
LEMMA RowsOnlyWorker ==
    ASSUME IInv, RowsOnly, w' = w, TypeOK'
    PROVE  WorkerOK' /\ BuildTracksOrphans' /\ BuildCovers' /\ BuildMatches'
<1> USE DEF IInv, RowsOnly, Working, Stage, Cleared, Pairing
<1>1. WorkerOK'
  BY DEF WorkerOK
<1>2. BuildTracksOrphans'
  <2> SUFFICES ASSUME Working, NEW i \in w.todo \cup {w.id}
               PROVE  rows'[i].status # "none" /\ (Gone(i)' => i \in reclaim')
    BY DEF BuildTracksOrphans
  <2>1. i \in Ids
    BY DEF TypeOK, WorkerOK, Workers
  <2> QED  BY <2>1 DEF BuildTracksOrphans
<1>3. BuildCovers'
  BY DEF BuildCovers, WithStatus, Covered
<1>4. BuildMatches'
  BY DEF BuildMatches, MappingsOf, Outbound, Inbound, SideOf
<1> QED  BY <1>1, <1>2, <1>3, <1>4

\* Nothing is asked of the worker once its pass is over.
LEMMA EndPassInv ==
    ASSUME EndPass
    PROVE  /\ WorkerOK' /\ BuildTracksOrphans' /\ BuildCovers' /\ BuildMatches'
           /\ w' \in Workers
BY DEF EndPass, Idle, Working, WorkerOK, BuildTracksOrphans, BuildCovers, BuildMatches,
   Workers, WorkerPcs
-----------------------------------------------------------------------------
(* Requests *)

LEMMA InFlightInv ==
    ASSUME IInv, UNCHANGED dataVars,
           NEW op \in Requeueing \cup Dropping \cup {"cancel"},
           NEW t \in Translations \cup Schemes \cup {None},
           NEW s \in Schemes \cup {None}, NEW S \in SUBSET Ids,
           InFlight(op, t, s, S),
           \A i \in S : Exists(i),
           op \in {"pin", "prefer"} => s \in Schemes,
           op \in {"prefer", "drop"} => t \in Translations,
           op = "edit" => t \in Translations \cup Schemes /\ stamp[t] < MaxEdits
    PROVE  IInv'
<1>1. spent' \in [requests : 0..MaxRequests, crashes : 0..MaxCrashes,
                  boots : 0..MaxBoots, errors : 0..MaxDbErrors]
  BY BoundsAssumption DEF IInv, TypeOK, InFlight
<1>2. \A i \in S : rows[i] \in Rows
  BY ExistsInRows DEF IInv
<1>3. /\ txn'.op = op /\ txn'.tr = t /\ txn'.scheme = s
      /\ txn'.seen = [i \in S |-> rows[i]]
  BY DEF InFlight
<1>4. DOMAIN txn'.seen = S /\ \A i \in S : txn'.seen[i] = rows[i]
  BY <1>3
<1>5. TxnOK'
  BY <1>2, <1>3, <1>4 DEF TxnOK
<1>6. RequestOK'
  BY <1>3, <1>4 DEF RequestOK, dataVars, catalog, Exists
<1> QED  BY <1>1, <1>5, <1>6, RequestStepInv

LEMMA LoadIndexInv ==
    ASSUME IInv, NEW i \in Ids,
           \/ LoadRebuild(i) \/ LoadCancel(i) \/ LoadDelete(i)
           \/ \E s \in Schemes : LoadSetVersification(i, s)
    PROVE  IInv'
<1> USE InFlightInv DEF Requeueing, Dropping
<1>1. CASE LoadRebuild(i)
  BY <1>1 DEF LoadRebuild
<1>2. CASE LoadCancel(i)
  BY <1>2 DEF LoadCancel, Exists, INDEX_STATUSES
<1>3. CASE LoadDelete(i)
  BY <1>3 DEF LoadDelete
<1>4. ASSUME NEW s \in Schemes, LoadSetVersification(i, s) PROVE IInv'
  BY <1>4 DEF LoadSetVersification
<1> QED  BY <1>1, <1>2, <1>3, <1>4

LEMMA LoadTranslationInv ==
    ASSUME IInv, NEW t \in Translations,
           \/ LoadUpdateTranslation(t) \/ LoadDeleteTranslation(t)
           \/ \E s \in Schemes : LoadMakePreferred(t, s)
    PROVE  IInv'
<1> USE InFlightInv DEF Requeueing, Dropping
<1>1. CASE LoadUpdateTranslation(t)
  BY <1>1 DEF LoadUpdateTranslation, IndexesOf
<1>2. CASE LoadDeleteTranslation(t)
  BY <1>2 DEF LoadDeleteTranslation, IndexesOf
<1>3. ASSUME NEW s \in Schemes, LoadMakePreferred(t, s) PROVE IInv'
  <2> DEFINE S == {k \in IndexesOf(t) : /\ ~rows[k].explicit
                                        /\ rows[k].scheme # s
                                        /\ ~Clash(t, s, k)}
  <2>1. S \in SUBSET Ids /\ \A k \in S : Exists(k)
    BY DEF IndexesOf
  <2>2. InFlight("prefer", t, s, S) /\ UNCHANGED dataVars
    BY <1>3 DEF LoadMakePreferred
  <2> HIDE DEF S
  <2> QED  BY <2>1, <2>2
<1> QED  BY <1>1, <1>2, <1>3

LEMMA LoadSchemeInv ==
    ASSUME IInv, NEW s \in Schemes, LoadUpdateVersification(s)
    PROVE  IInv'
BY InFlightInv DEF LoadUpdateVersification, IndexesOn, Requeueing

\* The parts that a step on rows and requests, with the worker unchanged, keeps.
LEMMA RowsOnlyInv ==
    ASSUME IInv, RowsOnly, w' = w, TypeOK', RequestOK'
    PROVE  IInv'
BY RowsOnlyOrphans, RowsOnlyCovered, RowsOnlyWorker DEF IInv

LEMMA CreateInv ==
    ASSUME IInv, NEW i \in Ids, NEW t \in Translations, NEW s \in Schemes,
           NEW explicit \in BOOLEAN, CreateIndex(i, t, explicit, s)
    PROVE  IInv'
<1> DEFINE new == [status |-> "pending", tr |-> t, scheme |-> s,
                   explicit |-> explicit, cancel |-> FALSE, fp |-> None]
<1>1. /\ rows[i].status = "none" /\ rows' = [rows EXCEPT ![i] = new]
      /\ older' = Restamped({i})
      /\ txn = None
      /\ UNCHANGED <<maps, notes, reclaim, catalog, txn, w, down, spent>>
  BY DEF CreateIndex
<1>2. new \in Rows
  BY DEF Rows, INDEX_STATUSES
<1>3. TypeOK'
  <2>1. rows' \in [Ids -> Rows \cup {NoRow, GoneRow}]
    BY <1>1, <1>2 DEF IInv, TypeOK
  <2>2. older' \in [Ids -> SUBSET Ids]
    BY <1>1 DEF IInv, TypeOK, Restamped
  <2> QED  BY <1>1, <2>1, <2>2 DEF IInv, TypeOK, catalog, TxnOK
<1>4. RequestOK'
  BY <1>1 DEF RequestOK
<1>5. RowsOnly
  <2>1. \A k \in Ids : k # i => rows'[k] = rows[k]
    BY <1>1 DEF IInv, TypeOK
  <2>2. rows'[i] = new
    BY <1>1 DEF IInv, TypeOK
  <2> QED  BY <1>1, <2>1, <2>2 DEF RowsOnly, Exists, Gone
<1> QED  BY <1>1, <1>3, <1>4, <1>5, RowsOnlyInv

LEMMA CommitDropInv == IInv /\ CommitDrop => IInv' /\ RowsOnly
<1> SUFFICES ASSUME IInv, CommitDrop PROVE IInv' /\ RowsOnly
  OBVIOUS
<1> DEFINE S == DOMAIN txn.seen
<1>1. /\ txn # None /\ txn.op \in Dropping /\ txn' = None
      /\ rows' = [i \in Ids |-> IF i \in S THEN GoneRow ELSE rows[i]]
      /\ reclaim' = reclaim \cup S
      /\ pref' = IF txn.op = "drop" THEN [pref EXCEPT ![txn.tr] = None] ELSE pref
      /\ UNCHANGED <<older, maps, notes, stamp, w, down, spent>>
  BY DEF CommitDrop
<1>2. S \subseteq Ids
  BY <1>1 DEF IInv, TypeOK, TxnOK
<1>3. TypeOK'
  <2>1. rows' \in [Ids -> Rows \cup {NoRow, GoneRow}]
    BY <1>1 DEF IInv, TypeOK
  <2>2. pref' \in [Translations -> Schemes \cup {None}]
    BY <1>1 DEF IInv, TypeOK
  <2> QED  BY <1>1, <1>2, <2>1, <2>2 DEF IInv, TypeOK, TxnOK
<1>4. RequestOK'
  BY <1>1 DEF RequestOK
<1>5. RowsOnly
  BY <1>1 DEF RowsOnly, GoneRow, NoRow, Exists, Gone, INDEX_STATUSES
<1> QED  BY <1>1, <1>3, <1>4, <1>5, RowsOnlyInv

LEMMA CommitUpdateInv == IInv /\ CommitUpdate => IInv' /\ RowsOnly
<1> SUFFICES ASSUME IInv, CommitUpdate PROVE IInv' /\ RowsOnly
  OBVIOUS
<1> DEFINE S == DOMAIN txn.seen
           A(i) == Assigned(txn.op, txn.scheme, txn.seen[i])
<1>1. /\ txn # None /\ txn.op \notin Dropping /\ txn' = None
      /\ rows' = [i \in Ids |-> IF i \in S THEN Flush(rows[i], txn.seen[i], A(i))
                                ELSE rows[i]]
      /\ older' = IF txn.op \in Requeueing THEN Restamped(S) ELSE older
      /\ stamp' = IF txn.op = "edit" THEN [stamp EXCEPT ![txn.tr] = @ + 1] ELSE stamp
      /\ pref' = IF txn.op = "prefer" THEN [pref EXCEPT ![txn.tr] = txn.scheme] ELSE pref
      /\ UNCHANGED <<maps, notes, reclaim, w, down, spent>>
  BY DEF CommitUpdate
<1>2. S \subseteq Ids /\ txn.op \in Requeueing \cup {"cancel"}
  BY <1>1 DEF IInv, TypeOK, TxnOK
<1>3. ASSUME NEW i \in S
      PROVE  /\ rows[i] \in Rows /\ txn.seen[i] \in Rows /\ A(i) \in Rows
             /\ A(i).fp = txn.seen[i].fp
             /\ A(i).status # txn.seen[i].status => A(i).status # "ready"
  <2>1. rows[i] \in Rows
    BY <1>1, <1>2, ExistsInRows DEF IInv, RequestOK
  <2>2. txn.seen[i] \in Rows
    BY <1>1 DEF IInv, TypeOK, TxnOK
  <2>3. txn.op \in {"pin", "prefer"} => txn.scheme \in Schemes
    BY <1>1 DEF IInv, RequestOK
  <2> QED  BY <2>1, <2>2, <2>3, <1>2, AssignedType
<1>4. ASSUME NEW i \in S
      PROVE  /\ Flush(rows[i], txn.seen[i], A(i)) \in Rows
             /\ Flush(rows[i], txn.seen[i], A(i)).fp = rows[i].fp
             /\ Flush(rows[i], txn.seen[i], A(i)).status = "ready" => rows[i].status = "ready"
  <2> HIDE DEF A
  <2>1. Flush(rows[i], txn.seen[i], A(i)) \in Rows
    BY <1>3, FlushType
  <2> QED  BY <1>3, <2>1 DEF Flush, Merge
<1> HIDE DEF A
<1>5. TypeOK'
  <2>1. rows' \in [Ids -> Rows \cup {NoRow, GoneRow}]
    BY <1>1, <1>4 DEF IInv, TypeOK
  <2>2. pref' \in [Translations -> Schemes \cup {None}]
    <3>1. txn.op = "prefer" => txn.scheme \in Schemes
      BY <1>1 DEF IInv, RequestOK
    <3> QED  BY <1>1, <3>1 DEF IInv, TypeOK
  <2>3. stamp' \in [Translations \cup Schemes -> 0..MaxEdits]
    <3>1. txn.op = "edit" => txn.tr \in Translations \cup Schemes /\ stamp[txn.tr] < MaxEdits
      BY <1>1 DEF IInv, RequestOK
    <3>2. stamp \in [Translations \cup Schemes -> 0..MaxEdits]
      BY DEF IInv, TypeOK
    <3>3. txn.op = "edit" => stamp[txn.tr] + 1 \in 0..MaxEdits
      BY <3>1, <3>2, BoundsAssumption
    <3> QED  BY <1>1, <3>1, <3>2, <3>3
  <2>4. older' \in [Ids -> SUBSET Ids]
    BY <1>1, <1>2 DEF IInv, TypeOK, Restamped
  <2> QED  BY <1>1, <2>1, <2>2, <2>3, <2>4 DEF IInv, TypeOK, TxnOK
<1>6. RequestOK'
  BY <1>1 DEF RequestOK
<1>7. RowsOnly
  <2> SUFFICES ASSUME NEW i \in Ids
      PROVE  /\ rows'[i].status = "ready" => rows[i].status = "ready"
             /\ rows[i].status # "none" => rows'[i].status # "none"
             /\ rows[i].status # "none" /\ Exists(i)' => Exists(i) /\ rows'[i].fp = rows[i].fp
             /\ Gone(i)' => Gone(i) \/ i \in reclaim'
    BY <1>1 DEF RowsOnly
  <2>1. CASE i \notin S
    BY <1>1, <2>1 DEF Exists, Gone
  <2>2. CASE i \in S
    <3>1. rows'[i] = Flush(rows[i], txn.seen[i], A(i))
      BY <1>1, <2>2
    <3>2. /\ rows'[i].fp = rows[i].fp
          /\ rows'[i].status = "ready" => rows[i].status = "ready"
      BY <1>4, <2>2, <3>1
    <3>3. rows[i].status \in INDEX_STATUSES /\ rows'[i].status \in INDEX_STATUSES
      BY <1>3, <1>4, <2>2, <3>1 DEF Rows
    <3> QED  BY <3>2, <3>3 DEF Exists, Gone, INDEX_STATUSES
  <2> QED  BY <2>1, <2>2
<1> QED  BY <1>1, <1>5, <1>6, <1>7, RowsOnlyInv

LEMMA RequestInv == IInv /\ Request => IInv'
BY LoadIndexInv, LoadTranslationInv, LoadSchemeInv, CreateInv, CommitDropInv,
   CommitUpdateInv DEF Request
-----------------------------------------------------------------------------
(* The worker: claiming, sweeping, giving up *)

\* The request in flight does not mind a step that deletes no index.
LEMMA RequestKept ==
    ASSUME RequestOK, UNCHANGED <<txn, stamp>>, TypeOK,
           \A i \in Ids : Exists(i) => Exists(i)'
    PROVE  RequestOK'
BY DEF RequestOK, TypeOK, TxnOK

\* A step on the rows that ends the pass.
LEMMA EndPassRowsInv ==
    ASSUME IInv, RowsOnly, EndPass, RequestOK',
           rows' \in [Ids -> Rows \cup {NoRow, GoneRow}], older' \in [Ids -> SUBSET Ids],
           UNCHANGED <<reclaim, pref, stamp>>, TxnOK', down' \in BOOLEAN,
           spent' \in [requests : 0..MaxRequests, crashes : 0..MaxCrashes,
                       boots : 0..MaxBoots, errors : 0..MaxDbErrors]
    PROVE  IInv'
<1>1. /\ WorkerOK' /\ BuildTracksOrphans' /\ BuildCovers' /\ BuildMatches'
      /\ w' \in Workers
  BY EndPassInv
<1>2. TypeOK'
  BY <1>1 DEF IInv, TypeOK, RowsOnly
<1> QED  BY <1>1, <1>2, RowsOnlyOrphans, RowsOnlyCovered DEF IInv

\* Setting the status of one existing index to one that is not ready.
LEMMA SetStatus ==
    ASSUME TypeOK, NEW i \in Ids, Exists(i), NEW r \in Rows,
           r.fp = rows[i].fp, r.status # "ready", rows' = [rows EXCEPT ![i] = r],
           UNCHANGED <<maps, notes, reclaim>>
    PROVE  /\ RowsOnly
           /\ rows' \in [Ids -> Rows \cup {NoRow, GoneRow}]
           /\ \A k \in Ids : Exists(k) => Exists(k)'
<1>1. rows'[i] = r /\ \A k \in Ids : k # i => rows'[k] = rows[k]
  BY DEF TypeOK
<1>2. r.status \in INDEX_STATUSES
  BY DEF Rows
<1>3. rows' \in [Ids -> Rows \cup {NoRow, GoneRow}]
  BY DEF TypeOK
<1> QED  BY <1>1, <1>2, <1>3 DEF RowsOnly, Exists, Gone, INDEX_STATUSES

LEMMA ClaimInv == \A i \in Ids : IInv /\ ClaimNext(i) => IInv'
<1> SUFFICES ASSUME NEW i \in Ids, IInv, ClaimNext(i) PROVE IInv'
  OBVIOUS
<1>1. /\ rows[i].status = "pending" /\ Exists(i) /\ rows[i] \in Rows
      /\ UNCHANGED <<maps, notes, older, reclaim, pref, stamp, txn, down, spent>>
  BY ExistsInRows DEF ClaimNext, WithStatus, envVars, catalog, Exists, INDEX_STATUSES, IInv
<1>2. CASE rows[i].cancel
  <2> DEFINE r == [rows[i] EXCEPT !.status = "cancelled", !.cancel = FALSE]
  <2>1. rows' = [rows EXCEPT ![i] = r] /\ EndPass
    BY <1>2 DEF ClaimNext
  <2>2. r \in Rows /\ r.fp = rows[i].fp /\ r.status # "ready"
    BY <1>1 DEF Rows, INDEX_STATUSES
  <2> HIDE DEF r
  <2>3. /\ RowsOnly /\ rows' \in [Ids -> Rows \cup {NoRow, GoneRow}]
        /\ \A k \in Ids : Exists(k) => Exists(k)'
    BY <1>1, <2>1, <2>2, SetStatus DEF IInv
  <2> QED  BY <1>1, <2>1, <2>3, RequestKept, EndPassRowsInv DEF IInv, TypeOK, TxnOK
<1>3. CASE ~rows[i].cancel
  <2> DEFINE r == [rows[i] EXCEPT !.status = "building"]
  <2>1. /\ rows' = [rows EXCEPT ![i] = r]
        /\ w' = [Idle EXCEPT !.pc = "open", !.id = i]
    BY <1>3 DEF ClaimNext
  <2>2. r \in Rows /\ r.fp = rows[i].fp /\ r.status = "building"
    BY <1>1 DEF Rows, INDEX_STATUSES
  <2> HIDE DEF r
  <2>3. /\ RowsOnly /\ rows' \in [Ids -> Rows \cup {NoRow, GoneRow}]
        /\ \A k \in Ids : Exists(k) => Exists(k)'
    BY <1>1, <2>1, <2>2, SetStatus DEF IInv
  <2>4. RequestOK'
    BY <1>1, <2>3, RequestKept DEF IInv
  <2>5. /\ w'.pc = "open" /\ w'.id = i /\ w'.todo = {} /\ w'.row = NoRow
        /\ w' \in Workers
    BY <2>1 DEF Idle, Workers, WorkerPcs
  <2>6. TypeOK'
    BY <1>1, <2>3, <2>5 DEF IInv, TypeOK, TxnOK
  <2>7. rows'[i].status = "building"
    BY <2>1, <2>2 DEF IInv, TypeOK
  <2>8. WorkerOK'
    BY <2>5, <2>7 DEF WorkerOK, Working, Cleared, Pairing, Stage
  <2>9. BuildTracksOrphans' /\ BuildCovers' /\ BuildMatches'
    BY <2>5, <2>7 DEF BuildTracksOrphans, BuildCovers, BuildMatches, Working, Cleared,
       Stage, Gone
  <2> QED
    BY <2>3, <2>4, <2>6, <2>8, <2>9, RowsOnlyOrphans, RowsOnlyCovered DEF IInv
<1> QED  BY <1>2, <1>3

LEMMA SweepInv == IInv /\ (SweepFingerprints \/ SkipSweep) => IInv'
<1>1. ASSUME IInv, SweepFingerprints PROVE IInv'
  <2>1. /\ rows' = [i \in Ids |-> IF i \in StaleIndexes
                          THEN [rows[i] EXCEPT !.status = "pending", !.cancel = FALSE]
                          ELSE rows[i]]
        /\ older' = Restamped(StaleIndexes) /\ EndPass
        /\ UNCHANGED <<maps, notes, reclaim, pref, stamp, txn, down, spent>>
    BY <1>1 DEF SweepFingerprints, catalog
  <2>2. ASSUME NEW i \in StaleIndexes
        PROVE  i \in Ids /\ rows[i] \in Rows /\ rows[i].status = "ready"
    BY <1>1, ExistsInRows DEF StaleIndexes, WithStatus, Exists, INDEX_STATUSES, IInv
  <2>3. ASSUME NEW i \in StaleIndexes
        PROVE  /\ [rows[i] EXCEPT !.status = "pending", !.cancel = FALSE] \in Rows
               /\ rows'[i].status = "pending" /\ rows'[i].fp = rows[i].fp
    BY <2>1, <2>2 DEF Rows, INDEX_STATUSES
  <2>4. rows' \in [Ids -> Rows \cup {NoRow, GoneRow}]
    BY <1>1, <2>1, <2>3 DEF IInv, TypeOK
  <2>5. \A i \in Ids : i \notin StaleIndexes => rows'[i] = rows[i]
    BY <2>1
  <2>6. RowsOnly /\ \A i \in Ids : Exists(i) => Exists(i)'
    BY <2>1, <2>2, <2>3, <2>5 DEF RowsOnly, Exists, Gone, INDEX_STATUSES
  <2>7. older' \in [Ids -> SUBSET Ids]
    BY <1>1, <2>1 DEF Restamped, IInv, TypeOK
  <2> QED
    BY <1>1, <2>1, <2>4, <2>6, <2>7, RequestKept, EndPassRowsInv DEF IInv, TypeOK, TxnOK
<1>2. ASSUME IInv, SkipSweep PROVE IInv'
  <2>1. EndPass /\ UNCHANGED <<rows, maps, notes, older, reclaim, pref, stamp, txn, down, spent>>
    BY <1>2 DEF SkipSweep, envVars, catalog
  <2>2. RowsOnly /\ \A i \in Ids : Exists(i) => Exists(i)'
    BY <2>1 DEF RowsOnly, Exists, Gone
  <2> QED
    BY <1>2, <2>1, <2>2, RequestKept, EndPassRowsInv DEF IInv, TypeOK, TxnOK
<1> QED  BY <1>1, <1>2
-----------------------------------------------------------------------------
(* The worker: reclaiming and building *)

\* A page holds only rows of the index it is taken from.
LEMMA PageSubset ==
    ASSUME NEW i, NEW page \in DeletePages(i)
    PROVE  page \subseteq MappingsOf(i)
<1>1. PICK p \in PageOf(Outbound(i)), q \in PageOf(Inbound(i)) : page = p \cup q
  BY DEF DeletePages
<1>2. p \subseteq Outbound(i) /\ q \subseteq Inbound(i)
  BY DEF PageOf
<1> QED  BY <1>1, <1>2 DEF MappingsOf

LEMMA DrainInv == IInv /\ DrainReclaim => IInv'
<1> SUFFICES ASSUME IInv, DrainReclaim PROVE IInv'
  OBVIOUS
<1>1. /\ w' = [Idle EXCEPT !.pc = "queue"]
      /\ UNCHANGED <<rows, older, notes, pref, stamp, txn, down, spent>>
  BY DEF DrainReclaim, catalog
<1>2. w' \in Workers /\ w'.pc = "queue"
  BY <1>1 DEF Idle, Workers, WorkerPcs
<1>3. WorkerOK' /\ BuildTracksOrphans' /\ BuildCovers' /\ BuildMatches'
  BY <1>2 DEF Working, WorkerOK, BuildTracksOrphans, BuildCovers, BuildMatches
<1>4. RequestOK'
  BY <1>1, RequestKept DEF IInv, Exists
<1>5. maps' \subseteq maps /\ reclaim' \subseteq reclaim
  BY DEF DrainReclaim
<1>6. TypeOK'
  BY <1>1, <1>2, <1>5 DEF IInv, TypeOK, TxnOK
<1>7. OrphansTracked'
  <2>1. CASE reclaim' = reclaim
    BY <1>1, <1>5, <2>1 DEF IInv, OrphansTracked, Gone
  <2>2. ASSUME NEW i \in reclaim, Exists(i), reclaim' = reclaim \ {i}, maps' = maps
        PROVE  OrphansTracked'
    BY <1>1, <2>2 DEF IInv, OrphansTracked, Gone, Exists, INDEX_STATUSES
  <2>3. ASSUME NEW i \in reclaim, NEW page \in DeletePages(i), maps' = maps \ page,
               MappingsOf(i) \subseteq page, reclaim' = reclaim \ {i}
        PROVE  OrphansTracked'
    BY <1>1, <2>3 DEF IInv, OrphansTracked, Gone, MappingsOf, Outbound, Inbound
  <2> QED  BY <2>1, <2>2, <2>3 DEF DrainReclaim
<1>8. ReadyPairsCovered'
  <2>1. CASE maps' = maps
    BY <1>1, <2>1 DEF IInv, ReadyPairsCovered, WithStatus, Covered
  <2>2. ASSUME NEW i \in reclaim, ~Exists(i), NEW page \in DeletePages(i),
               maps' = maps \ page
        PROVE  ReadyPairsCovered'
    <3>1. page \subseteq MappingsOf(i)
      BY PageSubset
    <3>2. rows[i].status # "ready"
      BY <2>2 DEF Exists, INDEX_STATUSES
    <3> QED
      BY <1>1, <2>2, <3>1, <3>2 DEF IInv, ReadyPairsCovered, WithStatus, Covered,
         MappingsOf, Outbound, Inbound
  <2> QED  BY <2>1, <2>2 DEF DrainReclaim
<1> QED  BY <1>3, <1>4, <1>6, <1>7, <1>8 DEF IInv

\* What the read of its own row gives a build.
LEMMA LoadedType ==
    ASSUME IInv, Working
    PROVE  /\ Loaded \in Rows \cup {GoneRow}
           /\ Loaded.status = "building" => Loaded \in Rows /\ Loaded # NoRow
           /\ Exists(w.id) => Loaded.fp = rows[w.id].fp
<1>1. w.id \in Ids /\ rows[w.id].status # "none"
  BY DEF IInv, WorkerOK
<1>2. rows[w.id] \in Rows \cup {GoneRow}
  BY <1>1 DEF IInv, TypeOK, NoRow
<1>3. w.row \in Rows \cup {NoRow}
  BY DEF IInv, TypeOK, Workers
<1>4. GoneRow.status = "gone" /\ NoRow.status = "none"
  BY DEF GoneRow, NoRow
<1> QED  BY <1>1, <1>2, <1>3, <1>4 DEF Loaded, IInv, WorkerOK

\* A step of a build changes neither rows nor requests.
BuildStep ==
    /\ Working /\ UNCHANGED <<rows, older, reclaim, pref, stamp, txn, down, spent>>
    /\ w' \in Workers
    /\ maps' \subseteq Mappings
    /\ notes' \in [Ids -> SUBSET (Ids \X Ids)]

LEMMA BuildStepType ==
    ASSUME IInv, BuildStep
    PROVE  TypeOK' /\ RequestOK'
BY RequestKept DEF IInv, TypeOK, TxnOK, BuildStep, Exists

\* A build step that writes no mapping row and forgets no note.
LEMMA QuietStepInv ==
    ASSUME IInv, BuildStep, maps' = maps, \A i \in Ids : notes[i] \subseteq notes'[i]
    PROVE  OrphansTracked' /\ ReadyPairsCovered'
BY DEF IInv, BuildStep, OrphansTracked, ReadyPairsCovered, WithStatus, Covered, Gone

LEMMA OpenBuildInv == IInv /\ OpenBuild => IInv'
<1> SUFFICES ASSUME IInv, OpenBuild PROVE IInv'
  OBVIOUS
<1>1. /\ w.pc = "open" /\ Working
      /\ UNCHANGED <<rows, maps, older, reclaim, pref, stamp, txn, down, spent>>
  BY DEF OpenBuild, At, Working, envVars, catalog
<1>2. w.id \in Ids /\ rows[w.id].status \notin {"none", "ready"}
  BY <1>1 DEF IInv, WorkerOK
<1>3. CASE Gone(w.id)
  <2>1. EndPass /\ notes' = notes
    BY <1>3 DEF OpenBuild
  <2>2. RowsOnly /\ \A i \in Ids : Exists(i) => Exists(i)'
    BY <1>1, <2>1 DEF RowsOnly, Exists, Gone
  <2> QED
    BY <1>1, <2>1, <2>2, RequestKept, EndPassRowsInv DEF IInv, TypeOK, TxnOK
<1>4. CASE ~Gone(w.id)
  <2>1. /\ notes' = [notes EXCEPT ![w.id] = {}]
        /\ w' = [w EXCEPT !.pc = "check", !.next = "clear",
                          !.todo = WithStatus("ready") \ {w.id}]
    BY <1>4 DEF OpenBuild
  <2>2. /\ w'.pc = "check" /\ w'.next = "clear" /\ w'.id = w.id
        /\ w'.todo = WithStatus("ready") \ {w.id} /\ w'.row = w.row
        /\ w' \in Workers
    BY <2>1 DEF IInv, TypeOK, Workers, WorkerPcs, WithStatus
  <2>3. notes' \in [Ids -> SUBSET (Ids \X Ids)]
    BY <2>1 DEF IInv, TypeOK
  <2>4. TypeOK' /\ RequestOK'
    BY <1>1, <2>2, <2>3, BuildStepType DEF BuildStep, IInv, TypeOK
  <2>5. OrphansTracked'
    BY <1>1 DEF IInv, OrphansTracked, Gone
  <2>6. ReadyPairsCovered'
    <3>1. \A a, b \in WithStatus("ready") : Covered(a, b) => Covered(a, b)'
      <4> SUFFICES ASSUME NEW a \in Ids, NEW b \in Ids, a # w.id, b # w.id
                   PROVE  Covered(a, b) => Covered(a, b)'
        BY <1>2 DEF WithStatus
      <4>1. notes'[a] = notes[a] /\ notes'[b] = notes[b]
        BY <2>1 DEF IInv, TypeOK
      <4> QED  BY <1>1, <4>1 DEF Covered
    <3> QED  BY <1>1, <3>1 DEF IInv, ReadyPairsCovered, WithStatus
  <2>7. WorkerOK'
    BY <1>1, <1>2, <2>2 DEF IInv, WorkerOK, Working, Cleared, Pairing, Stage, Exists
  <2>8. BuildTracksOrphans'
    BY <1>1, <2>2 DEF IInv, BuildTracksOrphans, Working, WithStatus, Gone
  <2>9. BuildCovers' /\ BuildMatches'
    BY <1>1, <1>2, <2>2 DEF BuildCovers, BuildMatches, Cleared, Stage, WithStatus
  <2> QED  BY <2>4, <2>5, <2>6, <2>7, <2>8, <2>9 DEF IInv
<1> QED  BY <1>3, <1>4

\* A build goes on with the same index and no new counterparts.
LEMMA SameBuild ==
    ASSUME IInv, BuildStep, w'.id = w.id, w'.todo \subseteq w.todo
    PROVE  BuildTracksOrphans'
BY DEF IInv, BuildStep, BuildTracksOrphans, Gone

\* A step that gives up without touching the row.
LEMMA GiveUpInv ==
    ASSUME IInv, EndPass, UNCHANGED <<rows, maps, notes, older, reclaim, pref, stamp>>,
           TxnOK', RequestOK', down' \in BOOLEAN,
           spent' \in [requests : 0..MaxRequests, crashes : 0..MaxCrashes,
                       boots : 0..MaxBoots, errors : 0..MaxDbErrors]
    PROVE  IInv'
BY EndPassRowsInv DEF IInv, TypeOK, RowsOnly, Exists, Gone

LEMMA StopInv == IInv /\ StopIfNotCurrent => IInv'
<1> SUFFICES ASSUME IInv, StopIfNotCurrent PROVE IInv'
  OBVIOUS
<1>1. /\ w.pc = "check" /\ Working
      /\ UNCHANGED <<rows, maps, notes, older, reclaim, pref, stamp, txn, down, spent>>
  BY DEF StopIfNotCurrent, At, Working, envVars, catalog
<1>2. CASE Loaded.status # "building"
  <2>1. EndPass
    BY <1>2 DEF StopIfNotCurrent, EndPass
  <2>2. RequestOK' /\ TxnOK'
    BY <1>1 DEF IInv, TypeOK, RequestOK, TxnOK, Exists
  <2> QED  BY <1>1, <2>1, <2>2, GiveUpInv DEF IInv, TypeOK
<1>3. CASE Loaded.status = "building"
  <2> DEFINE pc == IF Loaded.cancel THEN "cancel" ELSE w.next
  <2>1. w' = [w EXCEPT !.row = Loaded, !.pc = pc]
    BY <1>3 DEF StopIfNotCurrent
  <2>2. /\ Loaded \in Rows /\ Loaded # NoRow
        /\ Exists(w.id) => Loaded.fp = rows[w.id].fp
    BY <1>1, <1>3, LoadedType
  <2>3. w.next \in {"clear", "pair", "back"}
    BY <1>1 DEF IInv, TypeOK, Workers, WorkerOK
  <2> HIDE DEF pc
  <2>4. pc \in {"cancel", w.next}
    BY DEF pc
  <2>5. /\ w'.pc = pc /\ w'.row = Loaded /\ w'.id = w.id /\ w'.next = w.next
        /\ w'.src = w.src /\ w'.todo = w.todo /\ w'.other = w.other /\ w'.tgt = w.tgt
        /\ w'.path = w.path /\ w'.fp = w.fp
    BY <2>1 DEF IInv, TypeOK, Workers
  <2>6. w' \in Workers
    BY <2>1, <2>2, <2>3, <2>4 DEF IInv, TypeOK, Workers, WorkerPcs
  <2>7. BuildStep
    BY <1>1, <2>6 DEF BuildStep, IInv, TypeOK
  <2>8. Stage' = Stage /\ Working'
    BY <1>1, <2>3, <2>4, <2>5 DEF Stage, Working
  <2>9. WorkerOK'
    BY <1>1, <2>2, <2>3, <2>4, <2>5, <2>8 DEF IInv, WorkerOK, Cleared, Pairing, Exists
  <2>10. BuildCovers' /\ BuildMatches'
    BY <1>1, <2>3, <2>4, <2>5, <2>8 DEF IInv, BuildCovers, BuildMatches, Cleared,
       WithStatus, Covered, MappingsOf, Outbound, Inbound, SideOf
  <2> QED
    BY <1>1, <2>5, <2>7, <2>9, <2>10, BuildStepType, SameBuild, QuietStepInv DEF IInv
<1> QED  BY <1>2, <1>3

LEMMA ClearInv == IInv /\ ClearMappings => IInv'
<1> SUFFICES ASSUME IInv, ClearMappings PROVE IInv'
  OBVIOUS
<1>1. /\ w.pc = "clear" /\ Working /\ Stage = "clear" /\ ~Cleared
      /\ w.id \in Ids /\ rows[w.id].status \notin {"none", "ready"}
      /\ w.row \in Rows
      /\ UNCHANGED <<rows, notes, older, reclaim, pref, stamp, txn, down, spent>>
  BY DEF ClearMappings, At, Working, envVars, catalog, Stage, Cleared, IInv, WorkerOK,
     TypeOK, Workers
<1>2. WithStatus("ready") \subseteq w.todo
  BY <1>1 DEF IInv, BuildCovers
<1>3. CASE MappingsOf(w.id) = {}
  <2>1. /\ maps' = maps
        /\ w' = [w EXCEPT !.src = w.row.scheme, !.next = "pair",
                          !.pc = IF w.todo = {} THEN "finish" ELSE "pair"]
    BY <1>3 DEF ClearMappings
  <2>2. /\ w'.pc = (IF w.todo = {} THEN "finish" ELSE "pair") /\ w'.row = w.row
        /\ w'.id = w.id /\ w'.src \in Schemes /\ w'.todo = w.todo /\ w'.next = "pair"
    BY <1>1, <2>1 DEF IInv, TypeOK, Workers, Rows
  <2>3. w' \in Workers
    BY <1>1, <2>1 DEF IInv, TypeOK, Workers, WorkerPcs, Rows
  <2>4. BuildStep
    BY <1>1, <2>1, <2>3 DEF BuildStep, IInv, TypeOK
  <2>5. WorkerOK'
    BY <1>1, <2>2 DEF IInv, WorkerOK, Working, Cleared, Pairing, Stage, Exists
  <2>6. BuildCovers' /\ BuildMatches'
    BY <1>1, <1>2, <1>3, <2>1, <2>2 DEF BuildCovers, BuildMatches, Stage,
       WithStatus, MappingsOf, Outbound, Inbound
  <2> QED
    BY <1>1, <2>1, <2>2, <2>4, <2>5, <2>6, BuildStepType, SameBuild, QuietStepInv
    DEF IInv
<1>4. CASE MappingsOf(w.id) # {}
  <2>1. PICK page \in DeletePages(w.id) : maps' = maps \ page
    BY <1>4 DEF ClearMappings
  <2>2. page \subseteq MappingsOf(w.id)
    BY PageSubset
  <2>3. w' = [w EXCEPT !.row = NoRow, !.pc = "check", !.next = "clear"]
    BY <1>4 DEF ClearMappings
  <2>4. /\ w'.pc = "check" /\ w'.next = "clear" /\ w'.row = NoRow
        /\ w'.id = w.id /\ w'.todo = w.todo /\ w' \in Workers
    BY <2>3 DEF IInv, TypeOK, Workers, WorkerPcs
  <2>5. BuildStep
    BY <1>1, <2>1, <2>4 DEF BuildStep, IInv, TypeOK
  <2>6. WorkerOK'
    BY <1>1, <2>4 DEF IInv, WorkerOK, Working, Cleared, Pairing, Stage
  <2>7. BuildCovers' /\ BuildMatches'
    BY <1>1, <1>2, <2>4 DEF BuildCovers, BuildMatches, Stage, Cleared, WithStatus
  <2>8. OrphansTracked'
    BY <1>1, <2>1 DEF IInv, OrphansTracked, Gone
  <2>9. ReadyPairsCovered'
    BY <1>1, <2>1, <2>2 DEF IInv, ReadyPairsCovered, WithStatus, Covered, MappingsOf,
       Outbound, Inbound
  <2> QED
    BY <1>1, <2>4, <2>5, <2>6, <2>7, <2>8, <2>9, BuildStepType, SameBuild DEF IInv
<1> QED  BY <1>3, <1>4

\* The facts a build step at a stage past clearing starts from.
LEMMA AtPair ==
    ASSUME IInv, w.pc \in {"pair", "write", "back", "rewrite"}
    PROVE  /\ Working /\ Stage = w.pc /\ Cleared
           /\ w.id \in Ids /\ w.id \notin w.todo /\ w.todo \subseteq Ids
           /\ rows[w.id].status \notin {"none", "ready"} /\ w.src \in Schemes
           /\ w.pc # "pair" => w.other \in w.todo /\ w.tgt \in Schemes
BY DEF IInv, WorkerOK, Working, Cleared, Pairing, Stage, TypeOK, Workers

\* Adding a note for the build's index.
LEMMA NoteType ==
    ASSUME IInv, w.id \in Ids, NEW a \in Ids, NEW b \in Ids, Note(a, b)
    PROVE  /\ notes' \in [Ids -> SUBSET (Ids \X Ids)]
           /\ \A i \in Ids : notes[i] \subseteq notes'[i]
           /\ <<a, b>> \in notes'[w.id]
BY DEF IInv, TypeOK, Note

LEMMA PairOpenInv == \A o \in Ids : IInv /\ PairOpen(o) => IInv'
<1> SUFFICES ASSUME NEW o \in Ids, IInv, PairOpen(o) PROVE IInv'
  OBVIOUS
<1>1. /\ w.pc = "pair" /\ o \in w.todo
      /\ UNCHANGED <<rows, maps, older, reclaim, pref, stamp, txn, down, spent>>
  BY DEF PairOpen, At, envVars, catalog
<1>2. /\ Working /\ Stage = "pair" /\ Cleared /\ w.id \in Ids /\ w.id \notin w.todo
      /\ rows[w.id].status \notin {"none", "ready"} /\ w.src \in Schemes
  BY <1>1, AtPair
<1>3. /\ w \in Workers /\ notes \in [Ids -> SUBSET (Ids \X Ids)] /\ maps \subseteq Mappings
  BY DEF IInv, TypeOK
<1>4. ASSUME BuildStep, w'.id = w.id, w'.todo = w.todo, w'.src = w.src, w'.row = w.row,
             w'.pc \in {"fail", "write", "back"},
             \A i \in Ids : notes[i] \subseteq notes'[i],
             w'.pc # "fail" => w'.other = o /\ w'.tgt \in Schemes,
             w'.pc = "write" => w'.path \in Paths /\ w'.path.from.head = w.src,
             w'.pc = "back" => <<w.id, o>> \in notes'[w.id]
      PROVE  IInv'
  <2>1. Working' /\ Stage' = w'.pc /\ Cleared'
    BY <1>4 DEF Working, Stage, Cleared
  <2>2. WorkerOK'
    BY <1>1, <1>2, <1>4, <2>1 DEF IInv, WorkerOK, Pairing, Exists
  <2>3. BuildCovers'
    <3>1. \A b \in WithStatus("ready") \ w.todo :
             Covered(w.id, b) /\ Covered(b, w.id)
      BY <1>1, <1>2 DEF IInv, BuildCovers
    <3>2. \A a, b \in Ids : Covered(a, b) => Covered(a, b)'
      BY <1>1, <1>4 DEF Covered
    <3>3. w'.pc = "back" => Covered(w.id, o)'
      BY <1>4 DEF Covered
    <3> QED
      BY <1>1, <1>2, <1>4, <2>1, <3>1, <3>2, <3>3 DEF BuildCovers, WithStatus
  <2>4. BuildMatches'
    BY <1>1, <1>2, <1>4, <2>1 DEF IInv, BuildMatches, MappingsOf, Outbound, Inbound, SideOf
  <2> QED
    BY <1>1, <1>4, <2>2, <2>3, <2>4, BuildStepType, SameBuild, QuietStepInv DEF IInv
<1>5. CASE Gone(o)
  <2>1. w' = [w EXCEPT !.pc = "fail"] /\ notes' = notes
    BY <1>5 DEF PairOpen
  <2>2. /\ w'.pc = "fail" /\ w'.id = w.id /\ w'.todo = w.todo /\ w'.src = w.src
        /\ w'.row = w.row /\ w' \in Workers
    BY <1>3, <2>1 DEF Workers, WorkerPcs
  <2> QED  BY <1>1, <1>2, <1>3, <1>4, <2>1, <2>2 DEF BuildStep
<1>6. CASE ~Gone(o)
  <2> DEFINE s == rows[o].scheme
  <2>1. rows[o] \in Rows
    <3>1. rows[o].status # "none"
      BY <1>1, <1>2 DEF IInv, BuildTracksOrphans
    <3> QED  BY <1>6, <3>1 DEF IInv, TypeOK, Gone, NoRow, GoneRow
  <2>2. s \in Schemes
    BY <2>1 DEF Rows
  <2>3. CASE SharedAncestor(w.src, s)
    <3>1. /\ w' = [w EXCEPT !.pc = "write", !.other = o, !.tgt = s, !.path = Path(w.src, s)]
          /\ notes' = notes
      BY <1>6, <2>3 DEF PairOpen
    <3>2. Path(w.src, s) \in Paths /\ Path(w.src, s).from.head = w.src
      BY <1>2, <2>2, PathType DEF IInv
    <3> HIDE DEF s
    <3>3. /\ w'.pc = "write" /\ w'.id = w.id /\ w'.todo = w.todo /\ w'.src = w.src
          /\ w'.row = w.row /\ w'.other = o /\ w'.tgt = s /\ w'.path = Path(w.src, s)
      BY <1>3, <3>1 DEF Workers
    <3>4. w' \in Workers
      BY <1>3, <2>2, <3>1, <3>2 DEF Workers, WorkerPcs
    <3> QED  BY <1>1, <1>2, <1>3, <1>4, <2>2, <3>1, <3>2, <3>3, <3>4 DEF BuildStep
  <2>4. CASE ~SharedAncestor(w.src, s)
    <3>1. /\ w' = [w EXCEPT !.pc = "back", !.other = o, !.tgt = s]
          /\ Note(w.id, o)
      BY <1>6, <2>4 DEF PairOpen
    <3> HIDE DEF s
    <3>2. /\ w'.pc = "back" /\ w'.id = w.id /\ w'.todo = w.todo /\ w'.src = w.src
          /\ w'.row = w.row /\ w'.other = o /\ w'.tgt = s
      BY <1>3, <3>1 DEF Workers
    <3>3. w' \in Workers
      BY <1>3, <2>2, <3>1 DEF Workers, WorkerPcs
    <3>4. /\ notes' \in [Ids -> SUBSET (Ids \X Ids)]
          /\ \A i \in Ids : notes[i] \subseteq notes'[i]
          /\ <<w.id, o>> \in notes'[w.id]
      BY <1>2, <3>1, NoteType
    <3> QED  BY <1>1, <1>2, <1>3, <1>4, <2>2, <3>2, <3>3, <3>4 DEF BuildStep
  <2> QED  BY <2>3, <2>4
<1> QED  BY <1>5, <1>6

\* Writing a row keeps what was covered, and covers its pair.
LEMMA UpsertCovers ==
    ASSUME IInv, NEW a \in Ids, NEW b \in Ids, NEW p \in Paths,
           maps' = Upserted(a, b, p), notes' = notes
    PROVE  /\ maps' \subseteq Mappings
           /\ \A c, d \in Ids : Covered(c, d) => Covered(c, d)'
           /\ Covered(a, b)'
<1> DEFINE new == [src |-> a, tgt |-> b, path |-> p]
<1>1. new \in Mappings /\ new.src = a /\ new.tgt = b
  BY DEF Mappings
<1>2. new \in maps' /\ maps' \subseteq maps \cup {new}
  BY DEF Upserted
<1>3. \A m \in maps : m \in maps' \/ (m.src = a /\ m.tgt = b)
  BY DEF Upserted
<1> HIDE DEF new
<1>4. maps' \subseteq Mappings
  BY <1>1, <1>2 DEF IInv, TypeOK
<1>5. Covered(a, b)'
  BY <1>1, <1>2 DEF Covered
<1>6. \A c, d \in Ids : Covered(c, d) => Covered(c, d)'
  BY <1>1, <1>2, <1>3 DEF Covered
<1> QED  BY <1>4, <1>5, <1>6

\* Writing a row between two indexes of the build leaves no untracked orphan.
LEMMA UpsertOrphans ==
    ASSUME IInv, Working, UNCHANGED <<rows, reclaim>>,
           NEW a \in w.todo \cup {w.id}, NEW b \in w.todo \cup {w.id}, NEW p,
           maps' = Upserted(a, b, p)
    PROVE  OrphansTracked'
<1>1. /\ Gone(a) => a \in reclaim
      /\ Gone(b) => b \in reclaim
  BY DEF IInv, BuildTracksOrphans
<1> QED  BY <1>1 DEF IInv, OrphansTracked, Upserted, Gone

LEMMA WritePairInv == IInv /\ WritePair => IInv'
<1> SUFFICES ASSUME IInv, WritePair PROVE IInv'
  OBVIOUS
<1>1. /\ w.pc = "write" /\ maps' = Upserted(w.id, w.other, w.path) /\ notes' = notes
      /\ w' = [w EXCEPT !.pc = "check", !.next = "back", !.row = NoRow]
      /\ UNCHANGED <<rows, older, reclaim, pref, stamp, txn, down, spent>>
  BY DEF WritePair, At, envVars, catalog
<1>2. /\ Working /\ Stage = "write" /\ Cleared /\ w.id \in Ids /\ w.id \notin w.todo
      /\ w.todo \subseteq Ids /\ rows[w.id].status \notin {"none", "ready"}
      /\ w.src \in Schemes /\ w.other \in w.todo /\ w.tgt \in Schemes
  BY <1>1, AtPair
<1>3. w.path \in Paths /\ w.path.from.head = w.src
  BY <1>1, <1>2 DEF IInv, WorkerOK, BuildMatches
<1>4. /\ w'.pc = "check" /\ w'.next = "back" /\ w'.row = NoRow /\ w'.id = w.id
      /\ w'.todo = w.todo /\ w'.src = w.src /\ w'.other = w.other /\ w'.tgt = w.tgt
      /\ w' \in Workers
  BY <1>1 DEF IInv, TypeOK, Workers, WorkerPcs
<1>5. /\ maps' \subseteq Mappings
      /\ \A c, d \in Ids : Covered(c, d) => Covered(c, d)'
      /\ Covered(w.id, w.other)'
  BY <1>1, <1>2, <1>3, UpsertCovers
<1>6. BuildStep
  BY <1>1, <1>2, <1>4, <1>5 DEF BuildStep, IInv, TypeOK
<1>7. OrphansTracked'
  BY <1>1, <1>2, UpsertOrphans
<1>8. ReadyPairsCovered'
  BY <1>1, <1>5 DEF IInv, ReadyPairsCovered, WithStatus
<1>9. WorkerOK'
  BY <1>1, <1>2, <1>4 DEF IInv, WorkerOK, Working, Cleared, Pairing, Stage
<1>10. BuildCovers'
  <2>1. \A b \in WithStatus("ready") \ w.todo : Covered(w.id, b) /\ Covered(b, w.id)
    BY <1>1, <1>2 DEF IInv, BuildCovers
  <2> QED
    BY <1>1, <1>2, <1>4, <1>5, <2>1 DEF BuildCovers, WithStatus, Cleared, Stage
<1>11. BuildMatches'
  <2>1. \A m \in MappingsOf(w.id) : SideOf(m, w.id) = w.src
    BY <1>2 DEF IInv, BuildMatches
  <2> QED
    BY <1>1, <1>2, <1>3, <1>4, <2>1 DEF BuildMatches, MappingsOf, Outbound, Inbound,
       SideOf, Upserted
<1> QED
  BY <1>4, <1>6, <1>7, <1>8, <1>9, <1>10, <1>11, BuildStepType, SameBuild DEF IInv

\* Going on to the next counterpart, the present one covered in both directions.
LEMMA NextPairInv ==
    ASSUME IInv, w.pc \in {"back", "rewrite"}, w' = NextPair, NEW o, o = w.other,
           UNCHANGED <<rows, older, reclaim, pref, stamp, txn, down, spent>>,
           maps' \subseteq Mappings, notes' \in [Ids -> SUBSET (Ids \X Ids)],
           \A c, d \in Ids : Covered(c, d) => Covered(c, d)',
           Covered(o, w.id)',
           OrphansTracked',
           \A m \in MappingsOf(w.id)' : SideOf(m, w.id) = w.src
    PROVE  IInv'
<1>2. /\ Working /\ Stage = w.pc /\ Cleared /\ w.id \in Ids /\ w.id \notin w.todo
      /\ w.todo \subseteq Ids /\ rows[w.id].status \notin {"none", "ready"}
      /\ w.src \in Schemes /\ w.other \in w.todo /\ w.tgt \in Schemes
  BY AtPair
<1>4. /\ w'.pc = (IF w.todo \subseteq {w.other} THEN "finish" ELSE "check")
      /\ w'.next = "pair" /\ w'.row = NoRow /\ w'.id = w.id
      /\ w'.todo = w.todo \ {w.other} /\ w'.src = w.src /\ w' \in Workers
  BY DEF NextPair, IInv, TypeOK, Workers, WorkerPcs
<1>6. BuildStep
  BY <1>2, <1>4 DEF BuildStep
<1>8. ReadyPairsCovered'
  BY DEF IInv, ReadyPairsCovered, WithStatus
<1>9. WorkerOK'
  BY <1>2, <1>4 DEF IInv, WorkerOK, Working, Cleared, Pairing, Stage
<1>10. BuildCovers'
  <2>1. \A b \in WithStatus("ready") \ w.todo : Covered(w.id, b) /\ Covered(b, w.id)
    BY <1>2 DEF IInv, BuildCovers
  <2>2. Covered(w.id, w.other)
    BY <1>2 DEF IInv, BuildCovers
  <2> QED
    BY <1>2, <1>4, <2>1, <2>2 DEF BuildCovers, WithStatus, Cleared, Stage
<1>11. BuildMatches'
  BY <1>2, <1>4 DEF BuildMatches, SideOf
<1> QED
  BY <1>4, <1>6, <1>8, <1>9, <1>10, <1>11, BuildStepType, SameBuild DEF IInv

LEMMA PairBackInv == IInv /\ PairBack => IInv'
<1> SUFFICES ASSUME IInv, PairBack PROVE IInv'
  OBVIOUS
<1>1. /\ w.pc = "back"
      /\ UNCHANGED <<rows, maps, older, reclaim, pref, stamp, txn, down, spent>>
  BY DEF PairBack, At, envVars, catalog
<1>2. /\ Working /\ Stage = "back" /\ Cleared /\ w.id \in Ids /\ w.id \notin w.todo
      /\ w.todo \subseteq Ids /\ rows[w.id].status \notin {"none", "ready"}
      /\ w.src \in Schemes /\ w.other \in w.todo /\ w.tgt \in Schemes
  BY <1>1, AtPair
<1>3. /\ w \in Workers /\ notes \in [Ids -> SUBSET (Ids \X Ids)] /\ maps \subseteq Mappings
  BY DEF IInv, TypeOK
<1>4. ASSUME w'.pc \in {"fail", "rewrite"}, notes' = notes, w' \in Workers,
             w'.id = w.id, w'.todo = w.todo, w'.src = w.src, w'.row = w.row,
             w'.other = w.other, w'.tgt = w.tgt,
             w'.pc = "rewrite" => w'.path \in Paths /\ w'.path.to.head = w.src
      PROVE  IInv'
  <2>1. Working' /\ Stage' = w'.pc /\ Cleared'
    BY <1>4 DEF Working, Stage, Cleared
  <2>2. BuildStep
    BY <1>1, <1>2, <1>3, <1>4 DEF BuildStep
  <2>3. WorkerOK'
    BY <1>1, <1>2, <1>4, <2>1 DEF IInv, WorkerOK, Pairing, Exists
  <2>4. BuildCovers'
    BY <1>1, <1>2, <1>4, <2>1 DEF IInv, BuildCovers, WithStatus, Covered
  <2>5. BuildMatches'
    BY <1>1, <1>2, <1>4, <2>1 DEF IInv, BuildMatches, MappingsOf, Outbound, Inbound, SideOf
  <2> QED
    BY <1>1, <1>4, <2>2, <2>3, <2>4, <2>5, BuildStepType, SameBuild, QuietStepInv DEF IInv
<1>5. CASE w' = [w EXCEPT !.pc = "fail"] /\ notes' = notes
  <2>1. /\ w'.pc = "fail" /\ w'.id = w.id /\ w'.todo = w.todo /\ w'.src = w.src
        /\ w'.row = w.row /\ w'.other = w.other /\ w'.tgt = w.tgt /\ w' \in Workers
    BY <1>3, <1>5 DEF Workers, WorkerPcs
  <2> QED  BY <1>4, <1>5, <2>1
<1>6. CASE w' = [w EXCEPT !.pc = "rewrite", !.path = Path(w.tgt, w.src)] /\ notes' = notes
  <2>1. Path(w.tgt, w.src) \in Paths /\ Path(w.tgt, w.src).to.head = w.src
    BY <1>2, PathType DEF IInv
  <2>2. /\ w'.pc = "rewrite" /\ w'.id = w.id /\ w'.todo = w.todo /\ w'.src = w.src
        /\ w'.row = w.row /\ w'.other = w.other /\ w'.tgt = w.tgt
        /\ w'.path = Path(w.tgt, w.src)
    BY <1>3, <1>6 DEF Workers
  <2>3. w' \in Workers
    BY <1>3, <1>6, <2>1 DEF Workers, WorkerPcs
  <2> QED  BY <1>4, <1>6, <2>1, <2>2, <2>3
<1>7. CASE w' = NextPair /\ Note(w.other, w.id)
  <2>1. /\ notes' \in [Ids -> SUBSET (Ids \X Ids)]
        /\ \A i \in Ids : notes[i] \subseteq notes'[i]
        /\ <<w.other, w.id>> \in notes'[w.id]
    BY <1>2, <1>7, NoteType
  <2>2. \A c, d \in Ids : Covered(c, d) => Covered(c, d)'
    BY <1>1, <2>1 DEF Covered
  <2>3. w'.id = w.id
    BY <1>3, <1>7 DEF NextPair, Workers
  <2>5. OrphansTracked'
    BY <1>1 DEF IInv, OrphansTracked, Gone
  <2>6. \A m \in MappingsOf(w.id)' : SideOf(m, w.id) = w.src
    BY <1>1, <1>2, <2>3 DEF IInv, BuildMatches, MappingsOf, Outbound, Inbound
  <2>7. PICK q : q = w.other
    OBVIOUS
  <2>8. Covered(q, w.id)'
    BY <2>1, <2>3, <2>7 DEF Covered
  <2> QED  BY <1>1, <1>3, <1>7, <2>1, <2>2, <2>5, <2>6, <2>7, <2>8, NextPairInv
<1> QED  BY <1>5, <1>6, <1>7 DEF PairBack

LEMMA WriteBackInv == IInv /\ WriteBack => IInv'
<1> SUFFICES ASSUME IInv, WriteBack PROVE IInv'
  OBVIOUS
<1>1. /\ w.pc = "rewrite" /\ maps' = Upserted(w.other, w.id, w.path) /\ notes' = notes
      /\ w' = NextPair
      /\ UNCHANGED <<rows, older, reclaim, pref, stamp, txn, down, spent>>
  BY DEF WriteBack, At, envVars, catalog
<1>2. /\ Working /\ Stage = "rewrite" /\ Cleared /\ w.id \in Ids /\ w.id \notin w.todo
      /\ w.todo \subseteq Ids /\ rows[w.id].status \notin {"none", "ready"}
      /\ w.src \in Schemes /\ w.other \in w.todo /\ w.tgt \in Schemes
  BY <1>1, AtPair
<1>3. w.path \in Paths /\ w.path.to.head = w.src
  BY <1>1, <1>2 DEF IInv, WorkerOK, BuildMatches
<1>4. w'.id = w.id
  BY <1>1 DEF NextPair, IInv, TypeOK, Workers
<1>5. PICK q : q = w.other
  OBVIOUS
<1>6. PICK i : i = w.id
  OBVIOUS
<1>7. /\ maps' \subseteq Mappings
      /\ \A c, d \in Ids : Covered(c, d) => Covered(c, d)'
      /\ Covered(q, i)'
  BY <1>1, <1>2, <1>3, <1>5, <1>6, UpsertCovers
<1>8. Covered(q, w.id)'
  BY <1>4, <1>6, <1>7
<1>9. OrphansTracked'
  BY <1>1, <1>2, UpsertOrphans
<1>10. \A m \in MappingsOf(w.id)' : SideOf(m, w.id) = w.src
  <2>1. \A m \in MappingsOf(w.id) : SideOf(m, w.id) = w.src
    BY <1>2 DEF IInv, BuildMatches
  <2> QED
    BY <1>1, <1>2, <1>3, <1>4, <2>1 DEF MappingsOf, Outbound, Inbound, SideOf, Upserted
<1>11. notes' \in [Ids -> SUBSET (Ids \X Ids)]
  BY <1>1 DEF IInv, TypeOK
<1> QED  BY <1>1, <1>5, <1>7, <1>8, <1>9, <1>10, <1>11, NextPairInv

LEMMA FinishInv == IInv /\ FinishLoad => IInv'
<1> SUFFICES ASSUME IInv, FinishLoad PROVE IInv'
  OBVIOUS
<1>1. /\ w.pc = "finish" /\ Working /\ Stage = "finish" /\ Cleared
      /\ w.id \in Ids /\ rows[w.id].status \notin {"none", "ready"} /\ w.id \notin w.todo
      /\ w.src \in Schemes /\ w.todo = {} /\ w.next = "pair"
      /\ UNCHANGED <<rows, maps, notes, older, reclaim, pref, stamp, txn, down, spent>>
  BY DEF FinishLoad, At, Working, envVars, catalog, Stage, Cleared, IInv, WorkerOK
<1>2. CASE Loaded.status # "building"
  <2>1. EndPass
    BY <1>2 DEF FinishLoad, EndPass
  <2>2. RequestOK' /\ TxnOK'
    BY <1>1 DEF IInv, TypeOK, RequestOK, TxnOK, Exists
  <2> QED  BY <1>1, <2>1, <2>2, GiveUpInv DEF IInv, TypeOK
<1>3. CASE Loaded.status = "building"
  <2>1. /\ Loaded \in Rows /\ Loaded # NoRow
        /\ Exists(w.id) => Loaded.fp = rows[w.id].fp
    BY <1>1, <1>3, LoadedType
  <2>2. /\ Digest(Loaded.tr, w.src) \in Digests
        /\ Digest(Loaded.tr, w.src).chain.head = w.src
    <3>1. Loaded.tr \in Translations
      BY <2>1 DEF Rows
    <3> QED  BY <1>1, <3>1, DigestType DEF IInv
  <2>3. ASSUME w' \in Workers, w'.pc \in {"cancel", "publish"}, w'.row = Loaded,
               w'.id = w.id, w'.todo = {}, w'.src = w.src, w'.next = "pair",
               w'.pc = "publish" => w'.fp = Digest(Loaded.tr, w.src)
        PROVE  IInv'
    <3>1. Working' /\ Stage' \in {"pair", "publish"} /\ Cleared'
      BY <2>3 DEF Working, Stage, Cleared
    <3>2. BuildStep
      BY <1>1, <2>3 DEF BuildStep, IInv, TypeOK
    <3>3. WorkerOK'
      BY <1>1, <2>1, <2>2, <2>3, <3>1 DEF WorkerOK, Pairing, Exists
    <3>4. BuildCovers' /\ BuildMatches'
      BY <1>1, <2>3, <3>1 DEF IInv, BuildCovers, BuildMatches, WithStatus, Covered,
         MappingsOf, Outbound, Inbound, SideOf
    <3> QED
      BY <1>1, <2>3, <3>2, <3>3, <3>4, BuildStepType, SameBuild, QuietStepInv DEF IInv
  <2>4. w \in Workers
    BY DEF IInv, TypeOK
  <2>5. CASE Loaded.cancel
    <3>1. w' = [w EXCEPT !.row = Loaded, !.pc = "cancel"]
      BY <1>3, <2>5 DEF FinishLoad
    <3> QED  BY <1>1, <2>1, <2>3, <2>4, <3>1 DEF Workers, WorkerPcs
  <2>6. CASE ~Loaded.cancel
    <3> DEFINE d == Digest(Loaded.tr, w.src)
    <3>1. w' = [w EXCEPT !.row = Loaded, !.fp = d, !.pc = "publish"]
      BY <1>3, <2>6 DEF FinishLoad
    <3>2. d \in Digests
      BY <2>2
    <3> HIDE DEF d
    <3>3. /\ w' \in Workers /\ w'.pc = "publish" /\ w'.row = Loaded /\ w'.id = w.id
          /\ w'.todo = w.todo /\ w'.src = w.src /\ w'.next = w.next /\ w'.fp = d
      BY <2>1, <2>4, <3>1, <3>2 DEF Workers, WorkerPcs
    <3> QED  BY <1>1, <2>3, <3>3 DEF d
  <2> QED  BY <2>5, <2>6
<1> QED  BY <1>2, <1>3

\* The rows written when a build ends.
LEMMA CurrentRow ==
    ASSUME IInv, Working, ~Gone(w.id)
    PROVE  w.id \in Ids /\ Exists(w.id) /\ rows[w.id] \in Rows /\ rows[w.id].status # "ready"
BY ExistsInRows DEF IInv, TypeOK, WorkerOK, Gone, Exists, NoRow, GoneRow, Rows

LEMMA ApplyCancelInv == IInv /\ ApplyCancel => IInv'
<1> SUFFICES ASSUME IInv, ApplyCancel PROVE IInv'
  OBVIOUS
<1> DEFINE a == [w.row EXCEPT !.status = "cancelled", !.cancel = FALSE]
           r == Flush(rows[w.id], w.row, a)
<1>1. /\ w.pc = "cancel" /\ Working /\ w.row \in Rows /\ EndPass
      /\ rows' = IF Gone(w.id) THEN rows ELSE [rows EXCEPT ![w.id] = r]
      /\ UNCHANGED <<maps, notes, older, reclaim, pref, stamp, txn, down, spent>>
  BY DEF ApplyCancel, At, Working, envVars, catalog, IInv, WorkerOK, TypeOK, Workers
<1>2. a \in Rows /\ a.status = "cancelled" /\ a.fp = w.row.fp
  BY <1>1 DEF Rows, INDEX_STATUSES
<1>3. CASE Gone(w.id)
  <2>1. RequestOK' /\ TxnOK'
    BY <1>1, <1>3 DEF IInv, TypeOK, RequestOK, TxnOK, Exists
  <2> QED  BY <1>1, <1>3, <2>1, GiveUpInv DEF IInv, TypeOK
<1>4. CASE ~Gone(w.id)
  <2>1. w.id \in Ids /\ Exists(w.id) /\ rows[w.id] \in Rows /\ rows[w.id].status # "ready"
    BY <1>1, <1>4, CurrentRow
  <2> HIDE DEF a
  <2>2. r \in Rows
    BY <1>1, <1>2, <2>1, FlushType
  <2>3. r.fp = rows[w.id].fp /\ r.status # "ready"
    BY <1>2, <2>1 DEF Flush, Merge
  <2> HIDE DEF r
  <2>4. /\ RowsOnly /\ rows' \in [Ids -> Rows \cup {NoRow, GoneRow}]
        /\ \A k \in Ids : Exists(k) => Exists(k)'
    BY <1>1, <1>4, <2>1, <2>2, <2>3, SetStatus DEF IInv
  <2> QED  BY <1>1, <2>4, RequestKept, EndPassRowsInv DEF IInv, TypeOK, TxnOK
<1> QED  BY <1>3, <1>4

LEMMA FailInv == IInv /\ FailBuild => IInv'
<1> SUFFICES ASSUME IInv, FailBuild PROVE IInv'
  OBVIOUS
<1>1. /\ w.pc = "fail" /\ Working /\ EndPass
      /\ rows' = IF Gone(w.id) THEN rows ELSE [rows EXCEPT ![w.id].status = "failed"]
      /\ UNCHANGED <<maps, notes, older, reclaim, pref, stamp, txn, down, spent>>
  BY DEF FailBuild, At, Working, envVars, catalog
<1>2. CASE Gone(w.id)
  <2>1. RequestOK' /\ TxnOK'
    BY <1>1, <1>2 DEF IInv, TypeOK, RequestOK, TxnOK, Exists
  <2> QED  BY <1>1, <1>2, <2>1, GiveUpInv DEF IInv, TypeOK
<1>3. CASE ~Gone(w.id)
  <2> DEFINE r == [rows[w.id] EXCEPT !.status = "failed"]
  <2>1. w.id \in Ids /\ Exists(w.id) /\ rows[w.id] \in Rows
    BY <1>1, <1>3, CurrentRow
  <2>2. r \in Rows /\ r.fp = rows[w.id].fp /\ r.status # "ready"
    BY <2>1 DEF Rows, INDEX_STATUSES
  <2>3. rows' = [rows EXCEPT ![w.id] = r]
    BY <1>1, <1>3
  <2> HIDE DEF r
  <2>4. /\ RowsOnly /\ rows' \in [Ids -> Rows \cup {NoRow, GoneRow}]
        /\ \A k \in Ids : Exists(k) => Exists(k)'
    BY <1>1, <2>1, <2>2, <2>3, SetStatus DEF IInv
  <2> QED  BY <1>1, <2>4, RequestKept, EndPassRowsInv DEF IInv, TypeOK, TxnOK
<1> QED  BY <1>2, <1>3

LEMMA PublishInv == IInv /\ Publish => IInv'
<1> SUFFICES ASSUME IInv, Publish PROVE IInv'
  OBVIOUS
<1> DEFINE a == [w.row EXCEPT !.status = "ready", !.fp = w.fp]
           r == Flush(rows[w.id], w.row, a)
<1>1. /\ w.pc = "publish" /\ Working /\ w.row \in Rows /\ EndPass /\ Cleared
      /\ w.fp \in Digests /\ w.todo = {}
      /\ rows' = IF Gone(w.id) THEN rows ELSE [rows EXCEPT ![w.id] = r]
      /\ UNCHANGED <<maps, notes, older, reclaim, pref, stamp, txn, down, spent>>
  BY DEF Publish, At, Working, envVars, catalog, IInv, WorkerOK, TypeOK, Workers,
     Cleared, Stage
<1>2. CASE Gone(w.id)
  <2>1. RequestOK' /\ TxnOK'
    BY <1>1, <1>2 DEF IInv, TypeOK, RequestOK, TxnOK, Exists
  <2> QED  BY <1>1, <1>2, <2>1, GiveUpInv DEF IInv, TypeOK
<1>3. CASE ~Gone(w.id)
  <2>1. w.id \in Ids /\ Exists(w.id) /\ rows[w.id] \in Rows
    BY <1>1, <1>3, CurrentRow
  <2>2. a \in Rows
    BY <1>1 DEF Rows, INDEX_STATUSES
  <2> HIDE DEF a
  <2>3. r \in Rows
    BY <1>1, <2>1, <2>2, FlushType
  <2> HIDE DEF r
  <2>4. rows'[w.id] = r /\ \A k \in Ids : k # w.id => rows'[k] = rows[k]
    BY <1>1, <1>3, <2>1 DEF IInv, TypeOK
  <2>5. rows' \in [Ids -> Rows \cup {NoRow, GoneRow}]
    BY <1>1, <1>3, <2>3 DEF IInv, TypeOK
  <2>6. r.status \in INDEX_STATUSES
    BY <2>3 DEF Rows
  <2>7. \A k \in Ids : Gone(k)' => Gone(k)
    BY <2>4, <2>6 DEF Gone, INDEX_STATUSES
  <2>8. \A k \in Ids : Exists(k) => Exists(k)'
    BY <2>4, <2>6 DEF Exists
  <2>9. /\ WorkerOK' /\ BuildTracksOrphans' /\ BuildCovers' /\ BuildMatches'
        /\ w' \in Workers
    BY <1>1, EndPassInv
  <2>10. TypeOK'
    BY <1>1, <2>5, <2>9 DEF IInv, TypeOK, TxnOK
  <2>11. OrphansTracked'
    BY <1>1, <2>7 DEF IInv, TypeOK, OrphansTracked, Mappings
  <2>12. ReadyPairsCovered'
    <3>1. \A b \in WithStatus("ready") : b # w.id => Covered(w.id, b) /\ Covered(b, w.id)
      BY <1>1 DEF IInv, BuildCovers
    <3>2. \A k \in Ids : k # w.id /\ rows'[k].status = "ready" => k \in WithStatus("ready")
      BY <2>4 DEF WithStatus
    <3>3. \A c, d \in Ids : Covered(c, d) => Covered(c, d)'
      BY <1>1 DEF Covered
    <3> QED  BY <2>1, <3>1, <3>2, <3>3 DEF IInv, ReadyPairsCovered, WithStatus
  <2> QED
    BY <1>1, <2>8, <2>9, <2>10, <2>11, <2>12, RequestKept DEF IInv
<1> QED  BY <1>2, <1>3
-----------------------------------------------------------------------------
(* Faults *)

LEMMA DbErrorInv == IInv /\ DbError => IInv'
<1> SUFFICES ASSUME IInv, DbError PROVE IInv'
  OBVIOUS
<1>1. /\ EndPass /\ spent.errors < MaxDbErrors
      /\ spent' = [spent EXCEPT !.errors = @ + 1]
      /\ UNCHANGED <<rows, maps, notes, older, reclaim, pref, stamp, txn, down>>
  BY DEF DbError, catalog
<1>2. spent' \in [requests : 0..MaxRequests, crashes : 0..MaxCrashes,
                  boots : 0..MaxBoots, errors : 0..MaxDbErrors]
  BY <1>1, BoundsAssumption DEF IInv, TypeOK
<1>3. RequestOK' /\ TxnOK'
  BY <1>1 DEF IInv, TypeOK, RequestOK, TxnOK, Exists
<1> QED  BY <1>1, <1>2, <1>3, GiveUpInv DEF IInv, TypeOK

LEMMA CrashInv == IInv /\ Crash => IInv'
<1> SUFFICES ASSUME IInv, Crash PROVE IInv'
  OBVIOUS
<1>1. /\ EndPass /\ spent.crashes < MaxCrashes /\ down' = TRUE /\ txn' = None
      /\ spent' = [spent EXCEPT !.crashes = @ + 1]
      /\ UNCHANGED <<rows, maps, notes, older, reclaim, pref, stamp>>
  BY DEF Crash, catalog
<1>2. spent' \in [requests : 0..MaxRequests, crashes : 0..MaxCrashes,
                  boots : 0..MaxBoots, errors : 0..MaxDbErrors]
  BY <1>1, BoundsAssumption DEF IInv, TypeOK
<1>3. RequestOK' /\ TxnOK'
  BY <1>1 DEF RequestOK, TxnOK
<1> QED  BY <1>1, <1>2, <1>3, GiveUpInv

LEMMA RecoverInv == IInv /\ (Restart \/ BootBeside) => IInv' /\ RowsOnly
<1> SUFFICES ASSUME IInv, Restart \/ BootBeside PROVE IInv' /\ RowsOnly
  OBVIOUS
<1>1. /\ Recover /\ down' \in BOOLEAN
      /\ UNCHANGED <<maps, notes, older, pref, stamp, txn, w>>
  BY DEF Restart, BootBeside, catalog, IInv, TypeOK
<1>2. spent' \in [requests : 0..MaxRequests, crashes : 0..MaxCrashes,
                  boots : 0..MaxBoots, errors : 0..MaxDbErrors]
  <2>1. CASE Restart
    BY <2>1 DEF Restart, IInv, TypeOK
  <2>2. CASE BootBeside
    BY <2>2, BoundsAssumption DEF BootBeside, IInv, TypeOK
  <2> QED  BY <2>1, <2>2
<1>3. ASSUME NEW i \in Ids
      PROVE  /\ rows'[i] \in Rows \cup {NoRow, GoneRow}
             /\ rows[i] \notin Rows => rows'[i] = rows[i]
             /\ rows[i] \in Rows => rows'[i] \in Rows /\ rows'[i].fp = rows[i].fp
             /\ rows'[i].status = "ready" => rows[i].status = "ready"
  <2>1. rows'[i] = Recovered(rows[i])
    BY <1>1 DEF Recover
  <2>2. rows[i] \in Rows \cup {NoRow, GoneRow}
    BY DEF IInv, TypeOK
  <2>3. CASE rows[i].status # "building"
    BY <2>1, <2>2, <2>3 DEF Recovered
  <2>4. CASE rows[i].status = "building"
    <3>1. rows[i] \in Rows
      BY <2>2, <2>4 DEF NoRow, GoneRow
    <3> QED  BY <2>1, <2>4, <3>1 DEF Recovered, Rows, INDEX_STATUSES
  <2> QED  BY <2>3, <2>4
<1>4. /\ \A i \in Ids : Exists(i) => Exists(i)'
      /\ \A i \in Ids : Gone(i)' => Gone(i)
      /\ \A i \in Ids : Exists(i)' => Exists(i) /\ rows'[i].fp = rows[i].fp
  <2> SUFFICES ASSUME NEW i \in Ids
      PROVE  /\ Exists(i) => Exists(i)'
             /\ Gone(i)' => Gone(i)
             /\ Exists(i)' => Exists(i) /\ rows'[i].fp = rows[i].fp
    OBVIOUS
  <2>1. CASE rows[i] \in Rows
    <3>1. rows[i].status \in INDEX_STATUSES /\ rows'[i].status \in INDEX_STATUSES
      BY <1>3, <2>1 DEF Rows
    <3> QED  BY <1>3, <2>1, <3>1 DEF Exists, Gone, INDEX_STATUSES
  <2>2. CASE rows[i] \notin Rows
    <3>1. rows'[i] = rows[i] /\ ~Exists(i)
      BY <1>3, <2>2, ExistsInRows DEF IInv
    <3> QED  BY <3>1 DEF Exists, Gone
  <2> QED  BY <2>1, <2>2
<1>5. rows' \in [Ids -> Rows \cup {NoRow, GoneRow}]
  BY <1>1, <1>3 DEF Recover
<1>6. reclaim \subseteq reclaim' /\ reclaim' \subseteq Ids
  BY <1>1 DEF Recover, IInv, TypeOK
<1>7. TypeOK'
  BY <1>1, <1>2, <1>5, <1>6 DEF IInv, TypeOK, TxnOK
<1>8. RequestOK'
  BY <1>1, <1>4, RequestKept DEF IInv
<1>9. RowsOnly
  <2>1. \A i \in Ids : rows[i].status # "none" => rows'[i].status # "none"
    <3> SUFFICES ASSUME NEW i \in Ids, rows[i].status # "none"
                 PROVE  rows'[i].status # "none"
      OBVIOUS
    <3>1. CASE rows[i] \in Rows
      BY <1>3, <3>1 DEF Rows, INDEX_STATUSES
    <3>2. CASE rows[i] \notin Rows
      BY <1>3, <3>2
    <3> QED  BY <3>1, <3>2
  <2> QED  BY <1>1, <1>3, <1>4, <1>6, <2>1 DEF RowsOnly
<1> QED  BY <1>1, <1>7, <1>8, <1>9, RowsOnlyInv
-----------------------------------------------------------------------------
(* The theorems *)

\* Every step keeps the inductive invariant.
LEMMA NextInv == IInv /\ [Next]_vars => IInv'
<1> SUFFICES ASSUME IInv, [Next]_vars PROVE IInv'
  OBVIOUS
<1>1. CASE Request
  BY <1>1, RequestInv
<1>2. CASE Build
  BY <1>2, OpenBuildInv, StopInv, ApplyCancelInv, ClearInv, PairOpenInv, WritePairInv,
     PairBackInv, WriteBackInv, FinishInv, PublishInv, FailInv DEF Build
<1>3. CASE Worker
  BY <1>2, <1>3, DrainInv, ClaimInv, SweepInv DEF Worker
<1>4. CASE Fault
  BY <1>4, DbErrorInv, CrashInv, RecoverInv DEF Fault
<1>5. CASE UNCHANGED vars
  BY <1>5, StutterInv
<1> QED  BY <1>1, <1>3, <1>4, <1>5 DEF Next

\* The inductive invariant holds throughout.
THEOREM Invariance == Spec => []IInv
<1>1. Init => IInv
  BY InitInv
<1>2. IInv /\ [Next]_vars => IInv'
  BY NextInv
<1> QED  BY <1>1, <1>2, PTL DEF Spec

\* The tables, the request in flight and the worker always have their types
\* (models/__init__.py, worker.py, builder.py).
THEOREM TypeCorrect == Spec => []TypeOK
<1>1. IInv => TypeOK
  BY DEF IInv
<1> QED  BY <1>1, Invariance, PTL

\* No mapping row of a deleted index is ever outside the reclaim queue's reach
\* (queue_reclaim, drain_reclaim).
THEOREM OrphansAlwaysTracked == Spec => []OrphansTracked
<1>1. IInv => OrphansTracked
  BY DEF IInv
<1> QED  BY <1>1, Invariance, PTL

\* Two ready indexes are materialized in both directions, whatever requests and
\* faults their builds met (build_index, find_ready_pair).
THEOREM ReadyPairsAlwaysCovered == Spec => []ReadyPairsCovered
<1>1. IInv => ReadyPairsCovered
  BY DEF IInv
<1> QED  BY <1>1, Invariance, PTL

\* Only _finish makes an index ready.
LEMMA OnlyPublish ==
    ASSUME IInv, Next, NEW i \in Ids, rows'[i].status = "ready", rows[i].status # "ready"
    PROVE  Publish /\ i = w.id /\ ~Gone(w.id)
<1>1. i \in Ids /\ rows[i] \in Rows \cup {NoRow, GoneRow}
  BY DEF IInv, TypeOK
<1>2. rows' # rows /\ ~RowsOnly
  BY DEF RowsOnly
<1>3. ~Request
  <2>1. \A k \in Ids, t \in Translations, s \in Schemes, e \in BOOLEAN :
           ~CreateIndex(k, t, e, s)
    <3> SUFFICES ASSUME NEW k \in Ids, NEW t \in Translations, NEW s \in Schemes,
                        NEW e \in BOOLEAN, CreateIndex(k, t, e, s)
                 PROVE  FALSE
      OBVIOUS
    <3> DEFINE r == [status |-> "pending", tr |-> t, scheme |-> s,
                     explicit |-> e, cancel |-> FALSE, fp |-> None]
    <3>1. rows' = [rows EXCEPT ![k] = r] /\ r.status = "pending"
      BY DEF CreateIndex
    <3> HIDE DEF r
    <3> QED  BY <1>1, <3>1 DEF IInv, TypeOK
  <2>2. ~CommitDrop /\ ~CommitUpdate
    BY <1>2, CommitDropInv, CommitUpdateInv
  <2> QED
    BY <1>2, <2>1, <2>2 DEF Request, LoadRebuild, LoadCancel, LoadSetVersification,
       LoadDelete, LoadUpdateTranslation, LoadMakePreferred, LoadDeleteTranslation,
       LoadUpdateVersification, dataVars
<1>4. ~Fault
  BY <1>2, RecoverInv DEF Fault, DbError, Crash
<1>5. \A k \in Ids : ~ClaimNext(k)
  <2> SUFFICES ASSUME NEW k \in Ids, ClaimNext(k) PROVE FALSE
    OBVIOUS
  <2>1. \A j \in Ids : j # k => rows'[j] = rows[j]
    BY DEF ClaimNext, IInv, TypeOK
  <2>2. i = k
    BY <2>1
  <2>3. rows[i].status = "pending" /\ rows[i] \in Rows
    BY <2>2, ExistsInRows DEF ClaimNext, WithStatus, Exists, INDEX_STATUSES, IInv
  <2>4. \/ rows'[i] = [rows[i] EXCEPT !.status = "cancelled", !.cancel = FALSE]
        \/ rows'[i] = [rows[i] EXCEPT !.status = "building"]
    BY <2>2 DEF ClaimNext, IInv, TypeOK
  <2> QED  BY <2>3, <2>4 DEF Rows
<1>6. ~SweepFingerprints
  <2> SUFFICES ASSUME SweepFingerprints PROVE FALSE
    OBVIOUS
  <2>1. i \in StaleIndexes => rows[i].status = "ready"
    BY DEF StaleIndexes, WithStatus
  <2> QED  BY <2>1 DEF SweepFingerprints
<1>7. ~ApplyCancel
  <2> SUFFICES ASSUME ApplyCancel PROVE FALSE
    OBVIOUS
  <2> DEFINE a == [w.row EXCEPT !.status = "cancelled", !.cancel = FALSE]
             r == Flush(rows[w.id], w.row, a)
  <2>1. /\ w.pc = "cancel" /\ Working /\ w.row \in Rows
        /\ rows' = IF Gone(w.id) THEN rows ELSE [rows EXCEPT ![w.id] = r]
    BY DEF ApplyCancel, At, Working, IInv, WorkerOK, TypeOK, Workers
  <2>2. a.status = "cancelled"
    BY <2>1 DEF Rows
  <2> HIDE DEF a
  <2>3. r.status \in {"cancelled", rows[w.id].status}
    BY <2>2 DEF Flush, Merge
  <2> HIDE DEF r
  <2> QED  BY <1>1, <1>2, <2>1, <2>3 DEF IInv, TypeOK
<1>8. ~FailBuild
  <2> SUFFICES ASSUME FailBuild PROVE FALSE
    OBVIOUS
  <2>1. Working /\ ~Gone(w.id)
    BY <1>2 DEF FailBuild, At, Working
  <2>2. w.id \in Ids /\ rows[w.id] \in Rows
    BY <2>1, CurrentRow
  <2> DEFINE r == [rows[w.id] EXCEPT !.status = "failed"]
  <2>3. r.status = "failed"
    BY <2>2 DEF Rows
  <2>4. rows' = [rows EXCEPT ![w.id] = r]
    BY <2>1 DEF FailBuild
  <2> HIDE DEF r
  <2> QED  BY <1>1, <2>2, <2>3, <2>4 DEF IInv, TypeOK
<1>9. Publish
  <2>1. Worker
    BY <1>3, <1>4 DEF Next
  <2> QED
    BY <1>2, <1>5, <1>6, <1>7, <1>8, <2>1 DEF Worker, Build, DrainReclaim, SkipSweep,
       OpenBuild, StopIfNotCurrent, ClearMappings, PairOpen, WritePair, PairBack,
       WriteBack, FinishLoad
<1>10. ~Gone(w.id)
  BY <1>2, <1>9 DEF Publish
<1>11. w.id \in Ids
  BY <1>9, <1>10, CurrentRow DEF Publish, At, Working
<1>12. i = w.id
  BY <1>1, <1>9, <1>10, <1>11 DEF Publish, IInv, TypeOK
<1> QED  BY <1>9, <1>10, <1>12

\* When an index becomes ready, all its rows were computed on the scheme that its
\* new fingerprint records (build_index, _finish).
THEOREM PublishedRowsAlwaysMatch == Spec => PublishedRowsMatch
<1> DEFINE Match == \A i \in Ids : rows'[i].status = "ready" /\ rows[i].status # "ready"
                => \A m \in MappingsOf(i) : SideOf(m, i) = rows'[i].fp.chain.head
<1>1. IInv /\ [Next]_vars => [Match]_vars
  <2> SUFFICES ASSUME IInv, Next, NEW i \in Ids,
                      rows'[i].status = "ready", rows[i].status # "ready"
               PROVE  \A m \in MappingsOf(i) : SideOf(m, i) = rows'[i].fp.chain.head
    OBVIOUS
  <2>1. Publish /\ i = w.id /\ ~Gone(w.id)
    BY OnlyPublish
  <2>2. /\ w.pc = "publish" /\ Working /\ Cleared /\ w.row \in Rows
        /\ w.row.fp = rows[i].fp /\ w.fp.chain.head = w.src
    BY <2>1, CurrentRow DEF Publish, At, Working, Cleared, Stage, IInv, WorkerOK, TypeOK,
       Workers
  <2> DEFINE a == [w.row EXCEPT !.status = "ready", !.fp = w.fp]
  <2>3. a.fp = w.fp
    BY <2>2 DEF Rows
  <2> HIDE DEF a
  <2>4. rows'[i] = Flush(rows[i], w.row, a)
    BY <2>1 DEF Publish, IInv, TypeOK, a
  <2>5. rows'[i].fp = w.fp
    BY <2>2, <2>3, <2>4 DEF Flush, Merge
  <2>6. \A m \in MappingsOf(i) : SideOf(m, i) = w.src
    BY <2>1, <2>2 DEF IInv, BuildMatches
  <2> QED  BY <2>2, <2>5, <2>6
<1>2. Spec => [][Match]_vars
  BY <1>1, Invariance, PTL DEF Spec
<1> QED  BY <1>2 DEF PublishedRowsMatch
=============================================================================
