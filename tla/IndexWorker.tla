----------------------------- MODULE IndexWorker -----------------------------
(***************************************************************************)
(* The index worker thread and the builder it runs, one pass at a time:    *)
(* drain one page of the reclaim queue, claim and build the oldest pending  *)
(* index, or, when nothing is pending, sweep the fingerprints.              *)
(*                                                                         *)
(* The worker holds the build lock throughout (the lock itself is the       *)
(* subject of BuildLock), so one worker runs.  A step ends where the code   *)
(* commits, or where it reads what a request may change before the next     *)
(* commit.  w.row is the identity map's copy of the index being built:      *)
(* a commit expires it (NoRow), the next read loads it.                     *)
(***************************************************************************)
EXTENDS IndexRows

Idle == [pc |-> "idle", id |-> None, row |-> NoRow, next |-> "idle", src |-> None,
         todo |-> {}, other |-> None, tgt |-> None, path |-> None, fp |-> None]

At(pc) == w.pc = pc /\ ~down

\* The build gives up or ends: the pass is over.
EndPass == w' = Idle

envVars == <<older, reclaim, catalog, txn, down, spent>>

\* The build's view of its own row: the loaded copy, or a fresh read.
Loaded == IF w.row = NoRow THEN rows[w.id] ELSE w.row
-----------------------------------------------------------------------------
(* worker.py *)

\* drain_reclaim: one page of one entry.  An entry is dropped when its index
\* exists after all, or when no row of either direction is left.
DrainReclaim ==
    /\ At("idle")
    /\ \/ /\ reclaim = {}
          /\ UNCHANGED <<maps, reclaim>>
       \/ \E i \in reclaim :
             IF Exists(i)
             THEN /\ reclaim' = reclaim \ {i}
                  /\ UNCHANGED maps
             ELSE \E page \in DeletePages(i) :
                     /\ maps' = maps \ page
                     /\ reclaim' = IF MappingsOf(i) \subseteq page
                                   THEN reclaim \ {i} ELSE reclaim
    /\ w' = [Idle EXCEPT !.pc = "queue"]
    /\ UNCHANGED <<rows, older, notes, catalog, txn, down, spent>>

\* process_next_index: the oldest pending row, which a cancel may have reached.
ClaimNext(i) ==
    /\ At("queue")
    /\ i \in WithStatus("pending")
    /\ older[i] \cap WithStatus("pending") = {}
    /\ IF rows[i].cancel
       THEN /\ rows' = [rows EXCEPT ![i].status = "cancelled", ![i].cancel = FALSE]
            /\ EndPass
       ELSE /\ rows' = [rows EXCEPT ![i].status = "building"]
            /\ w' = [Idle EXCEPT !.pc = "open", !.id = i]
    /\ UNCHANGED <<maps, notes, envVars>>

StaleIndexes ==
    {i \in WithStatus("ready") : rows[i].fp # Digest(rows[i].tr, rows[i].scheme)}

\* sweep_fingerprints, on a pass that found no work.
SweepFingerprints ==
    /\ At("queue") /\ WithStatus("pending") = {}
    /\ rows' = [i \in Ids |->
                   IF i \in StaleIndexes
                   THEN [rows[i] EXCEPT !.status = "pending", !.cancel = FALSE]
                   ELSE rows[i]]
    /\ older' = Restamped(StaleIndexes)
    /\ EndPass
    /\ UNCHANGED <<maps, notes, reclaim, catalog, txn, down, spent>>

\* The last sweep is less than index_fingerprint_sweep_seconds ago.
SkipSweep ==
    /\ At("queue") /\ WithStatus("pending") = {}
    /\ EndPass
    /\ UNCHANGED <<rows, maps, notes, envVars>>
-----------------------------------------------------------------------------
(* builder.py *)

\* build_index up to its first commit: the counterparts are the indexes that are
\* ready now.
OpenBuild ==
    /\ At("open")
    /\ IF Gone(w.id)
       THEN EndPass /\ UNCHANGED notes
       ELSE /\ notes' = [notes EXCEPT ![w.id] = {}]
            /\ w' = [w EXCEPT !.pc = "check", !.next = "clear",
                              !.todo = WithStatus("ready") \ {w.id}]
    /\ UNCHANGED <<rows, maps, envVars>>

\* _stop_if_not_current: abandon a row that is gone or requeued; a requested
\* cancel is applied by ApplyCancel.
StopIfNotCurrent ==
    /\ At("check")
    /\ w' = IF Loaded.status # "building" THEN Idle
            ELSE [w EXCEPT !.row = Loaded,
                           !.pc = IF Loaded.cancel THEN "cancel" ELSE w.next]
    /\ UNCHANGED <<rows, maps, notes, envVars>>

\* The write of a cancel found by _stop_if_not_current or _finish.
ApplyCancel ==
    /\ At("cancel")
    /\ rows' = IF Gone(w.id) THEN rows
               ELSE [rows EXCEPT ![w.id] =
                        Flush(@, w.row, [w.row EXCEPT !.status = "cancelled",
                                                      !.cancel = FALSE])]
    /\ EndPass
    /\ UNCHANGED <<maps, notes, envVars>>

\* The delete loop of build_index; an empty page ends it and the scheme of the
\* loaded row becomes the build's source scheme.
ClearMappings ==
    /\ At("clear")
    /\ IF MappingsOf(w.id) = {}
       THEN /\ w' = [w EXCEPT !.src = w.row.scheme, !.next = "pair",
                              !.pc = IF w.todo = {} THEN "finish" ELSE "pair"]
            /\ UNCHANGED maps
       ELSE /\ \E page \in DeletePages(w.id) : maps' = maps \ page
            /\ w' = [w EXCEPT !.row = NoRow, !.pc = "check", !.next = "clear"]
    /\ UNCHANGED <<rows, notes, envVars>>

Note(a, b) == notes' = [notes EXCEPT ![w.id] = @ \cup {<<a, b>>}]

\* One counterpart, first direction: read its scheme, build the path.  Reading a
\* counterpart that was deleted raises, and the build fails.
PairOpen(o) ==
    /\ At("pair") /\ o \in w.todo
    /\ IF Gone(o)
       THEN w' = [w EXCEPT !.pc = "fail"] /\ UNCHANGED notes
       ELSE LET s == rows[o].scheme IN
            IF SharedAncestor(w.src, s)
            THEN /\ w' = [w EXCEPT !.pc = "write", !.other = o, !.tgt = s,
                                   !.path = Path(w.src, s)]
                 /\ UNCHANGED notes
            ELSE /\ w' = [w EXCEPT !.pc = "back", !.other = o, !.tgt = s]
                 /\ Note(w.id, o)
    /\ UNCHANGED <<rows, maps, envVars>>

\* _upsert_chunk and its commit.
WritePair ==
    /\ At("write")
    /\ maps' = Upserted(w.id, w.other, w.path)
    /\ w' = [w EXCEPT !.pc = "check", !.next = "back", !.row = NoRow]
    /\ UNCHANGED <<rows, notes, envVars>>

\* _increment_pairs and the head of the loop: on to the next counterpart.
NextPair == [w EXCEPT !.todo = @ \ {w.other}, !.other = None, !.tgt = None,
                      !.path = None, !.row = NoRow, !.next = "pair",
                      !.pc = IF w.todo \subseteq {w.other} THEN "finish" ELSE "check"]

\* The other direction.  After a commit the counterpart is read again.
PairBack ==
    /\ At("back")
    /\ \/ /\ w.path # None /\ Gone(w.other)
          /\ w' = [w EXCEPT !.pc = "fail"]
          /\ UNCHANGED notes
       \/ /\ ~(w.path # None /\ Gone(w.other))
          /\ SharedAncestor(w.tgt, w.src)
          /\ w' = [w EXCEPT !.pc = "rewrite", !.path = Path(w.tgt, w.src)]
          /\ UNCHANGED notes
       \/ /\ ~(w.path # None /\ Gone(w.other))
          /\ ~SharedAncestor(w.tgt, w.src)
          /\ w' = NextPair
          /\ Note(w.other, w.id)
    /\ UNCHANGED <<rows, maps, envVars>>

WriteBack ==
    /\ At("rewrite")
    /\ maps' = Upserted(w.other, w.id, w.path)
    /\ w' = NextPair
    /\ UNCHANGED <<rows, notes, envVars>>

\* Mutant of FinishLoad: the fingerprint of the row's scheme, not of the build's.
FinishLoadRowScheme ==
    /\ At("finish")
    /\ w' = IF Loaded.status # "building" THEN Idle
            ELSE IF Loaded.cancel
            THEN [w EXCEPT !.row = Loaded, !.pc = "cancel"]
            ELSE [w EXCEPT !.row = Loaded, !.fp = Digest(Loaded.tr, Loaded.scheme),
                           !.pc = "publish"]
    /\ UNCHANGED <<rows, maps, notes, envVars>>

\* _finish up to the fingerprint, which is computed from the catalog as it is now.
FinishLoad ==
    /\ At("finish")
    /\ w' = IF Loaded.status # "building" THEN Idle
            ELSE IF Loaded.cancel
            THEN [w EXCEPT !.row = Loaded, !.pc = "cancel"]
            ELSE [w EXCEPT !.row = Loaded, !.fp = Digest(Loaded.tr, w.src),
                           !.pc = "publish"]
    /\ UNCHANGED <<rows, maps, notes, envVars>>

\* The rest of _finish: the row as loaded becomes ready, whatever it is by now.
Publish ==
    /\ At("publish")
    /\ rows' = IF Gone(w.id) THEN rows
               ELSE [rows EXCEPT ![w.id] =
                        Flush(@, w.row, [w.row EXCEPT !.status = "ready",
                                                      !.fp = w.fp])]
    /\ EndPass
    /\ UNCHANGED <<maps, notes, envVars>>

\* The except clause of process_next_index.
FailBuild ==
    /\ At("fail")
    /\ rows' = IF Gone(w.id) THEN rows ELSE [rows EXCEPT ![w.id].status = "failed"]
    /\ EndPass
    /\ UNCHANGED <<maps, notes, envVars>>
-----------------------------------------------------------------------------
(* Faults *)

Faults == spent.crashes + spent.boots + spent.errors

\* A database error inside a build: the except clause's own read raises on the
\* broken session, so the row keeps its status.
DbError ==
    /\ ~down /\ w.pc \notin {"idle", "queue"}
    /\ spent.errors < MaxDbErrors /\ Faults < MaxFaults
    /\ spent' = [spent EXCEPT !.errors = @ + 1]
    /\ EndPass
    /\ UNCHANGED <<rows, maps, notes, older, reclaim, catalog, txn, down>>

\* The process dies with the worker and the request in flight.
Crash ==
    /\ ~down /\ spent.crashes < MaxCrashes /\ Faults < MaxFaults
    /\ spent' = [spent EXCEPT !.crashes = @ + 1]
    /\ down' = TRUE /\ txn' = None
    /\ EndPass
    /\ UNCHANGED <<rows, maps, notes, older, reclaim, catalog>>

\* Mutants of Recovered: an interrupted build counts as done; only a requested cancel
\* is recovered.
RecoveredAsReady(r) ==
    IF r.status # "building" THEN r
    ELSE IF r.cancel THEN [r EXCEPT !.status = "cancelled", !.cancel = FALSE]
    ELSE [r EXCEPT !.status = "ready"]

RecoveredCancelOnly(r) ==
    IF r.status = "building" /\ r.cancel
    THEN [r EXCEPT !.status = "cancelled", !.cancel = FALSE]
    ELSE r

\* IndexWorker.start: recover_orphaned_builds and purge_orphan_mappings.
Recovered(r) ==
    IF r.status # "building" THEN r
    ELSE IF r.cancel THEN [r EXCEPT !.status = "cancelled", !.cancel = FALSE]
    ELSE [r EXCEPT !.status = "pending"]

Recover ==
    /\ rows' = [i \in Ids |-> Recovered(rows[i])]
    /\ reclaim' = reclaim \cup {i \in Ids : ~Exists(i) /\ MappingsOf(i) # {}}

\* The crashed process starts again.
Restart ==
    /\ down /\ down' = FALSE
    /\ Recover
    /\ UNCHANGED <<maps, notes, older, catalog, txn, w, spent>>

\* Another process starts beside the one whose worker holds the lock.
BootBeside ==
    /\ ~down /\ spent.boots < MaxBoots /\ Faults < MaxFaults
    /\ spent' = [spent EXCEPT !.boots = @ + 1]
    /\ Recover
    /\ UNCHANGED <<maps, notes, older, catalog, txn, w, down>>

Build ==
    \/ OpenBuild \/ StopIfNotCurrent \/ ApplyCancel \/ ClearMappings
    \/ \E o \in Ids : PairOpen(o)
    \/ WritePair \/ PairBack \/ WriteBack \/ FinishLoad \/ Publish \/ FailBuild

Worker ==
    \/ DrainReclaim
    \/ \E i \in Ids : ClaimNext(i)
    \/ SweepFingerprints
    \/ SkipSweep
    \/ Build

Fault == DbError \/ Crash \/ Restart \/ BootBeside
=============================================================================
