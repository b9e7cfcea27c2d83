------------------------- MODULE DivergenceReports -------------------------
(***************************************************************************)
(* Divergence reports: one divergence_report row per compared pair, the     *)
(* in-memory priority queue of jobs, and the daemon threads that compute    *)
(* a report and store it.                                                   *)
(*                                                                         *)
(* Data kept: the inputs of a report are a version number, which is also    *)
(* its fingerprint; a payload is the version it was computed from.  A       *)
(* compute step ends where the code commits or reads the row; job.row is    *)
(* the identity map's copy, which a commit expires and which a locking      *)
(* SELECT does not refresh.                                                *)
(***************************************************************************)
EXTENDS Naturals, Sequences, FiniteSets

CONSTANTS
    Reports,      \* report keys (two sides), one row each
    Threads,      \* the runner's daemon threads (DIVERGENCE_RUNNER_THREADS)
    None,         \* SQL NULL, Python None
    MaxEdits,     \* bound: edits of the inputs of one report
    MaxProgress,  \* bound: progress commits of one compute after the first
    MaxRestarts,  \* bound: restarts of the process
    MaxStalls     \* bound: heartbeats that go stale while the compute runs

ASSUME ReportAssumption ==
    /\ None \notin Reports \cup Threads
    /\ MaxEdits \in Nat /\ MaxProgress \in Nat
    /\ MaxRestarts \in Nat /\ MaxStalls \in Nat

VARIABLES
    inputs,   \* report -> version of what it is computed from
    row,      \* divergence_report
    queue,    \* DivergenceRunner._queue: the ids of each priority, oldest first
    pending,  \* DivergenceRunner._pending
    job,      \* thread -> what it is computing
    spent     \* how often each bounded event has happened

Interactive == 0
Precompute == 1
Priorities == {Interactive, Precompute}

Absent == [status |-> "absent", fp |-> None, payload |-> None, beat |-> "none"]

\* Mutant of Claimed: the fingerprint is not stored.
ClaimedUnsigned(f) == [Absent EXCEPT !.status = "pending"]

\* A row as inserted, or reset, by a claim.
Claimed(f) == [Absent EXCEPT !.status = "pending", !.fp = f]

\* An UPDATE writes the status if it differs from the one loaded.
StatusWritten(r, loaded, st) == IF loaded.status = st THEN row[r].status ELSE st
-----------------------------------------------------------------------------
(* registry.py: what a claim with fingerprint f does to the row *)

\* Mutant of Kept: a running row is kept whatever its heartbeat.
KeptWhileRunning(r, f) == row[r].fp = f /\ row[r].status \in {"ready", "running"}

Kept(r, f) ==
    /\ row[r].fp = f
    /\ \/ row[r].status = "ready"
       \/ row[r].status = "running" /\ row[r].beat = "fresh"

ClaimedRow(r, f) ==
    IF Kept(r, f) \/ (row[r].status = "pending" /\ row[r].fp = f)
    THEN row[r] ELSE Claimed(f)

\* is_stalled
Stalled(r) == row[r].status = "running" /\ row[r].beat # "fresh"
-----------------------------------------------------------------------------
(* runner.py *)

\* Mutant of Submit: an id that is being computed is not queued either.
SubmitUnlessComputed(r, prio) ==
    IF r \in pending \cup {job[t].report : t \in Threads}
    THEN UNCHANGED <<queue, pending>>
    ELSE /\ pending' = pending \cup {r}
         /\ queue' = [queue EXCEPT ![prio] = Append(@, r)]

\* submit: an id that is queued already keeps its place and its priority.
Submit(r, prio) ==
    IF r \in pending
    THEN UNCHANGED <<queue, pending>>
    ELSE /\ pending' = pending \cup {r}
         /\ queue' = [queue EXCEPT ![prio] = Append(@, r)]

Rest == [pc |-> "idle", report |-> None, expected |-> None, row |-> Absent,
         data |-> None, left |-> 0]

\* _loop: the lowest priority number first, equal priorities in insertion order.
TakeJob(t) ==
    /\ job[t].pc = "idle"
    /\ \E p \in Priorities :
          /\ queue[p] # <<>>
          /\ \A q \in Priorities : q < p => queue[q] = <<>>
          /\ job' = [job EXCEPT ![t] = [Rest EXCEPT !.pc = "taken",
                                                    !.report = Head(queue[p])]]
          /\ queue' = [queue EXCEPT ![p] = Tail(@)]
    /\ UNCHANGED <<inputs, row, pending, spent>>

\* From here on a submit of the same id queues it again.
DiscardPending(t) ==
    /\ job[t].pc = "taken"
    /\ pending' = pending \ {job[t].report}
    /\ job' = [job EXCEPT ![t].pc = "load"]
    /\ UNCHANGED <<inputs, row, queue, spent>>
-----------------------------------------------------------------------------
(* compute.py *)

Of(t) == row[job[t].report]

\* The thread's copy of the row, absent after a commit or a rollback.
Loaded(t) == job[t].row # Absent

LoadRow(t) ==
    /\ job[t].pc = "load"
    /\ job' = [job EXCEPT ![t].pc = "start", ![t].row = Of(t),
                          ![t].expected = Of(t).fp]
    /\ UNCHANGED <<inputs, row, queue, pending, spent>>

\* mark_progress and its commit: the fingerprint is not looked at.
Progressed(t) ==
    row' = [row EXCEPT ![job[t].report] =
               [@ EXCEPT !.status = StatusWritten(job[t].report, job[t].row, "running"),
                         !.beat = "fresh"]]

MarkLoading(t) ==
    /\ job[t].pc = "start"
    /\ Progressed(t)
    /\ job' = [job EXCEPT ![t].pc = "read", ![t].row = Absent]
    /\ UNCHANGED <<inputs, queue, pending, spent>>

\* shared_root, load_side, load_org.
ReadInputs(t) ==
    /\ job[t].pc = "read"
    /\ job' = [job EXCEPT ![t].pc = "work", ![t].data = inputs[job[t].report],
                          ![t].left = MaxProgress]
    /\ UNCHANGED <<inputs, row, queue, pending, spent>>

\* row.id after a commit or a rollback loads the row again.
ReloadRow(t) ==
    /\ job[t].pc \in {"work", "failing"} /\ ~Loaded(t)
    /\ job' = [job EXCEPT ![t].row = Of(t)]
    /\ UNCHANGED <<inputs, row, queue, pending, spent>>

\* A stage boundary more than a second after the last commit.
CommitProgress(t) ==
    /\ job[t].pc = "work" /\ Loaded(t) /\ job[t].left > 0
    /\ Progressed(t)
    /\ job' = [job EXCEPT ![t].row = Absent, ![t].left = @ - 1]
    /\ UNCHANGED <<inputs, queue, pending, spent>>

\* same_fingerprint locks the row, and compares the copy in the identity map.
SameFingerprint(t) == job[t].row.fp = job[t].expected

\* The locked check, mark_ready and the commit.
StoreReport(t) ==
    /\ job[t].pc = "work" /\ Loaded(t)
    /\ row' = IF SameFingerprint(t)
              THEN [row EXCEPT ![job[t].report] =
                       [@ EXCEPT !.status = StatusWritten(job[t].report, job[t].row, "ready"),
                                 !.payload = job[t].data, !.beat = "fresh"]]
              ELSE row
    /\ job' = [job EXCEPT ![t] = Rest]
    /\ UNCHANGED <<inputs, queue, pending, spent>>

\* An exception while loading or comparing: rolled back.
ComputeRaises(t) ==
    /\ job[t].pc \in {"read", "work"}
    /\ job' = [job EXCEPT ![t].pc = "failing", ![t].row = Absent]
    /\ UNCHANGED <<inputs, row, queue, pending, spent>>

\* The except clause: the locked check, mark_failed and the commit.
StoreFailure(t) ==
    /\ job[t].pc = "failing" /\ Loaded(t)
    /\ row' = IF SameFingerprint(t)
              THEN [row EXCEPT ![job[t].report] =
                       [@ EXCEPT !.status = StatusWritten(job[t].report, job[t].row, "failed"),
                                 !.beat = "fresh"]]
              ELSE row
    /\ job' = [job EXCEPT ![t] = Rest]
    /\ UNCHANGED <<inputs, queue, pending, spent>>

\* One pass of _loop, without the exception that may end it early.
Compute(t) ==
    \/ TakeJob(t) \/ DiscardPending(t) \/ LoadRow(t) \/ MarkLoading(t)
    \/ ReadInputs(t) \/ ReloadRow(t) \/ CommitProgress(t)
    \/ StoreReport(t) \/ StoreFailure(t)
-----------------------------------------------------------------------------
(* The environment *)

\* A versification, a text or a source the report depends on changes.
EditInputs(r) ==
    /\ inputs[r] < MaxEdits
    /\ inputs' = [inputs EXCEPT ![r] = @ + 1]
    /\ UNCHANGED <<row, queue, pending, job, spent>>

Computing(r) ==
    \E t \in Threads : job[t].report = r /\ job[t].pc \in {"read", "work", "failing"}

\* divergence_stale_seconds without a heartbeat: nobody computes the report ...
DeadHeartbeat(r) ==
    /\ row[r].status = "running" /\ row[r].beat = "fresh" /\ ~Computing(r)
    /\ row' = [row EXCEPT ![r].beat = "stale"]
    /\ UNCHANGED <<inputs, queue, pending, job, spent>>

\* ... or a stage of its compute takes that long.
SlowHeartbeat(r) ==
    /\ row[r].status = "running" /\ row[r].beat = "fresh" /\ Computing(r)
    /\ spent.stalls < MaxStalls
    /\ spent' = [spent EXCEPT !.stalls = @ + 1]
    /\ row' = [row EXCEPT ![r].beat = "stale"]
    /\ UNCHANGED <<inputs, queue, pending, job>>
-----------------------------------------------------------------------------
(* Types *)

Versions == 0..MaxEdits
RowStatuses == {"pending", "running", "ready", "failed"}
ReportRows == [status : RowStatuses, fp : Versions, payload : Versions \cup {None},
               beat : {"none", "fresh", "stale"}]
JobPcs == {"idle", "taken", "load", "start", "read", "work", "failing"}
Jobs == [pc : JobPcs, report : Reports \cup {None}, expected : Versions \cup {None},
         row : ReportRows \cup {Absent}, data : Versions \cup {None},
         left : 0..MaxProgress]
=============================================================================
