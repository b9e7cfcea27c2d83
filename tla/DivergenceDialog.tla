-------------------------- MODULE DivergenceDialog --------------------------
(***************************************************************************)
(* The clients of divergence reports: dialogs of the web UI, which post a   *)
(* comparison and poll it, and the precompute hook of the index worker,     *)
(* which claims reports for an index that became ready.  Composed with      *)
(* DivergenceReports into the whole component, and what must hold of it.    *)
(*                                                                         *)
(* A claim is three steps of the server: the fingerprint is computed, the   *)
(* row is locked and decided on, and after the commit the job is submitted. *)
(***************************************************************************)
EXTENDS DivergenceReports

CONSTANTS
    Dialogs,     \* browser dialogs
    Hooks,       \* runs of schedule_precompute
    MaxOpens     \* bound: comparisons opened or scheduled

ASSUME ClientAssumption ==
    /\ Dialogs \cap Hooks = {}
    /\ MaxOpens \in Nat

VARIABLE client   \* dialog or hook -> where it is

vars == <<inputs, row, queue, pending, job, spent, client>>

Clients == Dialogs \cup Hooks
Closed == [pc |-> "off", report |-> None, fp |-> None, retried |-> FALSE]

PriorityOf(c) == IF c \in Dialogs THEN Interactive ELSE Precompute

reportVars == <<inputs, row, queue, pending, job, spent>>
-----------------------------------------------------------------------------
(* routers/divergence.py and precompute.py *)

\* A dialog opens or is retried, an index becomes ready: report_fingerprint.
Open(c, r) ==
    /\ client[c].pc \in {"off", "shown", "failed", "error"}
    /\ spent.opens < MaxOpens
    /\ spent' = [spent EXCEPT !.opens = @ + 1]
    /\ client' = [client EXCEPT ![c] = [Closed EXCEPT !.pc = "claim", !.report = r,
                                                      !.fp = inputs[r]]]
    /\ UNCHANGED <<inputs, row, queue, pending, job>>

\* Mutant of ClaimReport: whatever is running is left to finish.
ClaimUnlessRunning(c) ==
    LET r == client[c].report
        f == client[c].fp
    IN /\ client[c].pc = "claim"
       /\ row' = [row EXCEPT ![r] = ClaimedRow(r, f)]
       /\ client' = [client EXCEPT ![c].pc =
                        IF Kept(r, f) \/ row[r].status = "running"
                        THEN "respond" ELSE "submit"]
       /\ UNCHANGED <<inputs, queue, pending, job, spent>>

\* claim_report from the insert to the commit, under the row lock.
ClaimReport(c) ==
    LET r == client[c].report
        f == client[c].fp
    IN /\ client[c].pc = "claim"
       /\ row' = [row EXCEPT ![r] = ClaimedRow(r, f)]
       /\ client' = [client EXCEPT ![c].pc = IF Kept(r, f) THEN "respond" ELSE "submit"]
       /\ UNCHANGED <<inputs, queue, pending, job, spent>>

\* runner.submit, after the commit.
SubmitJob(c) ==
    /\ client[c].pc = "submit"
    /\ Submit(client[c].report, PriorityOf(c))
    /\ client' = [client EXCEPT ![c].pc = "respond"]
    /\ UNCHANGED <<inputs, row, job, spent>>

\* What the dialog does next with the status it is given.
Following(r) ==
    IF row[r].status = "ready" THEN "data"
    ELSE IF row[r].status = "failed" THEN "failed"
    ELSE IF Stalled(r) THEN "repost" ELSE "poll"

\* The response: the row as it is by now.
Respond(c) ==
    /\ client[c].pc = "respond"
    /\ client' = [client EXCEPT ![c] =
                     IF c \in Hooks THEN Closed
                     ELSE [@ EXCEPT !.pc = Following(client[c].report)]]
    /\ UNCHANGED reportVars
-----------------------------------------------------------------------------
(* useDivergenceReport.ts *)

\* GET status.
Poll(c) ==
    /\ client[c].pc = "poll"
    /\ client' = [client EXCEPT ![c].pc = Following(client[c].report)]
    /\ UNCHANGED reportVars

\* A stalled report is posted again.
Repost(c) ==
    /\ client[c].pc = "repost"
    /\ client' = [client EXCEPT ![c].pc = "claim", ![c].fp = inputs[client[c].report]]
    /\ UNCHANGED reportVars

\* GET data: 409 unless ready; the first 409 posts the comparison again.
FetchData(c) ==
    LET r == client[c].report
        served == row[r].status = "ready" /\ row[r].payload # None
    IN /\ client[c].pc = "data"
       /\ client' = [client EXCEPT ![c] =
                        IF served THEN [@ EXCEPT !.pc = "shown"]
                        ELSE IF @.retried THEN [@ EXCEPT !.pc = "error"]
                        ELSE [@ EXCEPT !.pc = "claim", !.retried = TRUE, !.fp = inputs[r]]]
       /\ UNCHANGED reportVars

\* The dialog is closed while it waits.
Close(c) ==
    /\ client[c].pc \in {"poll", "repost", "data"}
    /\ client' = [client EXCEPT ![c] = Closed]
    /\ UNCHANGED reportVars

\* The process restarts: the queue and the threads' work are lost, requests in
\* flight fail; a dialog between two polls does not notice.
Restart ==
    /\ spent.restarts < MaxRestarts
    /\ spent' = [spent EXCEPT !.restarts = @ + 1]
    /\ queue' = [p \in Priorities |-> <<>>]
    /\ pending' = {}
    /\ job' = [t \in Threads |-> Rest]
    /\ client' = [c \in Clients |->
                     IF client[c].pc \notin {"claim", "submit", "respond"} THEN client[c]
                     ELSE IF c \in Hooks THEN Closed
                     ELSE [client[c] EXCEPT !.pc = "error"]]
    /\ UNCHANGED <<inputs, row>>
-----------------------------------------------------------------------------
Init ==
    /\ inputs = [r \in Reports |-> 0]
    /\ row = [r \in Reports |-> Absent]
    /\ queue = [p \in Priorities |-> <<>>]
    /\ pending = {}
    /\ job = [t \in Threads |-> Rest]
    /\ spent = [opens |-> 0, restarts |-> 0, stalls |-> 0]
    /\ client = [c \in Clients |-> Closed]

Serve(c) == ClaimReport(c) \/ SubmitJob(c) \/ Respond(c)
Follow(c) == Poll(c) \/ Repost(c) \/ FetchData(c)

Next ==
    \/ \E t \in Threads : (Compute(t) \/ ComputeRaises(t)) /\ UNCHANGED client
    \/ \E r \in Reports :
          (EditInputs(r) \/ DeadHeartbeat(r) \/ SlowHeartbeat(r)) /\ UNCHANGED client
    \/ \E c \in Clients, r \in Reports : Open(c, r)
    \/ \E c \in Clients : Serve(c)
    \/ \E c \in Dialogs : Follow(c) \/ Close(c)
    \/ Restart

Spec == Init /\ [][Next]_vars

\* Threads and request handlers run, an open dialog keeps polling, time passes.
Fairness ==
    /\ \A t \in Threads : WF_vars(Compute(t) /\ UNCHANGED client)
    /\ \A r \in Reports : WF_vars(DeadHeartbeat(r) /\ UNCHANGED client)
    /\ \A c \in Clients : WF_vars(Serve(c))
    /\ \A c \in Dialogs : WF_vars(Follow(c))

FairSpec == Spec /\ Fairness
-----------------------------------------------------------------------------
ClientPcs == {"off", "claim", "submit", "respond", "poll", "repost", "data",
              "shown", "failed", "error"}

\* Type correctness of the rows, the queue, the threads and the clients.
TypeOK ==
    /\ inputs \in [Reports -> Versions]
    /\ row \in [Reports -> ReportRows \cup {Absent}]
    /\ queue \in [Priorities -> Seq(Reports)]
    /\ pending \subseteq Reports
    /\ job \in [Threads -> Jobs]
    /\ client \in [Clients -> [pc : ClientPcs, report : Reports \cup {None},
                               fp : Versions \cup {None}, retried : BOOLEAN]]
    /\ spent \in [opens : 0..MaxOpens, restarts : 0..MaxRestarts, stalls : 0..MaxStalls]

Queued(r) == \E p \in Priorities : \E i \in DOMAIN queue[p] : queue[p][i] = r

\* Somebody is about to compute report r for the row as it is now.
Promised(r) ==
    \/ Queued(r)
    \/ \E c \in Clients : client[c].pc = "submit" /\ client[c].report = r
    \/ \E t \in Threads :
          /\ job[t].report = r
          /\ \/ job[t].pc \in {"taken", "load"}
             \/ job[t].pc = "start" /\ job[t].row.status = row[r].status

\* A pending report nobody will compute unless it is posted again.
Lost(r) == row[r].status = "pending" /\ ~Promised(r)

\* Only a restart loses a job: a claim that found its id still queued, or being
\* taken off the queue, is served by that job, and one that came later has a job of
\* its own, however claims, threads and retries interleave (submit, _loop).
OnlyRestartLosesJobs ==
    [][\A r \in Reports : ~Lost(r) /\ Lost(r)' => spent.restarts' # spent.restarts]_vars

\* A report marked ready with a payload older than its fingerprint: a claim would
\* serve it as up to date (claim_report).
Mislabelled(r) == row[r].status = "ready" /\ row[r].payload < row[r].fp

\* With one thread, as is the default, such a payload is never the last word: the
\* job of the newer claim is still to come, unless a restart loses it
\* (DIVERGENCE_RUNNER_THREADS, _loop, compute_report).
MislabelledIsReplaced ==
    [][\A r \in Reports :
          (Mislabelled(r) /\ ~Promised(r))'
             => \/ Mislabelled(r) /\ ~Promised(r)
                \/ spent.restarts' # spent.restarts]_vars

Waiting(c) == client[c].pc \in {"claim", "submit", "respond", "poll", "repost", "data"}

\* A dialog that stays open is answered, with a report or with a failure, across
\* edits, stalled computes and concurrent dialogs; the one exception is a job lost in
\* a restart, which a dialog that only polls does not post again (useDivergenceReport).
DialogIsAnswered ==
    \A c \in Dialogs : Waiting(c) ~> (~Waiting(c) \/ Lost(client[c].report))
=============================================================================
