--------------------------- MODULE DivergenceProofs ---------------------------
(* What holds of divergence reports for any number of reports, dialogs, hooks *)
(* and threads: the shape of the state, and that only a restart loses a job;  *)
(* with one thread, that a payload older than its label is never left.        *)
EXTENDS DivergenceDialog, SequenceTheorems, TLAPS

-----------------------------------------------------------------------------
(* The ids of a queue. *)
Held(s) == {s[i] : i \in DOMAIN s}

LEMMA TakenFromQueue ==
    ASSUME NEW S, NEW s \in Seq(S), s # <<>>
    PROVE  /\ Head(s) \in S /\ Tail(s) \in Seq(S)
           /\ Held(s) = Held(Tail(s)) \cup {Head(s)}
<1>1. /\ Len(s) \in Nat /\ Len(s) > 0 /\ DOMAIN s = 1 .. Len(s)
      /\ Head(s) = s[1] /\ Tail(s) \in Seq(S)
      /\ DOMAIN Tail(s) = 1 .. (Len(s) - 1)
      /\ \A i \in 1 .. (Len(s) - 1) : Tail(s)[i] = s[i + 1]
  BY HeadTailProperties, EmptySeq, LenProperties
<1>2. Head(s) \in S
  BY <1>1
<1>3. ASSUME NEW i \in DOMAIN s PROVE s[i] \in Held(Tail(s)) \cup {Head(s)}
  <2>1. CASE i = 1
    BY <1>1, <2>1
  <2>2. CASE i # 1
    <3>1. i - 1 \in 1 .. (Len(s) - 1) /\ (i - 1) + 1 = i
      BY <1>1, <1>3, <2>2
    <3> QED
      BY <1>1, <3>1 DEF Held
  <2> QED
    BY <2>1, <2>2
<1>4. ASSUME NEW i \in DOMAIN Tail(s) PROVE Tail(s)[i] \in Held(s)
  <2>1. i + 1 \in DOMAIN s /\ Tail(s)[i] = s[i + 1]
    BY <1>1
  <2> QED
    BY <2>1 DEF Held
<1>5. Head(s) \in Held(s)
  BY <1>1 DEF Held
<1> QED
  BY <1>1, <1>2, <1>3, <1>4, <1>5 DEF Held

LEMMA PutOnQueue ==
    ASSUME NEW S, NEW s \in Seq(S), NEW x \in S
    PROVE  /\ Append(s, x) \in Seq(S)
           /\ Held(Append(s, x)) = Held(s) \cup {x}
<1>1. /\ Len(s) \in Nat /\ DOMAIN s = 1 .. Len(s)
      /\ Append(s, x) \in Seq(S) /\ DOMAIN Append(s, x) = 1 .. (Len(s) + 1)
      /\ \A i \in 1 .. Len(s) : Append(s, x)[i] = s[i]
      /\ Append(s, x)[Len(s) + 1] = x
  BY AppendProperties, LenProperties
<1>2. 1 .. (Len(s) + 1) = (1 .. Len(s)) \cup {Len(s) + 1}
  BY <1>1
<1> QED
  BY <1>1, <1>2 DEF Held

LEMMA QueuedIsHeld == \A r : Queued(r) <=> \E p \in Priorities : r \in Held(queue[p])
  BY DEF Queued, Held

LEMMA HeldAreReports ==
    ASSUME NEW S, NEW s \in Seq(S) PROVE Held(s) \subseteq S
  BY DEF Held

-----------------------------------------------------------------------------
(* The inductive invariant.  Whatever is queued, computed or about to be      *)
(* submitted has a row; a fingerprint is a version of the inputs that was     *)
(* current once; a thread knows what it set out to compute; and an id that is *)
(* pending is on the queue or was just taken off it.                          *)
HasRow(r) == r \in Reports /\ row[r] \in ReportRows

QueuedHaveRows == \A p \in Priorities : \A r \in Held(queue[p]) : HasRow(r)

ClientOK(c) ==
    /\ client[c].pc # "off" =>
          /\ client[c].report \in Reports
          /\ client[c].fp \in Versions /\ client[c].fp <= inputs[client[c].report]
    /\ client[c].pc = "submit" => HasRow(client[c].report)

JobOK(t) ==
    /\ job[t].pc # "idle" => HasRow(job[t].report)
    /\ job[t].pc = "start" => job[t].row \in ReportRows
    /\ job[t].pc \in {"start", "read", "work"} =>
          job[t].expected \in Versions /\ job[t].expected <= inputs[job[t].report]
    /\ job[t].pc = "work" =>
          job[t].data \in Versions /\ job[t].expected <= job[t].data

RowsBehindInputs == \A r \in Reports : HasRow(r) => row[r].fp <= inputs[r]

PendingServed ==
    \A r \in pending :
        \/ \E p \in Priorities : r \in Held(queue[p])
        \/ \E t \in Threads : job[t].pc = "taken" /\ job[t].report = r

Inv ==
    /\ TypeOK
    /\ QueuedHaveRows
    /\ \A c \in Clients : ClientOK(c)
    /\ \A t \in Threads : JobOK(t)
    /\ RowsBehindInputs
    /\ PendingServed

-----------------------------------------------------------------------------
(* Rows, copies and clients keep their shape. *)
LEMMA Constants ==
    /\ MaxEdits \in Nat /\ MaxProgress \in Nat /\ MaxRestarts \in Nat
    /\ MaxStalls \in Nat /\ MaxOpens \in Nat
  BY ReportAssumption, ClientAssumption

LEMMA AbsentIsNoRow == Absent \notin ReportRows
  BY DEF Absent, ReportRows, RowStatuses

LEMMA ClaimedIsRow ==
    ASSUME NEW f \in Versions PROVE Claimed(f) \in ReportRows /\ Claimed(f).fp = f
                                    /\ Claimed(f).status = "pending"
  BY DEF Claimed, Absent, ReportRows, RowStatuses

LEMMA WrittenIsRow ==
    ASSUME NEW x \in ReportRows, NEW st \in RowStatuses, NEW data \in Versions \cup {None}
    PROVE  /\ [x EXCEPT !.status = st, !.beat = "fresh"] \in ReportRows
           /\ [x EXCEPT !.status = st, !.payload = data, !.beat = "fresh"] \in ReportRows
           /\ [x EXCEPT !.beat = "stale"] \in ReportRows
  BY DEF ReportRows

LEMMA RestIsJob == Rest \in Jobs
  BY Constants DEF Rest, Jobs, JobPcs, Versions

(* What a step leaves alone it keeps: rows are never removed, inputs never go *)
(* back.                                                                      *)
Grows ==
    /\ \A r \in Reports : HasRow(r) => HasRow(r)'
    /\ \A r \in Reports : inputs'[r] \in Versions /\ inputs[r] <= inputs'[r]

LEMMA SameRowsGrow ==
    ASSUME TypeOK, inputs' = inputs, row' = row PROVE Grows
<1>1. \A r \in Reports : inputs[r] \in Versions /\ inputs[r] <= inputs[r]
  BY Constants DEF TypeOK, Versions
<1> QED
  BY <1>1 DEF Grows, HasRow

LEMMA WrittenRowsGrow ==
    ASSUME TypeOK, inputs' = inputs, NEW r \in Reports, NEW x \in ReportRows,
           row' = [row EXCEPT ![r] = x]
    PROVE  Grows /\ row' \in [Reports -> ReportRows \cup {Absent}]
<1>1. \A q \in Reports : inputs[q] \in Versions /\ inputs[q] <= inputs[q]
  BY Constants DEF TypeOK, Versions
<1> QED
  BY <1>1 DEF Grows, HasRow, TypeOK

LEMMA ClientsKeep ==
    ASSUME Inv, Grows, client' = client PROVE \A c \in Clients : ClientOK(c)'
<1> SUFFICES ASSUME NEW c \in Clients PROVE ClientOK(c)'
  OBVIOUS
<1>1. ClientOK(c)
  BY DEF Inv
<1>2. client[c].pc # "off" =>
        /\ client[c].fp \in Versions /\ client[c].report \in Reports
        /\ client[c].fp <= inputs'[client[c].report]
  <2> SUFFICES ASSUME client[c].pc # "off" PROVE
        /\ client[c].fp \in Versions /\ client[c].report \in Reports
        /\ client[c].fp <= inputs'[client[c].report]
    OBVIOUS
  <2>1. /\ client[c].fp \in Int /\ inputs[client[c].report] \in Int
        /\ inputs'[client[c].report] \in Int
    BY <1>1, Constants DEF ClientOK, Inv, TypeOK, Versions, Grows
  <2> QED
    BY <1>1, <2>1 DEF ClientOK, Grows
<1> QED
  BY <1>1, <1>2 DEF ClientOK, Grows, HasRow

LEMMA OtherClientsKeep ==
    ASSUME Inv, inputs' = inputs, row' = row, NEW c \in Clients,
           \A d \in Clients \ {c} : client'[d] = client[d], ClientOK(c)'
    PROVE  \A d \in Clients : ClientOK(d)'
<1> SUFFICES ASSUME NEW d \in Clients, d # c PROVE ClientOK(d)'
  OBVIOUS
<1>1. ClientOK(d) /\ client'[d] = client[d]
  BY DEF Inv
<1> QED
  BY <1>1 DEF ClientOK, HasRow

LEMMA QueuesKeep ==
    ASSUME Inv, Grows, queue' = queue PROVE QueuedHaveRows'
  BY DEF Inv, Grows, QueuedHaveRows, HasRow

LEMMA JobKeeps ==
    ASSUME Inv, Grows, NEW u \in Threads, job'[u] = job[u]
    PROVE  JobOK(u)'
<1>1. JobOK(u)
  BY DEF Inv
<1>2. job[u].pc # "idle" => job[u].report \in Reports /\ HasRow(job[u].report)'
  BY <1>1 DEF JobOK, Grows, HasRow
<1>3. job[u].pc \in {"start", "read", "work"} => job[u].expected <= inputs'[job[u].report]
  <2> SUFFICES ASSUME job[u].pc \in {"start", "read", "work"}
               PROVE  job[u].expected <= inputs'[job[u].report]
    OBVIOUS
  <2>1. job[u].report \in Reports
    BY <1>2
  <2>2. /\ job[u].expected \in Int /\ inputs[job[u].report] \in Int
        /\ inputs'[job[u].report] \in Int
    BY <1>1, <2>1, Constants DEF JobOK, Inv, TypeOK, Versions, Grows
  <2> QED
    BY <1>1, <2>1, <2>2 DEF JobOK, Grows
<1> QED
  BY <1>1, <1>2, <1>3 DEF JobOK

LEMMA PendingKeep ==
    ASSUME Inv, queue' = queue, pending' = pending,
           \A t \in Threads : job[t].pc = "taken" => job'[t] = job[t]
    PROVE  PendingServed'
<1> SUFFICES ASSUME NEW r \in pending
             PROVE \/ \E p \in Priorities : r \in Held(queue[p])
                   \/ \E t \in Threads : job'[t].pc = "taken" /\ job'[t].report = r
  BY DEF PendingServed
<1> QED
  BY DEF Inv, PendingServed

LEMMA FingerprintsKeep ==
    ASSUME Inv, inputs' = inputs, NEW r \in Reports, HasRow(r), NEW x \in ReportRows,
           x.fp = row[r].fp, row' = [row EXCEPT ![r] = x] \/ row' = row
    PROVE  RowsBehindInputs'
<1> SUFFICES ASSUME NEW q \in Reports, HasRow(q)' PROVE (row'[q]).fp <= inputs[q]
  BY DEF RowsBehindInputs
<1>1. row \in [Reports -> ReportRows \cup {Absent}]
  BY DEF Inv, TypeOK
<1>2. CASE row' = row
  BY <1>2 DEF Inv, RowsBehindInputs, HasRow
<1>3. CASE row' = [row EXCEPT ![r] = x] /\ q = r
  BY <1>1, <1>3 DEF Inv, RowsBehindInputs, HasRow
<1>4. CASE row' = [row EXCEPT ![r] = x] /\ q # r
  BY <1>1, <1>4 DEF Inv, RowsBehindInputs, HasRow
<1> QED
  BY <1>2, <1>3, <1>4

-----------------------------------------------------------------------------
(* The clients' steps.  One that changes no row and promises no job: *)
ClientRows == [pc : ClientPcs, report : Reports \cup {None},
               fp : Versions \cup {None}, retried : BOOLEAN]

Spendings == [opens : 0..MaxOpens, restarts : 0..MaxRestarts, stalls : 0..MaxStalls]

LEMMA ClientMoves ==
    ASSUME Inv, NEW c \in Clients, NEW x \in ClientRows,
           client' = [client EXCEPT ![c] = x],
           x.pc # "off" => /\ x.report \in Reports /\ x.fp \in Versions
                           /\ x.fp <= inputs[x.report],
           x.pc # "submit",
           UNCHANGED <<inputs, row, queue, pending, job>>,
           spent' \in Spendings
    PROVE  Inv'
<1>1. Grows
  BY SameRowsGrow DEF Inv
<1>2. client \in [Clients -> ClientRows]
  BY DEF Inv, TypeOK, ClientRows
<1>3. client' \in [Clients -> ClientRows] /\ client'[c] = x
  BY <1>2
<1>4. TypeOK'
  BY <1>3 DEF Inv, TypeOK, ClientRows, Spendings
<1>5. ClientOK(c)'
  BY <1>3 DEF ClientOK
<1>6. \A d \in Clients : ClientOK(d)'
  BY <1>2, <1>5, OtherClientsKeep
<1>7. QueuedHaveRows' /\ PendingServed'
  BY <1>1, QueuesKeep, PendingKeep
<1>8. \A t \in Threads : JobOK(t)'
  BY <1>1, JobKeeps
<1>9. RowsBehindInputs'
  BY DEF Inv, RowsBehindInputs, HasRow
<1> QED
  BY <1>4, <1>6, <1>7, <1>8, <1>9 DEF Inv

LEMMA SpentIsTyped ==
    ASSUME TypeOK
    PROVE  /\ spent \in Spendings
           /\ spent.opens < MaxOpens => [spent EXCEPT !.opens = @ + 1] \in Spendings
           /\ spent.restarts < MaxRestarts => [spent EXCEPT !.restarts = @ + 1] \in Spendings
           /\ spent.stalls < MaxStalls => [spent EXCEPT !.stalls = @ + 1] \in Spendings
<1>1. spent \in Spendings
  BY DEF TypeOK, Spendings
<1>2. /\ spent.opens \in 0..MaxOpens /\ spent.restarts \in 0..MaxRestarts
      /\ spent.stalls \in 0..MaxStalls
  BY <1>1 DEF Spendings
<1>3. /\ spent.opens < MaxOpens => spent.opens + 1 \in 0..MaxOpens
      /\ spent.restarts < MaxRestarts => spent.restarts + 1 \in 0..MaxRestarts
      /\ spent.stalls < MaxStalls => spent.stalls + 1 \in 0..MaxStalls
  BY <1>2, Constants
<1> QED
  BY <1>1, <1>3 DEF Spendings

LEMMA InputsAreVersions ==
    ASSUME TypeOK, NEW r \in Reports
    PROVE  inputs[r] \in Versions /\ inputs[r] <= inputs[r]
  BY Constants DEF TypeOK, Versions

LEMMA ClosedIsClient == Closed \in ClientRows /\ Closed.pc = "off"
  BY DEF Closed, ClientRows, ClientPcs

LEMMA ClientMovesKeep ==
    ASSUME Inv, NEW c \in Clients,
           \/ \E r \in Reports : Open(c, r)
           \/ Respond(c) \/ Poll(c) \/ Repost(c) \/ FetchData(c) \/ Close(c)
    PROVE  Inv'
<1>1. client[c] \in ClientRows /\ ClientOK(c)
  BY DEF Inv, TypeOK, ClientRows
<1>2. TypeOK
  BY DEF Inv
<1>3. \A r : Following(r) \in {"data", "failed", "repost", "poll"}
  BY DEF Following
<1>4. ASSUME NEW r \in Reports, Open(c, r) PROVE Inv'
  <2> DEFINE x == [Closed EXCEPT !.pc = "claim", !.report = r, !.fp = inputs[r]]
  <2>1. /\ x \in ClientRows /\ x.pc = "claim" /\ x.report = r /\ x.fp = inputs[r]
    BY <1>2, InputsAreVersions DEF Closed, ClientRows, ClientPcs
  <2>2. client' = [client EXCEPT ![c] = x]
    BY <1>4 DEF Open
  <2>3. spent' \in Spendings
    BY <1>2, <1>4, SpentIsTyped DEF Open
  <2>4. UNCHANGED <<inputs, row, queue, pending, job>>
    BY <1>4 DEF Open
  <2> QED
    BY <1>2, <2>1, <2>2, <2>3, <2>4, ClientMoves, InputsAreVersions
<1>5. CASE Respond(c)
  <2> DEFINE x == IF c \in Hooks THEN Closed
                  ELSE [client[c] EXCEPT !.pc = Following(client[c].report)]
  <2>1. client' = [client EXCEPT ![c] = x] /\ client[c].pc = "respond"
    BY <1>5 DEF Respond
  <2>2. x \in ClientRows /\ x.pc # "submit"
        /\ (x.pc # "off" => x.report = client[c].report /\ x.fp = client[c].fp)
    BY <1>1, <1>3, ClosedIsClient DEF ClientRows, ClientPcs
  <2>3. UNCHANGED <<inputs, row, queue, pending, job, spent>>
    BY <1>5 DEF Respond, reportVars
  <2> QED
    BY <1>1, <1>2, <2>1, <2>2, <2>3, ClientMoves, SpentIsTyped DEF ClientOK
<1>6. CASE Poll(c)
  <2> DEFINE x == [client[c] EXCEPT !.pc = Following(client[c].report)]
  <2>1. client' = [client EXCEPT ![c] = x] /\ client[c].pc = "poll"
    BY <1>6 DEF Poll
  <2>2. x \in ClientRows /\ x.pc # "submit"
        /\ x.report = client[c].report /\ x.fp = client[c].fp
    BY <1>1, <1>3 DEF ClientRows, ClientPcs
  <2>3. UNCHANGED <<inputs, row, queue, pending, job, spent>>
    BY <1>6 DEF Poll, reportVars
  <2> QED
    BY <1>1, <1>2, <2>1, <2>2, <2>3, ClientMoves, SpentIsTyped DEF ClientOK
<1>7. CASE Repost(c)
  <2> DEFINE x == [client[c] EXCEPT !.pc = "claim", !.fp = inputs[client[c].report]]
  <2>1. client' = [client EXCEPT ![c] = x] /\ client[c].pc = "repost"
    BY <1>7 DEF Repost
  <2>2. client[c].report \in Reports
    BY <1>1, <2>1 DEF ClientOK
  <2>3. x \in ClientRows /\ x.pc = "claim"
        /\ x.report = client[c].report /\ x.fp = inputs[client[c].report]
    BY <1>1, <1>2, <2>2, InputsAreVersions DEF ClientRows, ClientPcs
  <2>4. UNCHANGED <<inputs, row, queue, pending, job, spent>>
    BY <1>7 DEF Repost, reportVars
  <2> QED
    BY <1>2, <2>1, <2>2, <2>3, <2>4, ClientMoves, SpentIsTyped, InputsAreVersions
<1>8. CASE FetchData(c)
  <2>1. client[c].pc = "data" /\ client[c].report \in Reports
    BY <1>1, <1>8 DEF FetchData, ClientOK
  <2>2. PICK x : /\ client' = [client EXCEPT ![c] = x]
                 /\ \/ x = [client[c] EXCEPT !.pc = "shown"]
                    \/ x = [client[c] EXCEPT !.pc = "error"]
                    \/ x = [client[c] EXCEPT !.pc = "claim", !.retried = TRUE,
                                             !.fp = inputs[client[c].report]]
    BY <1>8 DEF FetchData
  <2>3. x \in ClientRows /\ x.pc \in {"shown", "error", "claim"}
        /\ x.report = client[c].report /\ x.fp \in {client[c].fp, inputs[client[c].report]}
    BY <1>1, <1>2, <2>1, <2>2, InputsAreVersions DEF ClientRows, ClientPcs
  <2>4. UNCHANGED <<inputs, row, queue, pending, job, spent>>
    BY <1>8 DEF FetchData, reportVars
  <2> QED
    BY <1>1, <1>2, <2>1, <2>2, <2>3, <2>4, ClientMoves, SpentIsTyped, InputsAreVersions
       DEF ClientOK
<1>9. CASE Close(c)
  <2>1. client' = [client EXCEPT ![c] = Closed]
        /\ UNCHANGED <<inputs, row, queue, pending, job, spent>>
    BY <1>9 DEF Close, reportVars
  <2> QED
    BY <1>2, <2>1, ClientMoves, SpentIsTyped, ClosedIsClient
<1> QED
  BY <1>4, <1>5, <1>6, <1>7, <1>8, <1>9

(* A claim keeps the row or makes it a pending one with its own fingerprint. *)
LEMMA ClaimWritesRow ==
    ASSUME Inv, NEW c \in Clients, ClaimReport(c)
    PROVE  LET r == client[c].report
               x == ClaimedRow(r, client[c].fp)
           IN  /\ r \in Reports /\ x \in ReportRows
               /\ x.fp = client[c].fp /\ x.fp <= inputs[r]
               /\ row' = [row EXCEPT ![r] = x]
               /\ \/ x = row[r]
                  \/ x.status = "pending" /\ ~ Kept(r, client[c].fp)
               /\ x.status = "pending" => ~ Kept(r, client[c].fp)
<1> DEFINE r == client[c].report
           f == client[c].fp
<1>1. r \in Reports /\ f \in Versions /\ f <= inputs[r]
  BY DEF Inv, ClientOK, ClaimReport
<1>2. row[r] \in ReportRows \cup {Absent}
  BY <1>1 DEF Inv, TypeOK
<1>3. row[r].status \in {"ready", "running", "pending"} => row[r] \in ReportRows
  BY <1>2 DEF Absent
<1>4. CASE Kept(r, f) \/ (row[r].status = "pending" /\ row[r].fp = f)
  BY <1>1, <1>3, <1>4 DEF ClaimReport, ClaimedRow, Kept
<1>5. CASE ~ (Kept(r, f) \/ (row[r].status = "pending" /\ row[r].fp = f))
  BY <1>1, <1>5, ClaimedIsRow DEF ClaimReport, ClaimedRow
<1> QED
  BY <1>4, <1>5

LEMMA ClaimKeeps == ASSUME Inv, NEW c \in Clients, ClaimReport(c) PROVE Inv'
<1> DEFINE r == client[c].report
           x == ClaimedRow(r, client[c].fp)
           y == [client[c] EXCEPT !.pc = IF Kept(r, client[c].fp) THEN "respond" ELSE "submit"]
<1>1. /\ r \in Reports /\ x \in ReportRows /\ row' = [row EXCEPT ![r] = x]
      /\ x.fp = client[c].fp /\ x.fp <= inputs[r]
  BY ClaimWritesRow
<1>2. UNCHANGED <<inputs, queue, pending, job, spent>> /\ client' = [client EXCEPT ![c] = y]
  BY DEF ClaimReport
<1>3. Grows /\ row' \in [Reports -> ReportRows \cup {Absent}]
  BY <1>1, <1>2, WrittenRowsGrow DEF Inv
<1>4. row' \in [Reports -> ReportRows \cup {Absent}] /\ row'[r] = x
      /\ \A q \in Reports \ {r} : row'[q] = row[q]
  BY <1>1, <1>3 DEF Inv, TypeOK
<1>5. client[c] \in ClientRows /\ client \in [Clients -> ClientRows] /\ ClientOK(c)
      /\ client[c].pc = "claim"
  BY DEF Inv, TypeOK, ClientRows, ClaimReport
<1>6. y \in ClientRows /\ y.report = r /\ y.fp = client[c].fp
  BY <1>5 DEF ClientRows, ClientPcs
<1>7. client' \in [Clients -> ClientRows] /\ client'[c] = y
  BY <1>2, <1>5, <1>6
<1>8. TypeOK'
  BY <1>2, <1>3, <1>7 DEF Inv, TypeOK, ClientRows
<1>9. ASSUME NEW d \in Clients PROVE ClientOK(d)'
  <2>1. CASE d = c
    BY <2>1, <1>1, <1>2, <1>4, <1>5, <1>6, <1>7 DEF ClientOK, HasRow
  <2>2. CASE d # c
    BY <2>2, <1>2, <1>3, <1>5 DEF Inv, ClientOK, Grows, HasRow
  <2> QED
    BY <2>1, <2>2
<1>10. QueuedHaveRows' /\ PendingServed'
  BY <1>2, <1>3, QueuesKeep, PendingKeep
<1>11. \A t \in Threads : JobOK(t)'
  BY <1>2, <1>3 DEF Inv, JobOK, Grows, HasRow
<1>12. RowsBehindInputs'
  <2> SUFFICES ASSUME NEW q \in Reports, HasRow(q)' PROVE row'[q].fp <= inputs[q]
    BY <1>2 DEF RowsBehindInputs
  <2> QED
    BY <1>1, <1>4 DEF Inv, RowsBehindInputs, HasRow
<1> QED
  BY <1>8, <1>9, <1>10, <1>11, <1>12 DEF Inv

(* A submit puts the id on a queue unless it is pending. *)
LEMMA SubmitQueues ==
    ASSUME TypeOK, NEW r \in Reports, NEW p \in Priorities, Submit(r, p), r \notin pending
    PROVE  /\ queue' \in [Priorities -> Seq(Reports)]
           /\ pending' = pending \cup {r}
           /\ Held(queue'[p]) = Held(queue[p]) \cup {r}
           /\ \A q \in Priorities \ {p} : queue'[q] = queue[q]
<1>1. queue \in [Priorities -> Seq(Reports)] /\ queue[p] \in Seq(Reports)
  BY DEF TypeOK
<1>2. queue' = [queue EXCEPT ![p] = Append(queue[p], r)] /\ pending' = pending \cup {r}
  BY DEF Submit
<1>3. /\ Append(queue[p], r) \in Seq(Reports)
      /\ Held(Append(queue[p], r)) = Held(queue[p]) \cup {r}
  BY <1>1, PutOnQueue
<1> QED
  BY <1>1, <1>2, <1>3

LEMMA PriorityIsOne == ASSUME NEW c PROVE PriorityOf(c) \in Priorities
  BY DEF PriorityOf, Priorities

LEMMA SubmitKeeps == ASSUME Inv, NEW c \in Clients, SubmitJob(c) PROVE Inv'
<1> DEFINE r == client[c].report
           p == PriorityOf(c)
           y == [client[c] EXCEPT !.pc = "respond"]
<1>1. UNCHANGED <<inputs, row, job, spent>> /\ client' = [client EXCEPT ![c] = y]
      /\ client[c].pc = "submit" /\ Submit(r, p)
  BY DEF SubmitJob
<1>2. client \in [Clients -> ClientRows] /\ ClientOK(c) /\ TypeOK
  BY DEF Inv, TypeOK, ClientRows
<1>3. HasRow(r) /\ r \in Reports /\ p \in Priorities
  BY <1>1, <1>2, PriorityIsOne DEF ClientOK, HasRow
<1>4. y \in ClientRows /\ y.report = r /\ y.fp = client[c].fp /\ y.pc = "respond"
  BY <1>2 DEF ClientRows, ClientPcs
<1>5. client' \in [Clients -> ClientRows] /\ client'[c] = y
  BY <1>1, <1>2, <1>4
<1>6. Grows
  BY <1>1, <1>2, SameRowsGrow
<1>7. \A d \in Clients : ClientOK(d)'
  <2>1. ClientOK(c)'
    BY <1>1, <1>2, <1>4, <1>5 DEF ClientOK
  <2> QED
    BY <1>1, <1>2, <2>1, OtherClientsKeep
<1>8. \A t \in Threads : JobOK(t)'
  BY <1>1 DEF Inv, JobOK, HasRow
<1>9. RowsBehindInputs'
  BY <1>1 DEF Inv, RowsBehindInputs, HasRow
<1>10. TypeOK' /\ QueuedHaveRows' /\ PendingServed'
  <2>1. CASE r \in pending
    <3>1. UNCHANGED <<queue, pending>>
      BY <1>1, <2>1 DEF Submit
    <3>2. QueuedHaveRows' /\ PendingServed'
      BY <1>1, <1>6, <3>1, QueuesKeep, PendingKeep
    <3> QED
      BY <1>1, <1>2, <1>5, <3>1, <3>2 DEF TypeOK, ClientRows
  <2>2. CASE r \notin pending
    <3>1. /\ queue' \in [Priorities -> Seq(Reports)]
          /\ pending' = pending \cup {r}
          /\ Held(queue'[p]) = Held(queue[p]) \cup {r}
          /\ \A q \in Priorities \ {p} : queue'[q] = queue[q]
      BY <1>1, <1>2, <1>3, <2>2, SubmitQueues
    <3>2. TypeOK'
      BY <1>1, <1>2, <1>3, <1>5, <3>1 DEF TypeOK, ClientRows
    <3>3. QueuedHaveRows'
      BY <1>1, <1>3, <3>1 DEF Inv, QueuedHaveRows, HasRow
    <3>4. PendingServed'
      <4> SUFFICES ASSUME NEW q \in pending'
                   PROVE \/ \E k \in Priorities : q \in Held(queue'[k])
                         \/ \E t \in Threads : job[t].pc = "taken" /\ job[t].report = q
        BY <1>1 DEF PendingServed
      <4>1. CASE q = r
        BY <1>3, <3>1, <4>1
      <4>2. CASE q # r
        <5>1. CASE \E k \in Priorities : q \in Held(queue[k])
          BY <5>1, <3>1
        <5> QED
          BY <5>1, <4>2, <3>1 DEF Inv, PendingServed
      <4> QED
        BY <4>1, <4>2
    <3> QED
      BY <3>2, <3>3, <3>4
  <2> QED
    BY <2>1, <2>2
<1> QED
  BY <1>7, <1>8, <1>9, <1>10 DEF Inv

-----------------------------------------------------------------------------
(* The steps of a thread. *)
LEMMA TakenJob ==
    ASSUME Inv, NEW t \in Threads, TakeJob(t)
    PROVE  \E p \in Priorities :
              /\ queue[p] # <<>> /\ Head(queue[p]) \in Held(queue[p])
              /\ HasRow(Head(queue[p]))
              /\ job[t].pc = "idle"
              /\ job' = [job EXCEPT ![t] = [Rest EXCEPT !.pc = "taken",
                                                        !.report = Head(queue[p])]]
              /\ queue' = [queue EXCEPT ![p] = Tail(queue[p])]
              /\ queue' \in [Priorities -> Seq(Reports)]
              /\ Held(queue[p]) = Held(queue'[p]) \cup {Head(queue[p])}
              /\ \A q \in Priorities \ {p} : queue'[q] = queue[q]
<1>1. PICK p \in Priorities :
          /\ queue[p] # <<>>
          /\ job' = [job EXCEPT ![t] = [Rest EXCEPT !.pc = "taken",
                                                    !.report = Head(queue[p])]]
          /\ queue' = [queue EXCEPT ![p] = Tail(queue[p])]
  BY DEF TakeJob
<1>2. queue \in [Priorities -> Seq(Reports)]
  BY DEF Inv, TypeOK
<1>3. /\ Head(queue[p]) \in Reports /\ Tail(queue[p]) \in Seq(Reports)
      /\ Held(queue[p]) = Held(Tail(queue[p])) \cup {Head(queue[p])}
  BY <1>1, <1>2, TakenFromQueue
<1>4. HasRow(Head(queue[p]))
  BY <1>3 DEF Inv, QueuedHaveRows
<1>5. queue' \in [Priorities -> Seq(Reports)] /\ queue'[p] = Tail(queue[p])
      /\ \A q \in Priorities \ {p} : queue'[q] = queue[q]
  BY <1>1, <1>2, <1>3
<1>6. job[t].pc = "idle"
  BY DEF TakeJob
<1> WITNESS p \in Priorities
<1> QED
  BY <1>1, <1>3, <1>4, <1>5, <1>6

LEMMA TakeKeeps == ASSUME Inv, NEW t \in Threads, TakeJob(t), client' = client PROVE Inv'
<1>1. PICK p \in Priorities :
              /\ queue[p] # <<>> /\ Head(queue[p]) \in Held(queue[p])
              /\ HasRow(Head(queue[p]))
              /\ job[t].pc = "idle"
              /\ job' = [job EXCEPT ![t] = [Rest EXCEPT !.pc = "taken",
                                                        !.report = Head(queue[p])]]
              /\ queue' = [queue EXCEPT ![p] = Tail(queue[p])]
              /\ queue' \in [Priorities -> Seq(Reports)]
              /\ Held(queue[p]) = Held(queue'[p]) \cup {Head(queue[p])}
              /\ \A q \in Priorities \ {p} : queue'[q] = queue[q]
  BY TakenJob
<1> DEFINE r == Head(queue[p])
           x == [Rest EXCEPT !.pc = "taken", !.report = r]
<1>2. UNCHANGED <<inputs, row, pending, spent, client>>
  BY DEF TakeJob
<1>3. Grows
  BY <1>2, SameRowsGrow DEF Inv
<1>4. x \in Jobs /\ x.pc = "taken" /\ x.report = r
  BY <1>1, RestIsJob DEF Rest, Jobs, JobPcs, HasRow
<1>5. job \in [Threads -> Jobs] /\ job' = [job EXCEPT ![t] = x]
  BY <1>1 DEF Inv, TypeOK
<1>6. job' \in [Threads -> Jobs] /\ job'[t] = x /\ \A u \in Threads \ {t} : job'[u] = job[u]
  BY <1>4, <1>5
<1>7. JobOK(t)'
  BY <1>1, <1>2, <1>4, <1>6 DEF JobOK, HasRow
<1>8. \A u \in Threads : JobOK(u)'
  BY <1>3, <1>6, <1>7, JobKeeps
<1>9. TypeOK'
  BY <1>1, <1>2, <1>6 DEF Inv, TypeOK
<1>10. QueuedHaveRows'
  BY <1>1, <1>2 DEF Inv, QueuedHaveRows, HasRow
<1>11. PendingServed'
  <2> SUFFICES ASSUME NEW q \in pending
               PROVE \/ \E k \in Priorities : q \in Held(queue'[k])
                     \/ \E u \in Threads : job'[u].pc = "taken" /\ job'[u].report = q
    BY <1>2 DEF PendingServed
  <2>1. CASE \E k \in Priorities : q \in Held(queue[k])
    <3>1. CASE q = r
      BY <3>1, <1>4, <1>6
    <3>2. CASE q # r
      BY <2>1, <3>2, <1>1
    <3> QED
      BY <3>1, <3>2
  <2>2. CASE \E u \in Threads : job[u].pc = "taken" /\ job[u].report = q
    BY <2>2, <1>1, <1>6
  <2> QED
    BY <2>1, <2>2 DEF Inv, PendingServed
<1> QED
  BY <1>2, <1>3, <1>8, <1>9, <1>10, <1>11, ClientsKeep DEF Inv, RowsBehindInputs, HasRow

(* Any other step of thread t gives it the job x, and row r of it the value v. *)
JobSteps(t, x, v) ==
    /\ job' = [job EXCEPT ![t] = x]
    /\ row' = row \/ row' = [row EXCEPT ![job[t].report] = v]
    /\ UNCHANGED <<inputs, queue, spent, client>>

LEMMA JobStepsKeep ==
    ASSUME Inv, NEW t \in Threads, NEW x \in Jobs, NEW v \in ReportRows, JobSteps(t, x, v),
           HasRow(job[t].report), v.fp = row[job[t].report].fp,
           \/ pending' = pending /\ job[t].pc # "taken"
           \/ pending' = pending \ {job[t].report},
           x.pc # "idle" => x.report = job[t].report,
           x.pc = "start" => x.row \in ReportRows,
           x.pc \in {"start", "read", "work"} =>
              x.expected \in Versions /\ x.expected <= inputs[job[t].report],
           x.pc = "work" => x.data \in Versions /\ x.expected <= x.data
    PROVE  Inv'
<1> DEFINE r == job[t].report
<1>1. r \in Reports /\ TypeOK
  BY DEF HasRow, Inv
<1>2. Grows /\ row' \in [Reports -> ReportRows \cup {Absent}]
  <2>1. CASE row' = row
    BY <2>1, <1>1, SameRowsGrow DEF JobSteps, TypeOK
  <2>2. CASE row' = [row EXCEPT ![r] = v]
    BY <2>2, <1>1, WrittenRowsGrow DEF JobSteps
  <2> QED
    BY <2>1, <2>2 DEF JobSteps
<1>3. job' \in [Threads -> Jobs] /\ job'[t] = x /\ \A u \in Threads \ {t} : job'[u] = job[u]
  BY <1>1 DEF JobSteps, TypeOK
<1>4. JobOK(t)'
  BY <1>1, <1>2, <1>3 DEF JobSteps, JobOK, Grows
<1>5. \A u \in Threads : JobOK(u)'
  BY <1>2, <1>3, <1>4, JobKeeps
<1>6. TypeOK'
  BY <1>1, <1>2, <1>3 DEF TypeOK, JobSteps
<1>7. PendingServed'
  <2>1. CASE pending' = pending /\ job[t].pc # "taken"
    <3>1. \A u \in Threads : job[u].pc = "taken" => job'[u] = job[u]
      BY <2>1, <1>3
    <3> QED
      BY <2>1, <3>1, PendingKeep DEF JobSteps
  <2>2. CASE pending' = pending \ {r}
    <3> SUFFICES ASSUME NEW q \in pending, q # r
                 PROVE \/ \E k \in Priorities : q \in Held(queue[k])
                       \/ \E u \in Threads : job'[u].pc = "taken" /\ job'[u].report = q
      BY <2>2 DEF PendingServed, JobSteps
    <3>1. CASE \E u \in Threads : job[u].pc = "taken" /\ job[u].report = q
      BY <3>1, <1>3
    <3> QED
      BY <3>1 DEF Inv, PendingServed
  <2> QED
    BY <2>1, <2>2
<1>8. RowsBehindInputs'
  BY <1>1, FingerprintsKeep DEF JobSteps
<1> QED
  BY <1>2, <1>5, <1>6, <1>7, <1>8, ClientsKeep, QueuesKeep DEF Inv, JobSteps

(* What the thread writes keeps the fingerprint of the row. *)
LEMMA StatusIsWritten ==
    ASSUME NEW r, row[r] \in ReportRows, NEW loaded, NEW st \in RowStatuses
    PROVE  StatusWritten(r, loaded, st) \in RowStatuses
  BY DEF StatusWritten, ReportRows

Running(t) == [row[job[t].report] EXCEPT
    !.status = StatusWritten(job[t].report, job[t].row, "running"), !.beat = "fresh"]
ReadyRow(t) == [row[job[t].report] EXCEPT
    !.status = StatusWritten(job[t].report, job[t].row, "ready"),
    !.payload = job[t].data, !.beat = "fresh"]
FailedRow(t) == [row[job[t].report] EXCEPT
    !.status = StatusWritten(job[t].report, job[t].row, "failed"), !.beat = "fresh"]

LEMMA WrittenByThread ==
    ASSUME Inv, NEW t \in Threads, HasRow(job[t].report)
    PROVE  /\ job[t] \in Jobs
           /\ Running(t) \in ReportRows /\ Running(t).fp = row[job[t].report].fp
           /\ ReadyRow(t) \in ReportRows /\ ReadyRow(t).fp = row[job[t].report].fp
           /\ FailedRow(t) \in ReportRows /\ FailedRow(t).fp = row[job[t].report].fp
<1> DEFINE x == row[job[t].report]
<1>1. x \in ReportRows
  BY DEF HasRow
<1>2. \A st \in RowStatuses : StatusWritten(job[t].report, job[t].row, st) \in RowStatuses
  BY <1>1, StatusIsWritten
<1>3. {"running", "ready", "failed"} \subseteq RowStatuses
  BY DEF RowStatuses
<1>4. job[t] \in Jobs
  BY DEF Inv, TypeOK
<1>5. job[t].data \in Versions \cup {None}
  BY <1>4 DEF Jobs
<1>6. \A st \in RowStatuses, data \in Versions \cup {None} :
        /\ [x EXCEPT !.status = st, !.beat = "fresh"] \in ReportRows
        /\ [x EXCEPT !.status = st, !.beat = "fresh"].fp = x.fp
        /\ [x EXCEPT !.status = st, !.payload = data, !.beat = "fresh"] \in ReportRows
        /\ [x EXCEPT !.status = st, !.payload = data, !.beat = "fresh"].fp = x.fp
  BY <1>1, WrittenIsRow DEF ReportRows
<1> QED
  BY <1>2, <1>3, <1>4, <1>5, <1>6 DEF Running, ReadyRow, FailedRow

(* A thread that computes works on a report that has a row. *)
LEMMA BusyHasRow ==
    ASSUME Inv, NEW t \in Threads, job[t].pc # "idle"
    PROVE  HasRow(job[t].report) /\ job[t].report \in Reports /\ job[t] \in Jobs /\ JobOK(t)
  BY DEF Inv, JobOK, HasRow, TypeOK

LEMMA DiscardKeeps ==
    ASSUME Inv, NEW t \in Threads, DiscardPending(t), client' = client PROVE Inv'
<1> DEFINE x == [job[t] EXCEPT !.pc = "load"]
<1>1. HasRow(job[t].report) /\ job[t] \in Jobs
  BY BusyHasRow DEF DiscardPending
<1>2. x \in Jobs /\ x.pc = "load" /\ x.report = job[t].report
  BY <1>1 DEF Jobs, JobPcs
<1>3. JobSteps(t, x, row[job[t].report]) /\ pending' = pending \ {job[t].report}
  BY DEF JobSteps, DiscardPending
<1> QED
  BY <1>1, <1>2, <1>3, JobStepsKeep DEF HasRow

LEMMA LoadKeeps ==
    ASSUME Inv, NEW t \in Threads, LoadRow(t), client' = client PROVE Inv'
<1> DEFINE r == job[t].report
           x == [job[t] EXCEPT !.pc = "start", !.row = row[r], !.expected = row[r].fp]
<1>1. HasRow(r) /\ r \in Reports /\ job[t] \in Jobs /\ row[r] \in ReportRows
  BY BusyHasRow DEF LoadRow, HasRow
<1>2. row[r].fp \in Versions /\ row[r].fp <= inputs[r]
  BY <1>1 DEF Inv, RowsBehindInputs, ReportRows
<1>3. x \in Jobs /\ x.pc = "start" /\ x.report = r /\ x.row = row[r] /\ x.expected = row[r].fp
  BY <1>1, <1>2 DEF Jobs, JobPcs
<1>4. JobSteps(t, x, row[r]) /\ pending' = pending /\ job[t].pc # "taken"
  BY DEF JobSteps, LoadRow, Of
<1> QED
  BY <1>1, <1>2, <1>3, <1>4, JobStepsKeep

LEMMA MarkKeeps ==
    ASSUME Inv, NEW t \in Threads, MarkLoading(t), client' = client PROVE Inv'
<1> DEFINE x == [job[t] EXCEPT !.pc = "read", !.row = Absent]
<1>1. HasRow(job[t].report) /\ job[t] \in Jobs /\ JobOK(t) /\ job[t].pc = "start"
  BY BusyHasRow DEF MarkLoading
<1>2. x \in Jobs /\ x.pc = "read" /\ x.report = job[t].report /\ x.expected = job[t].expected
  BY <1>1 DEF Jobs, JobPcs
<1>3. JobSteps(t, x, Running(t)) /\ pending' = pending /\ job[t].pc # "taken"
  BY DEF JobSteps, MarkLoading, Progressed, Running
<1>4. Running(t) \in ReportRows /\ Running(t).fp = row[job[t].report].fp
  BY <1>1, WrittenByThread
<1> QED
  BY <1>1, <1>2, <1>3, <1>4, JobStepsKeep DEF JobOK

LEMMA ReadKeeps ==
    ASSUME Inv, NEW t \in Threads, ReadInputs(t), client' = client PROVE Inv'
<1> DEFINE r == job[t].report
           x == [job[t] EXCEPT !.pc = "work", !.data = inputs[r], !.left = MaxProgress]
<1>1. HasRow(r) /\ r \in Reports /\ job[t] \in Jobs /\ JobOK(t) /\ job[t].pc = "read"
  BY BusyHasRow DEF ReadInputs
<1>2. inputs[r] \in Versions /\ MaxProgress \in 0..MaxProgress
  BY <1>1, Constants DEF Inv, TypeOK
<1>3. x \in Jobs /\ x.pc = "work" /\ x.report = r /\ x.expected = job[t].expected
      /\ x.data = inputs[r]
  BY <1>1, <1>2 DEF Jobs, JobPcs
<1>4. JobSteps(t, x, row[r]) /\ pending' = pending /\ job[t].pc # "taken"
  BY DEF JobSteps, ReadInputs
<1> QED
  BY <1>1, <1>2, <1>3, <1>4, JobStepsKeep DEF JobOK, HasRow

LEMMA ReloadKeeps ==
    ASSUME Inv, NEW t \in Threads, ReloadRow(t), client' = client PROVE Inv'
<1> DEFINE r == job[t].report
           x == [job[t] EXCEPT !.row = row[r]]
<1>1. HasRow(r) /\ job[t] \in Jobs /\ JobOK(t) /\ job[t].pc \in {"work", "failing"}
  BY BusyHasRow DEF ReloadRow
<1>2. x \in Jobs /\ x.pc = job[t].pc /\ x.report = r /\ x.expected = job[t].expected
      /\ x.data = job[t].data
  BY <1>1 DEF Jobs, HasRow
<1>3. JobSteps(t, x, row[r]) /\ pending' = pending /\ job[t].pc # "taken"
  BY DEF JobSteps, ReloadRow, Of
<1> QED
  BY <1>1, <1>2, <1>3, JobStepsKeep DEF JobOK, HasRow

LEMMA ProgressKeeps ==
    ASSUME Inv, NEW t \in Threads, CommitProgress(t), client' = client PROVE Inv'
<1> DEFINE x == [job[t] EXCEPT !.row = Absent, !.left = @ - 1]
<1>1. HasRow(job[t].report) /\ job[t] \in Jobs /\ JobOK(t) /\ job[t].pc = "work"
      /\ job[t].left > 0
  BY BusyHasRow DEF CommitProgress
<1>2. job[t].left \in 0..MaxProgress /\ job[t].left - 1 \in 0..MaxProgress
  BY <1>1, Constants DEF Jobs
<1>3. x \in Jobs /\ x.pc = "work" /\ x.report = job[t].report
      /\ x.expected = job[t].expected /\ x.data = job[t].data
  BY <1>1, <1>2 DEF Jobs
<1>4. JobSteps(t, x, Running(t)) /\ pending' = pending /\ job[t].pc # "taken"
  BY DEF JobSteps, CommitProgress, Progressed, Running
<1>5. Running(t) \in ReportRows /\ Running(t).fp = row[job[t].report].fp
  BY <1>1, WrittenByThread
<1> QED
  BY <1>1, <1>3, <1>4, <1>5, JobStepsKeep DEF JobOK

LEMMA StoreKeeps ==
    ASSUME Inv, NEW t \in Threads, StoreReport(t) \/ StoreFailure(t), client' = client
    PROVE  Inv'
<1>1. HasRow(job[t].report) /\ job[t].pc \in {"work", "failing"}
  BY BusyHasRow DEF StoreReport, StoreFailure
<1>2. PICK v \in {ReadyRow(t), FailedRow(t)} : JobSteps(t, Rest, v)
  BY DEF JobSteps, StoreReport, StoreFailure, ReadyRow, FailedRow
<1>3. v \in ReportRows /\ v.fp = row[job[t].report].fp
  BY <1>1, WrittenByThread
<1>4. pending' = pending
  BY DEF StoreReport, StoreFailure
<1>5. Rest \in Jobs /\ Rest.pc = "idle"
  BY RestIsJob DEF Rest
<1> QED
  BY <1>1, <1>2, <1>3, <1>4, <1>5, JobStepsKeep

LEMMA RaiseKeeps ==
    ASSUME Inv, NEW t \in Threads, ComputeRaises(t), client' = client PROVE Inv'
<1> DEFINE x == [job[t] EXCEPT !.pc = "failing", !.row = Absent]
<1>1. HasRow(job[t].report) /\ job[t] \in Jobs /\ job[t].pc \in {"read", "work"}
  BY BusyHasRow DEF ComputeRaises
<1>2. x \in Jobs /\ x.pc = "failing" /\ x.report = job[t].report
  BY <1>1 DEF Jobs, JobPcs
<1>3. JobSteps(t, x, row[job[t].report]) /\ pending' = pending /\ job[t].pc # "taken"
  BY DEF JobSteps, ComputeRaises
<1> QED
  BY <1>1, <1>2, <1>3, JobStepsKeep DEF HasRow

LEMMA ThreadKeeps ==
    ASSUME Inv, NEW t \in Threads, Compute(t) \/ ComputeRaises(t), client' = client
    PROVE  Inv'
  BY TakeKeeps, DiscardKeeps, LoadKeeps, MarkKeeps, ReadKeeps, ReloadKeeps, ProgressKeeps,
     StoreKeeps, RaiseKeeps DEF Compute

-----------------------------------------------------------------------------
(* Edits, heartbeats and restarts. *)
LEMMA EditKeeps ==
    ASSUME Inv, NEW r \in Reports, EditInputs(r), client' = client PROVE Inv'
<1>1. inputs \in [Reports -> Versions] /\ inputs' = [inputs EXCEPT ![r] = inputs[r] + 1]
      /\ inputs[r] < MaxEdits
  BY DEF Inv, TypeOK, EditInputs
<1>2. inputs[r] + 1 \in Versions /\ inputs[r] <= inputs[r] + 1
      /\ \A q \in Reports : inputs[q] <= inputs[q] /\ inputs[q] \in Int
  BY <1>1, Constants DEF Versions
<1>3. inputs' \in [Reports -> Versions] /\ \A q \in Reports : inputs[q] <= inputs'[q]
  BY <1>1, <1>2
<1>4. UNCHANGED <<row, queue, pending, job, spent, client>>
  BY DEF EditInputs
<1>5. Grows
  BY <1>3, <1>4 DEF Grows, HasRow
<1>6. \A u \in Threads : JobOK(u)'
  BY <1>4, <1>5, JobKeeps
<1>7. RowsBehindInputs'
  <2> SUFFICES ASSUME NEW q \in Reports, HasRow(q) PROVE row[q].fp <= inputs'[q]
    BY <1>4 DEF RowsBehindInputs, HasRow
  <2>1. row[q].fp \in Versions /\ row[q].fp <= inputs[q]
    BY DEF Inv, RowsBehindInputs, HasRow, ReportRows
  <2> QED
    BY <2>1, <1>1, <1>3, Constants DEF Versions
<1>8. TypeOK'
  BY <1>3, <1>4 DEF Inv, TypeOK
<1> QED
  BY <1>4, <1>5, <1>6, <1>7, <1>8, ClientsKeep, QueuesKeep, PendingKeep DEF Inv

LEMMA HeartbeatKeeps ==
    ASSUME Inv, NEW r \in Reports, DeadHeartbeat(r) \/ SlowHeartbeat(r), client' = client
    PROVE  Inv'
<1> DEFINE x == [row[r] EXCEPT !.beat = "stale"]
<1>1. UNCHANGED <<inputs, queue, pending, job, client>> /\ row' = [row EXCEPT ![r] = x]
      /\ row[r].status = "running"
  BY DEF DeadHeartbeat, SlowHeartbeat
<1>2. TypeOK /\ spent' \in Spendings
  BY SpentIsTyped DEF Inv, DeadHeartbeat, SlowHeartbeat
<1>3. HasRow(r)
  BY <1>1, <1>2 DEF TypeOK, HasRow, Absent
<1>4. x \in ReportRows /\ x.fp = row[r].fp
  BY <1>3 DEF HasRow, ReportRows
<1>5. Grows /\ row' \in [Reports -> ReportRows \cup {Absent}]
  BY <1>1, <1>2, <1>4, WrittenRowsGrow
<1>6. \A u \in Threads : JobOK(u)'
  BY <1>1, <1>5 DEF Inv, JobOK, Grows, HasRow
<1>7. RowsBehindInputs'
  BY <1>1, <1>3, <1>4, FingerprintsKeep
<1>8. TypeOK'
  BY <1>1, <1>2, <1>5 DEF TypeOK, Spendings
<1> QED
  BY <1>1, <1>5, <1>6, <1>7, <1>8, ClientsKeep, QueuesKeep, PendingKeep DEF Inv

LEMMA RestartKeeps == ASSUME Inv, Restart PROVE Inv'
<1>1. /\ queue' = [p \in Priorities |-> <<>>] /\ pending' = {}
      /\ job' = [t \in Threads |-> Rest] /\ UNCHANGED <<inputs, row>>
      /\ client' = [c \in Clients |->
                     IF client[c].pc \notin {"claim", "submit", "respond"} THEN client[c]
                     ELSE IF c \in Hooks THEN Closed
                     ELSE [client[c] EXCEPT !.pc = "error"]]
  BY DEF Restart
<1>2. TypeOK /\ spent' \in Spendings
  BY SpentIsTyped DEF Inv, Restart
<1>3. \A c \in Clients : client'[c] \in ClientRows /\ ClientOK(c)'
  <2> SUFFICES ASSUME NEW c \in Clients PROVE client'[c] \in ClientRows /\ ClientOK(c)'
    OBVIOUS
  <2>1. ClientOK(c) /\ client[c] \in ClientRows
    BY DEF Inv, TypeOK, ClientRows
  <2>2. CASE client'[c] = client[c]
    BY <2>1, <2>2, <1>1 DEF ClientOK, HasRow
  <2>3. CASE client'[c] = Closed
    BY <2>3, ClosedIsClient DEF ClientOK
  <2>4. CASE client'[c] = [client[c] EXCEPT !.pc = "error"] /\ client[c].pc # "off"
    <3>1. /\ client'[c] \in ClientRows /\ client'[c].pc = "error"
          /\ client'[c].report = client[c].report /\ client'[c].fp = client[c].fp
      BY <2>1, <2>4 DEF ClientRows, ClientPcs
    <3> QED
      BY <2>1, <2>4, <3>1, <1>1 DEF ClientOK
  <2> QED
    BY <2>2, <2>3, <2>4, <1>1
<1>4. client' \in [Clients -> ClientRows]
  BY <1>1, <1>3
<1>5. <<>> \in Seq(Reports) /\ Held(<<>>) = {}
  BY DEF Held
<1>6. TypeOK'
  BY <1>1, <1>2, <1>4, <1>5, RestIsJob DEF TypeOK, ClientRows, Spendings
<1>7. QueuedHaveRows' /\ PendingServed'
  BY <1>1, <1>5 DEF QueuedHaveRows, PendingServed
<1>8. \A t \in Threads : JobOK(t)'
  BY <1>1 DEF JobOK, Rest
<1>9. RowsBehindInputs'
  BY <1>1 DEF Inv, RowsBehindInputs, HasRow
<1> QED
  BY <1>3, <1>6, <1>7, <1>8, <1>9 DEF Inv

-----------------------------------------------------------------------------
LEMMA InitInv == Init => Inv
<1> SUFFICES ASSUME Init PROVE Inv
  OBVIOUS
<1>1. <<>> \in Seq(Reports) /\ Held(<<>>) = {}
  BY DEF Held
<1>2. TypeOK
  <2>1. 0 \in Versions /\ 0 \in 0..MaxOpens /\ 0 \in 0..MaxRestarts /\ 0 \in 0..MaxStalls
    BY Constants DEF Versions
  <2> QED
    BY <1>1, <2>1, RestIsJob, ClosedIsClient DEF Init, TypeOK, ClientRows
<1>3. QueuedHaveRows /\ PendingServed
  BY <1>1 DEF Init, QueuedHaveRows, PendingServed
<1>4. (\A c \in Clients : ClientOK(c)) /\ (\A t \in Threads : JobOK(t))
  BY DEF Init, ClientOK, JobOK, Closed, Rest
<1>5. RowsBehindInputs
  BY AbsentIsNoRow DEF Init, RowsBehindInputs, HasRow
<1> QED
  BY <1>2, <1>3, <1>4, <1>5 DEF Inv

LEMMA StepKeepsInv == Inv /\ [Next]_vars => Inv'
<1> SUFFICES ASSUME Inv, [Next]_vars PROVE Inv'
  OBVIOUS
<1>1. ASSUME NEW t \in Threads, (Compute(t) \/ ComputeRaises(t)) /\ UNCHANGED client
      PROVE  Inv'
  BY <1>1, ThreadKeeps
<1>2. ASSUME NEW r \in Reports,
             (EditInputs(r) \/ DeadHeartbeat(r) \/ SlowHeartbeat(r)) /\ UNCHANGED client
      PROVE  Inv'
  BY <1>2, EditKeeps, HeartbeatKeeps
<1>3. ASSUME NEW c \in Clients, (\E r \in Reports : Open(c, r)) \/ Serve(c)
      PROVE  Inv'
  BY <1>3, ClientMovesKeep, ClaimKeeps, SubmitKeeps DEF Serve
<1>4. ASSUME NEW c \in Dialogs, Follow(c) \/ Close(c) PROVE Inv'
  BY <1>4, ClientMovesKeep DEF Follow, Clients
<1>5. CASE UNCHANGED vars
  <2>1. UNCHANGED <<inputs, row, queue, pending, job, spent, client>>
    BY <1>5 DEF vars
  <2>2. TypeOK' /\ QueuedHaveRows' /\ RowsBehindInputs' /\ PendingServed'
    BY <2>1 DEF Inv, TypeOK, QueuedHaveRows, RowsBehindInputs, PendingServed, HasRow
  <2> QED
    BY <2>1, <2>2 DEF Inv, ClientOK, JobOK, HasRow
<1> QED
  BY <1>1, <1>2, <1>3, <1>4, <1>5, RestartKeeps DEF Next

(* The invariant of the component holds for any number of everything. *)
THEOREM Invariance == Spec => []Inv
  BY InitInv, StepKeepsInv, PTL DEF Spec

(* Type correctness of the rows, the queue, the threads and the clients. *)
THEOREM TypeCorrect == Spec => []TypeOK
<1>1. Inv => TypeOK
  BY DEF Inv
<1> QED
  BY <1>1, Invariance, PTL

-----------------------------------------------------------------------------
(* Who is about to compute report r: the queue, a client, a thread. *)
QueuePromise(r) == \E p \in Priorities : r \in Held(queue[p])
ClientPromise(r) == \E c \in Clients : client[c].pc = "submit" /\ client[c].report = r
JobPromise(t, r) ==
    /\ job[t].report = r
    /\ \/ job[t].pc \in {"taken", "load"}
       \/ job[t].pc = "start" /\ job[t].row.status = row[r].status

LEMMA PromiseParts ==
    \A r : Promised(r) <=> \/ QueuePromise(r) \/ ClientPromise(r)
                           \/ \E t \in Threads : JobPromise(t, r)
  BY QueuedIsHeld DEF Promised, QueuePromise, ClientPromise, JobPromise

LEMMA PromisePartsNext ==
    \A r : Promised(r)' <=> \/ QueuePromise(r)' \/ ClientPromise(r)'
                            \/ \E t \in Threads : JobPromise(t, r)'
  BY DEF Promised, QueuePromise, ClientPromise, JobPromise, Queued, Held

OneThread == \A t, u \in Threads : t = u

(* A promise is kept, or the report is being computed; with several threads a  *)
(* second one may find it done.                                              *)
PromiseKept(r) ==
    Promised(r) => \/ Promised(r)'
                   \/ row'[r].status = "running"
                   \/ row'[r].status \in {"ready", "failed"} /\ ~ OneThread

(* A row becomes pending only with a promise. *)
Pended(r) ==
    row'[r].status = "pending" => row[r].status = "pending" \/ Promised(r)'

LEMMA ClientMovesPromise ==
    ASSUME Inv, NEW c \in Clients,
           \/ \E r \in Reports : Open(c, r)
           \/ Respond(c) \/ Poll(c) \/ Repost(c) \/ FetchData(c) \/ Close(c)
    PROVE  \A r \in Reports : PromiseKept(r) /\ row' = row
<1>1. row' = row /\ queue' = queue /\ job' = job /\ client[c].pc # "submit"
  BY DEF Open, Respond, Poll, Repost, FetchData, Close, reportVars
<1>2. \A d \in Clients \ {c} : client'[d] = client[d]
  BY DEF Inv, TypeOK, Open, Respond, Poll, Repost, FetchData, Close
<1>3. \A r : ClientPromise(r) => ClientPromise(r)'
  BY <1>1, <1>2 DEF ClientPromise
<1> QED
  BY <1>1, <1>3, PromiseParts, PromisePartsNext DEF PromiseKept, QueuePromise, JobPromise

LEMMA ClaimPromise ==
    ASSUME Inv, NEW c \in Clients, ClaimReport(c), NEW r \in Reports
    PROVE  PromiseKept(r) /\ Pended(r)
<1> DEFINE q == client[c].report
           x == ClaimedRow(q, client[c].fp)
<1>1. /\ row' = [row EXCEPT ![q] = x] /\ q \in Reports
      /\ x = row[q] \/ (x.status = "pending" /\ ~ Kept(q, client[c].fp))
      /\ x.status = "pending" => ~ Kept(q, client[c].fp)
  BY ClaimWritesRow
<1>2. /\ queue' = queue /\ job' = job /\ client[c].pc = "claim"
      /\ client' = [client EXCEPT ![c].pc =
                        IF Kept(q, client[c].fp) THEN "respond" ELSE "submit"]
  BY DEF ClaimReport
<1>3. row \in [Reports -> ReportRows \cup {Absent}] /\ client \in [Clients -> ClientRows]
  BY DEF Inv, TypeOK, ClientRows
<1>4. client'[c].report = q
      /\ client'[c].pc = IF Kept(q, client[c].fp) THEN "respond" ELSE "submit"
  BY <1>2, <1>3 DEF ClientRows
<1>5. ~ Kept(q, client[c].fp) => ClientPromise(q)'
  BY <1>4 DEF ClientPromise
<1>6. row'[q] = x /\ \A z \in Reports \ {q} : row'[z] = row[z]
  BY <1>1, <1>3
<1>7. CASE row'[r] = row[r]
  <2>1. ClientPromise(r) => ClientPromise(r)'
    BY <1>2, <1>3 DEF ClientPromise
  <2>2. QueuePromise(r)' = QueuePromise(r) /\ \A t \in Threads : JobPromise(t, r)' = JobPromise(t, r)
    BY <1>2, <1>7 DEF QueuePromise, JobPromise
  <2> QED
    BY <1>7, <2>1, <2>2, PromiseParts, PromisePartsNext DEF PromiseKept, Pended
<1>8. CASE row'[r] # row[r]
  BY <1>1, <1>4, <1>5, <1>6, <1>8, PromisePartsNext DEF PromiseKept, Pended
<1> QED
  BY <1>7, <1>8

LEMMA SubmitPromise ==
    ASSUME Inv, NEW c \in Clients, SubmitJob(c), NEW r \in Reports
    PROVE  PromiseKept(r) /\ row' = row
<1> DEFINE q == client[c].report
           p == PriorityOf(c)
<1>1. /\ row' = row /\ job' = job /\ client[c].pc = "submit" /\ Submit(q, p)
      /\ client' = [client EXCEPT ![c].pc = "respond"]
  BY DEF SubmitJob
<1>2. q \in Reports /\ p \in Priorities /\ TypeOK /\ client \in [Clients -> ClientRows]
  BY <1>1, PriorityIsOne DEF Inv, ClientOK, HasRow, TypeOK, ClientRows
<1>3. \A t : JobPromise(t, r)' = JobPromise(t, r)
  BY <1>1 DEF JobPromise
<1>4. ClientPromise(r) => ClientPromise(r)' \/ r = q
  BY <1>1, <1>2 DEF ClientPromise
<1>5. QueuePromise(r) => QueuePromise(r)'
  <2>1. CASE q \in pending
    BY <1>1, <2>1 DEF Submit, QueuePromise
  <2>2. CASE q \notin pending
    <3>1. /\ Held(queue'[p]) = Held(queue[p]) \cup {q}
          /\ \A k \in Priorities \ {p} : queue'[k] = queue[k]
      BY <1>1, <1>2, <2>2, SubmitQueues
    <3> QED
      BY <3>1 DEF QueuePromise
  <2> QED
    BY <2>1, <2>2
<1>6. r = q => Promised(r)'
  <2>1. CASE q \in pending
    <3>1. queue' = queue
      BY <1>1, <2>1 DEF Submit
    <3>2. QueuePromise(q) \/ \E t \in Threads : JobPromise(t, q)
      BY <2>1 DEF Inv, PendingServed, QueuePromise, JobPromise
    <3> QED
      BY <1>1, <3>1, <3>2, PromisePartsNext DEF QueuePromise, JobPromise
  <2>2. CASE q \notin pending
    <3>1. Held(queue'[p]) = Held(queue[p]) \cup {q}
      BY <1>1, <1>2, <2>2, SubmitQueues
    <3>2. r = q => QueuePromise(r)'
      BY <1>2, <3>1 DEF QueuePromise
    <3> QED
      BY <3>2, PromisePartsNext
  <2> QED
    BY <2>1, <2>2
<1> QED
  BY <1>1, <1>3, <1>4, <1>5, <1>6, PromiseParts, PromisePartsNext DEF PromiseKept

LEMMA TakePromise ==
    ASSUME Inv, NEW t \in Threads, TakeJob(t), client' = client, NEW r \in Reports
    PROVE  PromiseKept(r) /\ row' = row
<1>1. PICK p \in Priorities :
              /\ job[t].pc = "idle"
              /\ job' = [job EXCEPT ![t] = [Rest EXCEPT !.pc = "taken",
                                                        !.report = Head(queue[p])]]
              /\ Held(queue[p]) = Held(queue'[p]) \cup {Head(queue[p])}
              /\ \A q \in Priorities \ {p} : queue'[q] = queue[q]
  BY TakenJob
<1>2. row' = row
  BY DEF TakeJob
<1>3. job \in [Threads -> Jobs]
  BY DEF Inv, TypeOK
<1>4. job'[t].pc = "taken" /\ job'[t].report = Head(queue[p])
      /\ \A u \in Threads \ {t} : job'[u] = job[u]
  BY <1>1, <1>3 DEF Rest
<1>5. QueuePromise(r) => QueuePromise(r)' \/ JobPromise(t, r)'
  BY <1>1, <1>4 DEF QueuePromise, JobPromise
<1>6. \A u \in Threads : JobPromise(u, r) => JobPromise(u, r)'
  BY <1>1, <1>2, <1>4 DEF JobPromise
<1>7. ClientPromise(r) => ClientPromise(r)'
  BY DEF ClientPromise
<1> QED
  BY <1>2, <1>5, <1>6, <1>7, PromiseParts, PromisePartsNext DEF PromiseKept

(* A step of a thread that is not TakeJob leaves the queue and the clients as  *)
(* they are: what counts is the thread's own promise and what it writes.      *)
LEMMA StepsPromise ==
    ASSUME Inv, NEW t \in Threads, NEW x \in Jobs, NEW v \in ReportRows, JobSteps(t, x, v),
           HasRow(job[t].report),
           NEW r \in Reports,
           JobPromise(t, r) => JobPromise(t, r)' \/ row'[r].status = "running",
           row' = row \/ v.status \in {"running", row[job[t].report].status}
              \/ (v.status \in {"ready", "failed"} /\ ~ JobPromise(t, r))
    PROVE  PromiseKept(r) /\ Pended(r)
<1> DEFINE q == job[t].report
<1>1. /\ queue' = queue /\ client' = client /\ job' = [job EXCEPT ![t] = x]
      /\ row' = row \/ row' = [row EXCEPT ![q] = v]
  BY DEF JobSteps
<1>2. row \in [Reports -> ReportRows \cup {Absent}] /\ q \in Reports
      /\ job \in [Threads -> Jobs]
  BY DEF Inv, TypeOK, HasRow
<1>3. QueuePromise(r)' = QueuePromise(r) /\ ClientPromise(r)' = ClientPromise(r)
  BY <1>1 DEF QueuePromise, ClientPromise
<1>4. \/ row'[r].status = row[r].status \/ row'[r].status = "running"
      \/ row'[r].status \in {"ready", "failed"} /\ ~ JobPromise(t, r)
  BY <1>1, <1>2
<1>5. \A u \in Threads \ {t} : job'[u] = job[u]
  BY <1>1, <1>2
<1>6. Pended(r)
  BY <1>4 DEF Pended
<1>7. ASSUME NEW u \in Threads, JobPromise(u, r)
      PROVE  \/ JobPromise(u, r)' \/ row'[r].status = "running"
             \/ row'[r].status \in {"ready", "failed"} /\ ~ OneThread
  <2>1. CASE u = t
    BY <1>7, <2>1
  <2>2. CASE u # t /\ row'[r].status = row[r].status
    BY <1>5, <1>7, <2>2 DEF JobPromise
  <2>3. CASE u # t /\ row'[r].status \in {"ready", "failed"}
    BY <2>3 DEF OneThread
  <2> QED
    BY <1>4, <2>1, <2>2, <2>3
<1> QED
  BY <1>3, <1>6, <1>7, PromiseParts, PromisePartsNext DEF PromiseKept

LEMMA ThreadPromise ==
    ASSUME Inv, NEW t \in Threads, Compute(t) \/ ComputeRaises(t), client' = client,
           NEW r \in Reports
    PROVE  PromiseKept(r) /\ Pended(r)
<1>1. CASE TakeJob(t)
  BY <1>1, TakePromise DEF Pended
<1> DEFINE q == job[t].report
           Step == \E x \in Jobs, v \in ReportRows :
                      /\ JobSteps(t, x, v)
                      /\ JobPromise(t, r) => JobPromise(t, r)' \/ row'[r].status = "running"
                      /\ \/ row' = row \/ v.status \in {"running", row[q].status}
                         \/ v.status \in {"ready", "failed"} /\ ~ JobPromise(t, r)
<1>2. ASSUME ~ TakeJob(t) PROVE HasRow(q) /\ Step
  <2>1. job[t].pc # "idle"
    BY <1>2 DEF Compute, DiscardPending, LoadRow, MarkLoading, ReadInputs, ReloadRow,
                CommitProgress, StoreReport, StoreFailure, ComputeRaises
  <2>2. HasRow(q) /\ q \in Reports /\ job[t] \in Jobs /\ row[q] \in ReportRows
    BY <2>1, BusyHasRow DEF HasRow
  <2>3. job \in [Threads -> Jobs] /\ row \in [Reports -> ReportRows \cup {Absent}]
    BY DEF Inv, TypeOK
  <2>4. /\ Running(t) \in ReportRows /\ ReadyRow(t) \in ReportRows /\ FailedRow(t) \in ReportRows
        /\ Running(t).status = StatusWritten(q, job[t].row, "running")
        /\ ReadyRow(t).status = StatusWritten(q, job[t].row, "ready")
        /\ FailedRow(t).status = StatusWritten(q, job[t].row, "failed")
    BY <2>2, WrittenByThread DEF Running, ReadyRow, FailedRow, ReportRows
  <2>5. CASE DiscardPending(t)
    <3> DEFINE x == [job[t] EXCEPT !.pc = "load"]
    <3>1. x \in Jobs /\ x.pc = "load" /\ x.report = q
      BY <2>2 DEF Jobs, JobPcs
    <3>2. JobSteps(t, x, row[q]) /\ row' = row /\ job'[t] = x
      BY <2>3, <2>5 DEF DiscardPending, JobSteps
    <3> QED
      BY <2>2, <3>1, <3>2 DEF JobPromise
  <2>6. CASE LoadRow(t)
    <3> DEFINE x == [job[t] EXCEPT !.pc = "start", !.row = row[q], !.expected = row[q].fp]
    <3>1. x \in Jobs /\ x.pc = "start" /\ x.report = q /\ x.row = row[q]
      BY <2>2 DEF Jobs, JobPcs, ReportRows
    <3>2. JobSteps(t, x, row[q]) /\ row' = row /\ job'[t] = x
      BY <2>3, <2>6 DEF LoadRow, JobSteps, Of
    <3> QED
      BY <2>2, <3>1, <3>2 DEF JobPromise
  <2>7. CASE MarkLoading(t)
    <3> DEFINE x == [job[t] EXCEPT !.pc = "read", !.row = Absent]
    <3>1. x \in Jobs
      BY <2>2 DEF Jobs, JobPcs
    <3>2. JobSteps(t, x, Running(t)) /\ row' = [row EXCEPT ![q] = Running(t)]
          /\ job[t].pc = "start"
      BY <2>7 DEF MarkLoading, Progressed, Running, JobSteps
    <3>3. JobPromise(t, r) => row'[r].status = "running"
      BY <2>2, <2>3, <2>4, <3>2 DEF JobPromise, StatusWritten
    <3>4. Running(t).status \in {"running", row[q].status}
      BY <2>4 DEF StatusWritten
    <3> QED
      BY <2>2, <2>4, <3>1, <3>2, <3>3, <3>4
  <2>8. CASE ReadInputs(t) \/ ReloadRow(t) \/ ComputeRaises(t)
    <3>1. job[t].pc \in {"read", "work", "failing"} /\ row' = row
      BY <2>8 DEF ReadInputs, ReloadRow, ComputeRaises
    <3>2. ~ JobPromise(t, r)
      BY <3>1 DEF JobPromise
    <3> DEFINE Next3 == {[job[t] EXCEPT !.pc = "work", !.data = inputs[q],
                                         !.left = MaxProgress],
                         [job[t] EXCEPT !.row = row[q]],
                         [job[t] EXCEPT !.pc = "failing", !.row = Absent]}
    <3>3. PICK x \in Jobs : job' = [job EXCEPT ![t] = x]
      <4>1. inputs[q] \in Versions /\ MaxProgress \in 0..MaxProgress
        BY <2>2, Constants DEF Inv, TypeOK
      <4>2. Next3 \subseteq Jobs
        BY <2>2, <4>1 DEF Jobs, JobPcs
      <4>3. \E x \in Next3 : job' = [job EXCEPT ![t] = x]
        BY <2>8 DEF ReadInputs, ReloadRow, ComputeRaises, Of
      <4> QED
        BY <4>2, <4>3
    <3>4. JobSteps(t, x, row[q])
      BY <2>8, <3>3 DEF JobSteps, ReadInputs, ReloadRow, ComputeRaises
    <3> QED
      BY <2>2, <3>1, <3>2, <3>3, <3>4
  <2>9. CASE CommitProgress(t)
    <3> DEFINE x == [job[t] EXCEPT !.row = Absent, !.left = @ - 1]
    <3>1. job[t].left \in 0..MaxProgress /\ job[t].left - 1 \in 0..MaxProgress
      BY <2>2, <2>9, Constants DEF Jobs, CommitProgress
    <3>2. x \in Jobs
      BY <2>2, <3>1 DEF Jobs
    <3>3. JobSteps(t, x, Running(t)) /\ job[t].pc = "work"
      BY <2>9 DEF CommitProgress, Progressed, Running, JobSteps
    <3>4. Running(t).status \in {"running", row[q].status} /\ ~ JobPromise(t, r)
      BY <2>4, <3>3 DEF StatusWritten, JobPromise
    <3> QED
      BY <2>2, <2>4, <3>2, <3>3, <3>4
  <2>10. CASE StoreReport(t) \/ StoreFailure(t)
    <3>1. PICK v \in {ReadyRow(t), FailedRow(t)} : JobSteps(t, Rest, v)
      BY <2>10 DEF JobSteps, StoreReport, StoreFailure, ReadyRow, FailedRow
    <3>2. v.status \in {"ready", "failed", row[q].status}
      BY <2>4 DEF StatusWritten
    <3>3. ~ JobPromise(t, r)
      BY <2>10 DEF JobPromise, StoreReport, StoreFailure
    <3> QED
      BY <2>2, <2>4, <3>1, <3>2, <3>3, RestIsJob
  <2> QED
    BY <1>2, <2>2, <2>5, <2>6, <2>7, <2>8, <2>9, <2>10 DEF Compute
<1>3. CASE ~ TakeJob(t)
  <2>1. HasRow(q)
    BY <1>2, <1>3
  <2>2. PICK x \in Jobs, v \in ReportRows :
                      /\ JobSteps(t, x, v)
                      /\ JobPromise(t, r) => JobPromise(t, r)' \/ row'[r].status = "running"
                      /\ \/ row' = row \/ v.status \in {"running", row[q].status}
                         \/ v.status \in {"ready", "failed"} /\ ~ JobPromise(t, r)
    BY <1>2, <1>3
  <2> QED
    BY <2>1, <2>2, StepsPromise
<1> QED
  BY <1>1, <1>3

LEMMA EnvironmentPromise ==
    ASSUME Inv, NEW q \in Reports, EditInputs(q) \/ DeadHeartbeat(q) \/ SlowHeartbeat(q),
           client' = client, NEW r \in Reports
    PROVE  PromiseKept(r) /\ Pended(r) /\ row'[r].status = row[r].status
           /\ row'[r].payload = row[r].payload /\ row'[r].fp = row[r].fp
<1>1. /\ queue' = queue /\ job' = job
      /\ row' = row \/ row' = [row EXCEPT ![q] = [row[q] EXCEPT !.beat = "stale"]]
  BY DEF EditInputs, DeadHeartbeat, SlowHeartbeat
<1>2. row \in [Reports -> ReportRows \cup {Absent}]
  BY DEF Inv, TypeOK
<1>3. \A z \in Reports : row'[z].status = row[z].status
          /\ row'[z].payload = row[z].payload /\ row'[z].fp = row[z].fp
  BY <1>1, <1>2 DEF ReportRows, Absent
<1>4. (QueuePromise(r) => QueuePromise(r)') /\ (ClientPromise(r) => ClientPromise(r)')
  BY <1>1 DEF QueuePromise, ClientPromise
<1>5. ASSUME NEW t \in Threads, JobPromise(t, r), r \in Reports PROVE JobPromise(t, r)'
  <2>1. job'[t] = job[t] /\ row'[r].status = row[r].status
    BY <1>1, <1>3
  <2> QED
    BY <1>5, <2>1 DEF JobPromise
<1>6. PromiseKept(r)
  BY <1>4, <1>5, PromiseParts, PromisePartsNext DEF PromiseKept
<1> QED
  BY <1>3, <1>6 DEF Pended

(* Every step but a restart. *)
LEMMA PromisesAreKept ==
    ASSUME Inv, Next, ~ Restart, NEW r \in Reports PROVE PromiseKept(r) /\ Pended(r)
<1>1. ASSUME NEW t \in Threads, (Compute(t) \/ ComputeRaises(t)) /\ UNCHANGED client
      PROVE  PromiseKept(r) /\ Pended(r)
  BY <1>1, ThreadPromise
<1>2. ASSUME NEW q \in Reports,
             (EditInputs(q) \/ DeadHeartbeat(q) \/ SlowHeartbeat(q)) /\ UNCHANGED client
      PROVE  PromiseKept(r) /\ Pended(r)
  BY <1>2, EnvironmentPromise
<1>3. ASSUME NEW c \in Clients, (\E q \in Reports : Open(c, q)) \/ Serve(c)
      PROVE  PromiseKept(r) /\ Pended(r)
  BY <1>3, ClientMovesPromise, ClaimPromise, SubmitPromise DEF Serve, Pended
<1>4. ASSUME NEW c \in Dialogs, Follow(c) \/ Close(c)
      PROVE  PromiseKept(r) /\ Pended(r)
  BY <1>4, ClientMovesPromise DEF Follow, Clients, Pended
<1> QED
  BY <1>1, <1>2, <1>3, <1>4 DEF Next

LEMMA RestartIsCounted == Inv /\ Restart => spent.restarts' # spent.restarts
<1> SUFFICES ASSUME Inv, Restart PROVE spent.restarts' # spent.restarts
  OBVIOUS
<1>1. spent \in Spendings
  BY DEF Inv, TypeOK, Spendings
<1>2. spent.restarts \in Int /\ spent'.restarts = spent.restarts + 1
  BY <1>1, Constants DEF Restart, Spendings
<1> QED
  BY <1>2

LEMMA StandingStill ==
    ASSUME UNCHANGED vars, NEW r
    PROVE  Promised(r)' = Promised(r) /\ row' = row
  BY DEF vars, Promised, Queued

(* Only a restart loses a job, however many threads, dialogs and hooks there  *)
(* are and whatever order claims, submits and threads take.                   *)
THEOREM JobsAreKept == Spec => OnlyRestartLosesJobs
<1> DEFINE P == \A r \in Reports : ~ Lost(r) /\ Lost(r)' => spent.restarts' # spent.restarts
<1>1. Inv /\ [Next]_vars => [P]_vars
  <2> SUFFICES ASSUME Inv, Next, ~ Restart, NEW r \in Reports, ~ Lost(r), Lost(r)'
               PROVE  FALSE
    BY RestartIsCounted
  <2>1. PromiseKept(r) /\ Pended(r)
    BY PromisesAreKept
  <2> QED
    BY <2>1 DEF PromiseKept, Pended, Lost
<1> QED
  BY <1>1, Invariance, PTL DEF Spec, OnlyRestartLosesJobs

-----------------------------------------------------------------------------
(* With one thread: a copy of the row that is out of date belongs to a compute  *)
(* whose report was claimed again, and that claim's job is still to come.      *)
Requested(r) == QueuePromise(r) \/ ClientPromise(r)

CopyOK(t) ==
    job[t].pc \in {"read", "work", "failing"} /\ Loaded(t)
        => \/ job[t].row.fp = row[job[t].report].fp
           \/ Requested(job[t].report)

LEMMA RequestPromises == \A r : Requested(r)' => Promised(r)'
  BY PromisePartsNext DEF Requested

(* The copy of a thread that does not move stays good while its row keeps the  *)
(* fingerprint, or is claimed again, and its request stays.                   *)
LEMMA CopyKeeps ==
    ASSUME NEW t, CopyOK(t), job'[t] = job[t], NEW r, r = job[t].report,
           Requested(r) => Requested(r)',
           row'[r].fp = row[r].fp \/ Requested(r)'
    PROVE  CopyOK(t)'
<1>1. job'[t].report = r
  OBVIOUS
<1>2. Requested(job[t].report)' <=> Requested(r)'
  BY <1>1 DEF Requested, QueuePromise, ClientPromise
<1>3. ASSUME job[t].pc \in {"read", "work", "failing"}, job[t].row # Absent
      PROVE  job[t].row.fp = row'[r].fp \/ Requested(r)'
  BY <1>3 DEF CopyOK, Loaded
<1> QED
  BY <1>1, <1>2, <1>3 DEF CopyOK, Loaded

LEMMA ClientsKeepCopy ==
    ASSUME Inv, NEW c \in Clients,
           \/ \E r \in Reports : Open(c, r)
           \/ Respond(c) \/ Poll(c) \/ Repost(c) \/ FetchData(c) \/ Close(c),
           NEW t \in Threads, CopyOK(t)
    PROVE  CopyOK(t)'
<1>1. row' = row /\ queue' = queue /\ job' = job /\ client[c].pc # "submit"
  BY DEF Open, Respond, Poll, Repost, FetchData, Close, reportVars
<1>2. \A d \in Clients \ {c} : client'[d] = client[d]
  BY DEF Inv, TypeOK, Open, Respond, Poll, Repost, FetchData, Close
<1>3. \A r : Requested(r) => Requested(r)'
  BY <1>1, <1>2 DEF Requested, ClientPromise, QueuePromise
<1> QED
  BY <1>1, <1>3, CopyKeeps

LEMMA ClaimKeepsCopy ==
    ASSUME Inv, NEW c \in Clients, ClaimReport(c), NEW t \in Threads, CopyOK(t)
    PROVE  CopyOK(t)'
<1>0. PICK q, r : q = client[c].report /\ r = job[t].report
  OBVIOUS
<1> DEFINE x == ClaimedRow(q, client[c].fp)
<1>1. /\ row' = [row EXCEPT ![q] = x] /\ q \in Reports
      /\ x = row[q] \/ ~ Kept(q, client[c].fp)
  BY <1>0, ClaimWritesRow
<1>2. /\ queue' = queue /\ job' = job /\ client[c].pc = "claim"
      /\ client' = [client EXCEPT ![c].pc =
                        IF Kept(q, client[c].fp) THEN "respond" ELSE "submit"]
  BY <1>0 DEF ClaimReport
<1>3. row \in [Reports -> ReportRows \cup {Absent}] /\ client \in [Clients -> ClientRows]
  BY DEF Inv, TypeOK, ClientRows
<1>4. client'[c].report = q
      /\ client'[c].pc = IF Kept(q, client[c].fp) THEN "respond" ELSE "submit"
  BY <1>0, <1>2, <1>3 DEF ClientRows
<1>5. ~ Kept(q, client[c].fp) => Requested(q)'
  BY <1>4 DEF ClientPromise, Requested
<1>6. Requested(r) => Requested(r)'
  BY <1>2, <1>3 DEF Requested, ClientPromise, QueuePromise
<1>7. row'[r].fp = row[r].fp \/ Requested(r)'
  <2>1. CASE x = row[q]
    BY <1>1, <1>3, <2>1
  <2>2. CASE r # q
    BY <1>1, <1>3, <2>2
  <2>3. CASE r = q /\ ~ Kept(q, client[c].fp)
    BY <1>5, <2>3
  <2> QED
    BY <1>1, <2>1, <2>2, <2>3
<1> QED
  BY <1>0, <1>2, <1>6, <1>7, CopyKeeps

(* A submit that finds its id pending while the one thread computes finds it    *)
(* on the queue.                                                              *)
LEMMA SubmitKeepsCopy ==
    ASSUME OneThread, Inv, NEW c \in Clients, SubmitJob(c), NEW t \in Threads, CopyOK(t)
    PROVE  CopyOK(t)'
<1>0. PICK q, r, p : q = client[c].report /\ r = job[t].report /\ p = PriorityOf(c)
  OBVIOUS
<1>1. /\ row' = row /\ job' = job /\ client[c].pc = "submit" /\ Submit(q, p)
      /\ client' = [client EXCEPT ![c].pc = "respond"]
  BY <1>0 DEF SubmitJob
<1>2. q \in Reports /\ p \in Priorities /\ TypeOK /\ client \in [Clients -> ClientRows]
  BY <1>0, <1>1, PriorityIsOne DEF Inv, ClientOK, HasRow, TypeOK, ClientRows
<1>3. CASE job[t].pc \notin {"read", "work", "failing"}
  BY <1>1, <1>3 DEF CopyOK, Loaded
<1>4. CASE job[t].pc \in {"read", "work", "failing"}
  <2>1. QueuePromise(q)' /\ (QueuePromise(r) => QueuePromise(r)')
    <3>1. CASE q \in pending
      <4>1. queue' = queue
        BY <1>1, <3>1 DEF Submit
      <4>2. \A u \in Threads : job[u].pc # "taken"
        BY <1>4 DEF OneThread
      <4>3. QueuePromise(q)
        BY <3>1, <4>2 DEF Inv, PendingServed, QueuePromise
      <4> QED
        BY <4>1, <4>3 DEF QueuePromise
    <3>2. CASE q \notin pending
      <4>1. /\ Held(queue'[p]) = Held(queue[p]) \cup {q}
            /\ \A k \in Priorities \ {p} : queue'[k] = queue[k]
        BY <1>1, <1>2, <3>2, SubmitQueues
      <4>2. q \in Held(queue'[p])
        BY <4>1
      <4>3. \A k \in Priorities : Held(queue[k]) \subseteq Held(queue'[k])
        BY <4>1
      <4> QED
        BY <1>2, <4>2, <4>3 DEF QueuePromise
    <3> QED
      BY <3>1, <3>2
  <2>2. ClientPromise(r) => ClientPromise(r)' \/ r = q
    BY <1>0, <1>1, <1>2 DEF ClientPromise
  <2>3. Requested(r) => Requested(r)'
    BY <2>1, <2>2 DEF Requested
  <2> QED
    BY <1>0, <1>1, <2>3, CopyKeeps
<1> QED
  BY <1>3, <1>4

LEMMA ThreadKeepsCopy ==
    ASSUME Inv, NEW t \in Threads, Compute(t) \/ ComputeRaises(t), client' = client, CopyOK(t)
    PROVE  CopyOK(t)'
<1>1. job \in [Threads -> Jobs] /\ row \in [Reports -> ReportRows \cup {Absent}]
  BY DEF Inv, TypeOK
<1>2. CASE TakeJob(t) \/ DiscardPending(t) \/ LoadRow(t) \/ StoreReport(t) \/ StoreFailure(t)
  <2>1. job'[t].pc \notin {"read", "work", "failing"}
    <3>1. CASE TakeJob(t)
      BY <1>1, <3>1 DEF TakeJob, Rest
    <3>2. CASE DiscardPending(t)
      BY <1>1, <3>2 DEF DiscardPending, Jobs
    <3>3. CASE LoadRow(t)
      BY <1>1, <3>3 DEF LoadRow, Jobs
    <3>4. CASE StoreReport(t) \/ StoreFailure(t)
      BY <1>1, <3>4 DEF StoreReport, StoreFailure, Rest
    <3> QED
      BY <1>2, <3>1, <3>2, <3>3, <3>4
  <2> QED
    BY <2>1 DEF CopyOK
<1>3. CASE MarkLoading(t) \/ CommitProgress(t) \/ ComputeRaises(t)
  <2>1. job'[t].row = Absent
    BY <1>1, <1>3 DEF MarkLoading, CommitProgress, ComputeRaises, Jobs
  <2> QED
    BY <2>1 DEF CopyOK, Loaded
<1>4. CASE ReloadRow(t)
  <2>1. job'[t].row = row'[job[t].report] /\ job'[t].report = job[t].report
    BY <1>1, <1>4 DEF ReloadRow, Of, Jobs
  <2> QED
    BY <2>1 DEF CopyOK
<1>5. CASE ReadInputs(t)
  <2>1. job'[t].row = job[t].row /\ job'[t].report = job[t].report /\ job[t].pc = "read"
    BY <1>1, <1>5 DEF ReadInputs, Jobs
  <2>2. row' = row /\ queue' = queue
    BY <1>5 DEF ReadInputs
  <2>3. Requested(job[t].report) => Requested(job[t].report)'
    BY <2>1, <2>2 DEF Requested, QueuePromise, ClientPromise
  <2> QED
    BY <2>1, <2>2, <2>3 DEF CopyOK, Loaded
<1> QED
  BY <1>2, <1>3, <1>4, <1>5 DEF Compute

LEMMA EnvironmentKeepsCopy ==
    ASSUME Inv, NEW q \in Reports, EditInputs(q) \/ DeadHeartbeat(q) \/ SlowHeartbeat(q),
           client' = client, NEW t \in Threads, CopyOK(t)
    PROVE  CopyOK(t)'
<1>1. queue' = queue /\ job' = job
  BY DEF EditInputs, DeadHeartbeat, SlowHeartbeat
<1>2. \A r : Requested(r) => Requested(r)'
  BY <1>1 DEF Requested, QueuePromise, ClientPromise
<1>3. CASE job[t].pc = "idle"
  BY <1>1, <1>3 DEF CopyOK
<1>4. CASE job[t].pc # "idle"
  <2>1. job[t].report \in Reports
    BY <1>4, BusyHasRow
  <2>2. row'[job[t].report].fp = row[job[t].report].fp
    BY <2>1, EnvironmentPromise
  <2> QED
    BY <1>1, <1>2, <2>2, CopyKeeps
<1> QED
  BY <1>3, <1>4

CopiesOK == \A t \in Threads : CopyOK(t)

LEMMA StepKeepsCopies ==
    ASSUME OneThread, Inv, CopiesOK, [Next]_vars PROVE CopiesOK'
<1> SUFFICES ASSUME NEW t \in Threads PROVE CopyOK(t)'
  BY DEF CopiesOK
<1>0. CopyOK(t)
  BY DEF CopiesOK
<1>1. ASSUME NEW u \in Threads, (Compute(u) \/ ComputeRaises(u)) /\ UNCHANGED client
      PROVE  CopyOK(t)'
  <2>1. t = u
    BY DEF OneThread
  <2>2. Compute(t) \/ ComputeRaises(t)
    BY <1>1, <2>1
  <2> QED
    BY <1>0, <1>1, <2>2, ThreadKeepsCopy
<1>2. ASSUME NEW q \in Reports,
             (EditInputs(q) \/ DeadHeartbeat(q) \/ SlowHeartbeat(q)) /\ UNCHANGED client
      PROVE  CopyOK(t)'
  BY <1>0, <1>2, EnvironmentKeepsCopy
<1>3. ASSUME NEW c \in Clients, (\E q \in Reports : Open(c, q)) \/ Serve(c)
      PROVE  CopyOK(t)'
  BY <1>0, <1>3, ClientsKeepCopy, ClaimKeepsCopy, SubmitKeepsCopy DEF Serve
<1>4. ASSUME NEW c \in Dialogs, Follow(c) \/ Close(c) PROVE CopyOK(t)'
  BY <1>0, <1>4, ClientsKeepCopy DEF Follow, Clients
<1>5. CASE Restart
  BY <1>5 DEF Restart, CopyOK, Rest
<1>6. CASE UNCHANGED vars
  <2>1. row' = row /\ queue' = queue /\ job' = job /\ client' = client
    BY <1>6 DEF vars
  <2>2. Requested(job[t].report) => Requested(job[t].report)'
    BY <2>1 DEF Requested, QueuePromise, ClientPromise
  <2> QED
    BY <1>0, <2>1, <2>2, CopyKeeps
<1> QED
  BY <1>1, <1>2, <1>3, <1>4, <1>5, <1>6 DEF Next

(* A step that makes a report mislabelled leaves somebody to replace it. *)
LEMMA StoredIsCurrentOrRequested ==
    ASSUME Inv, NEW t \in Threads, CopyOK(t), StoreReport(t), client' = client,
           NEW r \in Reports, Mislabelled(r)'
    PROVE  Mislabelled(r) \/ Promised(r)'
<1> DEFINE q == job[t].report
<1>1. HasRow(q) /\ q \in Reports /\ row[q] \in ReportRows /\ job[t] \in Jobs /\ JobOK(t)
      /\ job[t].pc = "work" /\ Loaded(t)
  BY BusyHasRow DEF StoreReport, HasRow
<1>2. CASE row' = row
  BY <1>2 DEF Mislabelled
<1>3. CASE SameFingerprint(t) /\ row' = [row EXCEPT ![q] = ReadyRow(t)]
  <2>1. row'[q] = ReadyRow(t) /\ \A z \in Reports \ {q} : row'[z] = row[z]
    BY <1>1, <1>3 DEF Inv, TypeOK
  <2>2. CASE r # q
    BY <2>1, <2>2 DEF Mislabelled
  <2>3. CASE r = q
    <3>1. ReadyRow(t).payload = job[t].data /\ ReadyRow(t).fp = row[q].fp
      BY <1>1 DEF ReadyRow, ReportRows
    <3>2. job[t].data < row[q].fp
      BY <2>1, <2>3, <3>1 DEF Mislabelled
    <3>3. /\ job[t].data \in Int /\ job[t].expected \in Int /\ row[q].fp \in Int
          /\ job[t].expected <= job[t].data
      BY <1>1, Constants DEF JobOK, ReportRows, Versions
    <3>4. job[t].row.fp = job[t].expected
      BY <1>3 DEF SameFingerprint
    <3>5. job[t].row.fp # row[q].fp
      BY <3>2, <3>3, <3>4
    <3>6. Requested(q)
      BY <1>1, <3>5 DEF CopyOK
    <3>7. queue' = queue
      BY DEF StoreReport
    <3>8. Requested(r)'
      BY <2>3, <3>6, <3>7 DEF Requested, QueuePromise, ClientPromise
    <3> QED
      BY <3>8, RequestPromises
  <2> QED
    BY <2>2, <2>3
<1> QED
  BY <1>2, <1>3 DEF StoreReport, ReadyRow

LEMMA ThreadMislabels ==
    ASSUME Inv, NEW t \in Threads, CopyOK(t), Compute(t) \/ ComputeRaises(t), client' = client,
           NEW r \in Reports, Mislabelled(r)'
    PROVE  Mislabelled(r) \/ Promised(r)'
<1> DEFINE q == job[t].report
<1>1. CASE StoreReport(t)
  BY <1>1, StoredIsCurrentOrRequested
<1>2. CASE row' = row
  BY <1>2 DEF Mislabelled
<1>3. CASE MarkLoading(t) \/ CommitProgress(t) \/ StoreFailure(t)
  <2>1. HasRow(q) /\ q \in Reports /\ row[q] \in ReportRows
    BY <1>3, BusyHasRow DEF MarkLoading, CommitProgress, StoreFailure, HasRow
  <2>2. PICK v \in {row[q], Running(t), FailedRow(t)} : row' = [row EXCEPT ![q] = v]
    <3>1. row = [row EXCEPT ![q] = row[q]]
      BY DEF Inv, TypeOK
    <3> QED
      BY <1>3, <3>1 DEF MarkLoading, CommitProgress, StoreFailure, Progressed, Running, FailedRow
  <2>3. v.status \in {row[q].status, "running", "failed"} /\ v.fp = row[q].fp
        /\ v.payload = row[q].payload
    BY <2>1 DEF Running, FailedRow, StatusWritten, ReportRows
  <2>4. row'[q] = v /\ \A z \in Reports \ {q} : row'[z] = row[z]
    BY <2>1, <2>2 DEF Inv, TypeOK
  <2>5. CASE r = q
    <3>1. v.status = "ready"
      BY <2>4, <2>5 DEF Mislabelled
    <3> QED
      BY <2>3, <2>4, <2>5, <3>1 DEF Mislabelled
  <2>6. CASE r # q
    BY <2>4, <2>6 DEF Mislabelled
  <2> QED
    BY <2>5, <2>6
<1> QED
  BY <1>1, <1>2, <1>3 DEF Compute, TakeJob, DiscardPending, LoadRow, ReadInputs, ReloadRow,
     ComputeRaises

LEMMA StepMislabels ==
    ASSUME OneThread, Inv, CopiesOK, Next, ~ Restart, NEW r \in Reports, Mislabelled(r)'
    PROVE  Mislabelled(r) \/ Promised(r)'
<1>1. ASSUME NEW t \in Threads, (Compute(t) \/ ComputeRaises(t)) /\ UNCHANGED client
      PROVE  Mislabelled(r) \/ Promised(r)'
  BY <1>1, ThreadMislabels DEF CopiesOK
<1>2. ASSUME NEW q \in Reports,
             (EditInputs(q) \/ DeadHeartbeat(q) \/ SlowHeartbeat(q)) /\ UNCHANGED client
      PROVE  Mislabelled(r) \/ Promised(r)'
  BY <1>2, EnvironmentPromise DEF Mislabelled
<1>3. ASSUME NEW c \in Clients, ClaimReport(c) PROVE Mislabelled(r) \/ Promised(r)'
  <2> DEFINE q == client[c].report
             x == ClaimedRow(q, client[c].fp)
  <2>1. /\ row' = [row EXCEPT ![q] = x] /\ q \in Reports
        /\ x = row[q] \/ x.status = "pending"
    BY <1>3, ClaimWritesRow
  <2>2. row \in [Reports -> ReportRows \cup {Absent}]
    BY DEF Inv, TypeOK
  <2>3. row'[r] = row[r] \/ row'[r].status = "pending"
    BY <2>1, <2>2
  <2> QED
    BY <2>3 DEF Mislabelled
<1>4. CASE row' = row
  BY <1>4 DEF Mislabelled
<1>5. ASSUME NEW c \in Clients, (\E q \in Reports : Open(c, q)) \/ Serve(c), ~ ClaimReport(c)
      PROVE  row' = row
  BY <1>5 DEF Serve, Open, SubmitJob, Respond, reportVars
<1>6. ASSUME NEW c \in Dialogs, Follow(c) \/ Close(c) PROVE row' = row
  BY <1>6 DEF Follow, Poll, Repost, FetchData, Close, reportVars
<1> QED
  BY <1>1, <1>2, <1>3, <1>4, <1>5, <1>6 DEF Next

LEMMA InitCopies == Init => CopiesOK
  BY DEF Init, CopiesOK, CopyOK, Rest

(* With one thread a payload older than its label never stays: a step that     *)
(* leaves one with nobody to replace it is a restart.                         *)
THEOREM OneThreadReplacesMislabelled ==
    ASSUME OneThread PROVE Spec => MislabelledIsReplaced
<1> DEFINE P == \A r \in Reports :
                    (Mislabelled(r) /\ ~ Promised(r))'
                       => \/ Mislabelled(r) /\ ~ Promised(r)
                          \/ spent.restarts' # spent.restarts
<1>1. Inv /\ CopiesOK /\ [Next]_vars => [P]_vars
  <2> SUFFICES ASSUME Inv, CopiesOK, Next, ~ Restart, NEW r \in Reports,
                      Mislabelled(r)', ~ Promised(r)'
               PROVE  Mislabelled(r) /\ ~ Promised(r)
    BY RestartIsCounted
  <2>1. Mislabelled(r)
    BY StepMislabels
  <2>2. PromiseKept(r)
    BY PromisesAreKept
  <2>3. row'[r].status = "ready"
    BY DEF Mislabelled
  <2> QED
    BY <2>1, <2>2, <2>3 DEF PromiseKept
<1>2. Inv /\ CopiesOK /\ [Next]_vars => CopiesOK'
  BY StepKeepsCopies
<1> QED
  BY <1>1, <1>2, InitCopies, Invariance, PTL DEF Spec, MislabelledIsReplaced

=============================================================================
