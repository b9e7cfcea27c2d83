----------------------------- MODULE BuildLock -----------------------------
(***************************************************************************)
(* The advisory lock around one pass of the index worker.  The lock belongs *)
(* to a database connection; the worker holds a Session, which gives its    *)
(* connection back to the process's pool at every commit and takes one      *)
(* from the pool for the next statement.  Requests and divergence threads   *)
(* of the process use the same pool.                                        *)
(*                                                                         *)
(* PostgreSQL's advisory lock and SQLAlchemy's QueuePool are modelled by    *)
(* what db.py and worker.py rely on: the pool is first-in first-out, opens  *)
(* at most PoolSize + MaxOverflow connections, and closes a connection that *)
(* comes back when PoolSize are idle already; a connection that closes      *)
(* drops its locks, one that is merely returned keeps them.                 *)
(***************************************************************************)
EXTENDS Naturals, Sequences, FiniteSets

CONSTANTS
    Processes,    \* API processes on one database
    Conns,        \* database connections
    None,
    PoolSize,     \* pool_size of create_engine
    MaxOverflow,  \* max_overflow of create_engine
    MaxDepth      \* bound: nested acquisitions by one connection

ASSUME PoolAssumption ==
    /\ None \notin Conns
    /\ PoolSize \in Nat \ {0} /\ MaxOverflow \in Nat /\ MaxDepth \in Nat \ {0}

VARIABLES
    idle,     \* process -> the pool's idle connections, oldest first
    others,   \* process -> connections used by requests, threads and VACUUM
    worker,   \* process -> where its worker is in a pass, and on what connection
    lock      \* the connection that owns the lock, and how often

vars == <<idle, others, worker, lock>>

Waiting == [pc |-> "wait", conn |-> None]

InUse(p) == others[p] \cup ({worker[p].conn} \ {None})
Pooled(p) == {idle[p][i] : i \in DOMAIN idle[p]}
Open(p) == InUse(p) \cup Pooled(p)
-----------------------------------------------------------------------------
(* The pool and the lock *)

Unopened == Conns \ UNION {Open(q) : q \in Processes}

\* The connection a checkout gets: the oldest idle one, or a new one, whichever that
\* is, if none is idle.
Offered(p) ==
    IF idle[p] # <<>> THEN {Head(idle[p])}
    ELSE IF Cardinality(InUse(p)) < PoolSize + MaxOverflow /\ Unopened # {}
         THEN {CHOOSE c \in Unopened : TRUE} ELSE {}

Checkout(p) == idle' = [idle EXCEPT ![p] = IF @ = <<>> THEN @ ELSE Tail(@)]

\* What is left of lock l when connection c goes back to the pool of p.
Returned(p, c, l) ==
    IF Len(idle[p]) < PoolSize \/ l.owner # c THEN l ELSE [owner |-> None, depth |-> 0]

Return(p, c) ==
    idle' = [idle EXCEPT ![p] = IF Len(@) < PoolSize THEN Append(@, c) ELSE @]

\* pg_advisory_unlock: no effect on a connection that does not own the lock.
Unlocked(c) ==
    IF lock.owner # c THEN lock
    ELSE [owner |-> IF lock.depth = 1 THEN None ELSE c, depth |-> lock.depth - 1]
-----------------------------------------------------------------------------
(* worker.py, _iterate *)

\* Mutant of TryBuildLock: a further acquisition is not counted.
TryBuildLockUncounted(p) ==
    /\ worker[p].pc = "wait"
    /\ \E c \in Offered(p) :
          /\ lock.owner \in {None, c}
          /\ Checkout(p)
          /\ lock' = [lock EXCEPT !.owner = c]
          /\ worker' = [worker EXCEPT ![p] = [pc |-> "pass", conn |-> c]]
    /\ UNCHANGED others

\* try_build_lock, the first statement of the pass.
TryBuildLock(p) ==
    /\ worker[p].pc = "wait"
    /\ \E c \in Offered(p) :
          /\ Checkout(p)
          /\ IF lock.owner \in {None, c}
             THEN /\ lock.depth < MaxDepth
                  /\ lock' = [owner |-> c, depth |-> lock.depth + 1]
                  /\ worker' = [worker EXCEPT ![p] = [pc |-> "pass", conn |-> c]]
             ELSE /\ worker' = [worker EXCEPT ![p] = [pc |-> "skip", conn |-> c]]
                  /\ UNCHANGED lock
    /\ UNCHANGED others

\* Mutant of Commit: a transaction-level lock, which the commit drops.
CommitUnlocks(p) ==
    /\ worker[p].pc = "pass" /\ worker[p].conn # None
    /\ Return(p, worker[p].conn)
    /\ lock' = IF lock.owner = worker[p].conn THEN [owner |-> None, depth |-> 0] ELSE lock
    /\ worker' = [worker EXCEPT ![p].conn = None]
    /\ UNCHANGED others

\* session.commit(), after drain_reclaim, in the build, and after the sweep.
Commit(p) ==
    /\ worker[p].pc = "pass" /\ worker[p].conn # None
    /\ Return(p, worker[p].conn)
    /\ lock' = Returned(p, worker[p].conn, lock)
    /\ worker' = [worker EXCEPT ![p].conn = None]
    /\ UNCHANGED others

\* The first statement after a commit.
Statement(p) ==
    /\ worker[p].pc = "pass" /\ worker[p].conn = None
    /\ \E c \in Offered(p) :
          /\ Checkout(p)
          /\ worker' = [worker EXCEPT ![p].conn = c]
    /\ UNCHANGED <<others, lock>>

\* release_build_lock, its commit and close: on the connection the session has now.
ReleaseBuildLock(p) ==
    /\ worker[p].pc = "pass" /\ worker[p].conn # None
    /\ Return(p, worker[p].conn)
    /\ lock' = Returned(p, worker[p].conn, Unlocked(worker[p].conn))
    /\ worker' = [worker EXCEPT ![p] = Waiting]
    /\ UNCHANGED others

\* The lock was taken: session.close().
GiveUp(p) ==
    /\ worker[p].pc = "skip"
    /\ Return(p, worker[p].conn)
    /\ lock' = Returned(p, worker[p].conn, lock)
    /\ worker' = [worker EXCEPT ![p] = Waiting]
    /\ UNCHANGED others
-----------------------------------------------------------------------------
(* The rest of the process *)

\* A request, a divergence thread or vacuum_index_mapping opens a connection ...
Borrow(p) ==
    /\ \E c \in Offered(p) :
          /\ Checkout(p)
          /\ others' = [others EXCEPT ![p] = @ \cup {c}]
    /\ UNCHANGED <<worker, lock>>

\* ... and gives it back.
GiveBack(p) ==
    /\ \E c \in others[p] :
          /\ Return(p, c)
          /\ lock' = Returned(p, c, lock)
          /\ others' = [others EXCEPT ![p] = @ \ {c}]
    /\ UNCHANGED worker

\* The process ends, and every connection it has closes; it starts again.
Crash(p) ==
    /\ idle' = [idle EXCEPT ![p] = <<>>]
    /\ others' = [others EXCEPT ![p] = {}]
    /\ worker' = [worker EXCEPT ![p] = Waiting]
    /\ lock' = IF lock.owner \in Open(p) THEN [owner |-> None, depth |-> 0] ELSE lock
-----------------------------------------------------------------------------
Init ==
    /\ idle = [p \in Processes |-> <<>>]
    /\ others = [p \in Processes |-> {}]
    /\ worker = [p \in Processes |-> Waiting]
    /\ lock = [owner |-> None, depth |-> 0]

Next ==
    \E p \in Processes :
        \/ TryBuildLock(p) \/ Commit(p) \/ Statement(p)
        \/ ReleaseBuildLock(p) \/ GiveUp(p)
        \/ Borrow(p) \/ GiveBack(p) \/ Crash(p)

Spec == Init /\ [][Next]_vars
-----------------------------------------------------------------------------
\* Type correctness; a lock nobody owns has depth 0, and the pools stay in bounds.
TypeOK ==
    /\ idle \in [Processes -> Seq(Conns)]
    /\ \A p \in Processes : Len(idle[p]) <= PoolSize
    /\ others \in [Processes -> SUBSET Conns]
    /\ worker \in [Processes -> [pc : {"wait", "pass", "skip"}, conn : Conns \cup {None}]]
    /\ lock \in [owner : Conns \cup {None}, depth : 0..MaxDepth]
    /\ lock.owner = None <=> lock.depth = 0

\* doc/indexing.md: "Two API processes therefore do not build or reclaim at the same
\* time against one database" (try_build_lock, _iterate).  A process with more
\* connections than its pool keeps may close the one that owns the lock.
OneProcessBuilds ==
    \A p, q \in Processes : worker[p].pc = "pass" /\ worker[q].pc = "pass" => p = q

\* No process has more connections open than its pool keeps.
WithinPool == \A p \in Processes : Cardinality(Open(p)) <= PoolSize

\* As long as that is so, nothing else breaks the one-builder rule: neither that the
\* session gives its connection back at every commit and goes on with another one,
\* which a request may have had meanwhile, nor that the lock is released on a
\* connection that does not own it, nor a crash (_iterate, release_build_lock).
OneBuilderWithinPool == []WithinPool => []OneProcessBuilds
=============================================================================
