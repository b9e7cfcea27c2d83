---------------------------- MODULE BuildLockProofs ----------------------------
(* What holds of the build lock for any number of processes and connections:  *)
(* the shape of the state for every pool, and that one process at a time is in *)
(* a pass as long as no process has more connections open than its pool keeps. *)
EXTENDS BuildLock, FiniteSetTheorems, SequenceTheorems, TLAPS

-----------------------------------------------------------------------------
(* A connection that goes back leaves the pool within its size and the lock   *)
(* in its shape.                                                              *)
Locks == {l \in [owner : Conns \cup {None}, depth : 0 .. MaxDepth] :
            l.owner = None <=> l.depth = 0}

LEMMA ReturnKeepsPool ==
    ASSUME NEW p \in Processes, NEW c \in Conns, Return(p, c),
           idle \in [Processes -> Seq(Conns)],
           \A q \in Processes : Len(idle[q]) <= PoolSize
    PROVE  /\ idle' \in [Processes -> Seq(Conns)]
           /\ \A q \in Processes : Len(idle'[q]) <= PoolSize
<1>1. PoolSize \in Nat
  BY PoolAssumption
<1>2. idle[p] \in Seq(Conns)
  OBVIOUS
<1>3. /\ Append(idle[p], c) \in Seq(Conns)
      /\ Len(Append(idle[p], c)) = Len(idle[p]) + 1
  BY <1>2
<1> QED
  BY <1>1, <1>2, <1>3, LenProperties DEF Return

LEMMA CheckoutKeepsPool ==
    ASSUME NEW p \in Processes, Checkout(p),
           idle \in [Processes -> Seq(Conns)],
           \A q \in Processes : Len(idle[q]) <= PoolSize
    PROVE  /\ idle' \in [Processes -> Seq(Conns)]
           /\ \A q \in Processes : Len(idle'[q]) <= PoolSize
<1>1. PoolSize \in Nat
  BY PoolAssumption
<1>2. idle[p] \in Seq(Conns)
  OBVIOUS
<1>3. idle[p] # <<>> => /\ Tail(idle[p]) \in Seq(Conns)
                        /\ Len(Tail(idle[p])) = Len(idle[p]) - 1
  BY <1>2
<1> QED
  BY <1>1, <1>2, <1>3, LenProperties DEF Checkout

LEMMA OfferedFrom ==
    ASSUME NEW p \in Processes, NEW c \in Offered(p)
    PROVE  IF idle[p] # <<>> THEN c = Head(idle[p]) ELSE c \in Unopened
<1>1. ASSUME Unopened # {} PROVE (CHOOSE x \in Unopened : TRUE) \in Unopened
  BY <1>1
<1> QED
  BY <1>1 DEF Offered

LEMMA OfferedIsConn ==
    ASSUME NEW p \in Processes, idle \in [Processes -> Seq(Conns)], NEW c \in Offered(p)
    PROVE  c \in Conns /\ c # None
<1>1. idle[p] \in Seq(Conns)
  OBVIOUS
<1>2. idle[p] # <<>> => Head(idle[p]) \in Conns
  BY <1>1
<1> QED
  BY <1>2, OfferedFrom, PoolAssumption DEF Unopened

LEMMA ReturnedLock ==
    ASSUME NEW p, NEW c, NEW l \in Locks
    PROVE  Returned(p, c, l) \in Locks
  BY PoolAssumption DEF Returned, Locks

LEMMA UnlockedLock ==
    ASSUME NEW c \in Conns, lock \in Locks
    PROVE  Unlocked(c) \in Locks
  BY PoolAssumption DEF Unlocked, Locks

(* A worker that gives up has the connection it gives back. *)
SkipInv == \A p \in Processes : worker[p].pc = "skip" => worker[p].conn # None

TypeInv == TypeOK /\ SkipInv

LEMMA TypeInit == Init => TypeInv
<1> SUFFICES ASSUME Init PROVE TypeInv
  OBVIOUS
<1>1. <<>> \in Seq(Conns) /\ Len(<<>>) = 0
  OBVIOUS
<1> QED
  BY <1>1, PoolAssumption DEF Init, TypeInv, TypeOK, SkipInv, Waiting

LEMMA TypeStep == TypeInv /\ [Next]_vars => TypeInv'
<1> SUFFICES ASSUME TypeInv, [Next]_vars PROVE TypeInv'
  OBVIOUS
<1> USE PoolAssumption
<1>0. lock \in Locks
  BY DEF TypeInv, TypeOK, Locks
<1>l. ASSUME lock' \in Locks
      PROVE  /\ lock' \in [owner : Conns \cup {None}, depth : 0 .. MaxDepth]
             /\ lock'.owner = None <=> lock'.depth = 0
  BY <1>l DEF Locks
<1>i. ASSUME NEW p \in Processes, NEW c \in Conns, Return(p, c)
      PROVE  /\ idle' \in [Processes -> Seq(Conns)]
             /\ \A q \in Processes : Len(idle'[q]) <= PoolSize
  BY <1>i, ReturnKeepsPool DEF TypeInv, TypeOK
<1>o. ASSUME NEW p \in Processes, NEW c \in Offered(p), Checkout(p)
      PROVE  /\ c \in Conns /\ c # None
             /\ idle' \in [Processes -> Seq(Conns)]
             /\ \A q \in Processes : Len(idle'[q]) <= PoolSize
  BY <1>o, CheckoutKeepsPool, OfferedIsConn DEF TypeInv, TypeOK
<1>w. \A p \in Processes : worker[p].conn \in Conns \cup {None}
  BY DEF TypeInv, TypeOK
<1>1. ASSUME NEW p \in Processes, TryBuildLock(p) PROVE TypeInv'
  <2>1. PICK c \in Offered(p) :
            /\ Checkout(p)
            /\ IF lock.owner \in {None, c}
               THEN /\ lock.depth < MaxDepth
                    /\ lock' = [owner |-> c, depth |-> lock.depth + 1]
                    /\ worker' = [worker EXCEPT ![p] = [pc |-> "pass", conn |-> c]]
               ELSE /\ worker' = [worker EXCEPT ![p] = [pc |-> "skip", conn |-> c]]
                    /\ UNCHANGED lock
    BY <1>1 DEF TryBuildLock
  <2>2. c \in Conns /\ c # None
    BY <2>1, <1>o
  <2>3. lock' \in Locks
    BY <1>0, <2>1, <2>2 DEF Locks
  <2>4. /\ worker' \in [Processes -> [pc : {"wait", "pass", "skip"},
                                      conn : Conns \cup {None}]]
        /\ SkipInv'
    <3>1. PICK w \in {[pc |-> "pass", conn |-> c], [pc |-> "skip", conn |-> c]} :
              worker' = [worker EXCEPT ![p] = w]
      BY <2>1
    <3> QED
      BY <3>1, <2>2 DEF TypeInv, TypeOK, SkipInv
  <2>5. others' \in [Processes -> SUBSET Conns]
    BY <1>1 DEF TryBuildLock, TypeInv, TypeOK
  <2> QED
    BY <1>l, <1>o, <2>1, <2>3, <2>4, <2>5 DEF TypeInv, TypeOK
<1>2. ASSUME NEW p \in Processes, Commit(p) \/ ReleaseBuildLock(p) \/ GiveUp(p)
      PROVE  TypeInv'
  <2> DEFINE c == worker[p].conn
  <2>1. c \in Conns /\ c # None
    BY <1>2, <1>w DEF Commit, ReleaseBuildLock, GiveUp, TypeInv, SkipInv
  <2>2. Return(p, c) /\ UNCHANGED others
    BY <1>2 DEF Commit, ReleaseBuildLock, GiveUp
  <2>3. lock' \in Locks
    <3>1. Returned(p, c, lock) \in Locks /\ Returned(p, c, Unlocked(c)) \in Locks
      BY <1>0, <2>1, ReturnedLock, UnlockedLock
    <3> QED
      BY <1>2, <3>1 DEF Commit, ReleaseBuildLock, GiveUp
  <2>4. worker' \in {[worker EXCEPT ![p].conn = None], [worker EXCEPT ![p] = Waiting]}
    BY <1>2 DEF Commit, ReleaseBuildLock, GiveUp
  <2>5. worker[p].pc = "skip" => worker' = [worker EXCEPT ![p] = Waiting]
    BY <1>2 DEF Commit, ReleaseBuildLock, GiveUp
  <2>6. /\ worker' \in [Processes -> [pc : {"wait", "pass", "skip"},
                                      conn : Conns \cup {None}]]
        /\ SkipInv'
    <3> DEFINE w == [worker[p] EXCEPT !.conn = None]
    <3>1. /\ w \in [pc : {"wait", "pass", "skip"}, conn : Conns \cup {None}]
          /\ w.pc = worker[p].pc
      BY DEF TypeInv, TypeOK
    <3>2. CASE worker' = [worker EXCEPT ![p] = Waiting]
      BY <3>2 DEF TypeInv, TypeOK, SkipInv, Waiting
    <3>3. CASE worker' = [worker EXCEPT ![p] = w] /\ worker[p].pc # "skip"
      <4> HIDE DEF w
      <4> QED
        BY <3>1, <3>3 DEF TypeInv, TypeOK, SkipInv
    <3> QED
      BY <2>4, <2>5, <3>2, <3>3
  <2> QED
    BY <1>l, <1>i, <2>1, <2>2, <2>3, <2>6 DEF TypeInv, TypeOK
<1>3. ASSUME NEW p \in Processes, Statement(p) PROVE TypeInv'
  <2>1. PICK c \in Offered(p) :
            Checkout(p) /\ worker' = [worker EXCEPT ![p].conn = c]
    BY <1>3 DEF Statement
  <2>2. c \in Conns /\ c # None
    BY <2>1, <1>o
  <2>3. /\ worker' \in [Processes -> [pc : {"wait", "pass", "skip"},
                                      conn : Conns \cup {None}]]
        /\ SkipInv'
    BY <2>1, <2>2 DEF TypeInv, TypeOK, SkipInv
  <2> QED
    BY <1>3, <1>o, <2>1, <2>3 DEF TypeInv, TypeOK, Statement
<1>4. ASSUME NEW p \in Processes, Borrow(p) PROVE TypeInv'
  <2>1. PICK c \in Offered(p) :
            Checkout(p) /\ others' = [others EXCEPT ![p] = @ \cup {c}]
    BY <1>4 DEF Borrow
  <2>2. others' \in [Processes -> SUBSET Conns]
    BY <2>1, <1>o DEF TypeInv, TypeOK
  <2> QED
    BY <1>4, <1>o, <2>1, <2>2 DEF TypeInv, TypeOK, SkipInv, Borrow
<1>5. ASSUME NEW p \in Processes, GiveBack(p) PROVE TypeInv'
  <2>1. PICK c \in others[p] :
            /\ Return(p, c)
            /\ lock' = Returned(p, c, lock)
            /\ others' = [others EXCEPT ![p] = @ \ {c}]
    BY <1>5 DEF GiveBack
  <2>2. c \in Conns /\ others' \in [Processes -> SUBSET Conns]
    BY <2>1 DEF TypeInv, TypeOK
  <2>3. lock' \in Locks
    BY <1>0, <2>1, ReturnedLock
  <2> QED
    BY <1>5, <1>l, <1>i, <2>1, <2>2, <2>3 DEF TypeInv, TypeOK, SkipInv, GiveBack
<1>6. ASSUME NEW p \in Processes, Crash(p) PROVE TypeInv'
  <2>1. lock' \in Locks
    BY <1>0, <1>6 DEF Crash, Locks
  <2>2. <<>> \in Seq(Conns) /\ Len(<<>>) = 0
    OBVIOUS
  <2> QED
    BY <1>6, <1>l, <2>1, <2>2 DEF Crash, TypeInv, TypeOK, SkipInv, Waiting
<1>7. CASE UNCHANGED vars
  BY <1>7 DEF vars, TypeInv, TypeOK, SkipInv
<1> QED
  BY <1>1, <1>2, <1>3, <1>4, <1>5, <1>6, <1>7 DEF Next

(* The pools stay in bounds and the lock in its shape, for every pool. *)
THEOREM TypeCorrect == Spec => []TypeOK
<1>1. TypeInv => TypeOK
  BY DEF TypeInv
<1> QED
  BY TypeInit, TypeStep, <1>1, PTL DEF Spec

-----------------------------------------------------------------------------
(* A connection is in one place: with one process, once in its pool or in one *)
(* use.                                                                       *)
PlaceInv ==
    /\ \A p, q \in Processes : p # q => Open(p) \cap Open(q) = {}
    /\ \A p \in Processes :
        /\ Pooled(p) \cap InUse(p) = {}
        /\ worker[p].conn \notin others[p]
        /\ \A i, j \in DOMAIN idle[p] : idle[p][i] = idle[p][j] => i = j

(* Within its pool a process closes nothing: with what is in use its idle     *)
(* connections are never more than it keeps.                                  *)
RoomInv ==
    \A p \in Processes :
        /\ IsFiniteSet(InUse(p))
        /\ Cardinality(InUse(p)) + Len(idle[p]) <= PoolSize

(* The connection that owns the lock is open, with the process in a pass. *)
OwnerInv ==
    /\ lock.owner # None => \E p \in Processes : lock.owner \in Open(p)
    /\ \A p \in Processes : worker[p].pc = "pass" => lock.owner \in Open(p)

(* A worker outside a pass holds no connection when it starts one. *)
WaitInv == \A p \in Processes : worker[p].pc = "wait" => worker[p].conn = None

LockInv == TypeInv /\ WaitInv /\ PlaceInv /\ RoomInv /\ OwnerInv

LEMMA OpenAreConns ==
    ASSUME TypeInv, NEW p \in Processes
    PROVE  Open(p) \subseteq Conns /\ None \notin Open(p)
<1>1. idle[p] \in Seq(Conns) /\ others[p] \subseteq Conns
      /\ worker[p].conn \in Conns \cup {None}
  BY DEF TypeInv, TypeOK
<1>2. Pooled(p) \subseteq Conns
  BY <1>1 DEF Pooled
<1> QED
  BY <1>1, <1>2, PoolAssumption DEF Open, InUse

(* A checkout takes a connection that was idle here or open nowhere. *)
LEMMA Taken ==
    ASSUME TypeInv, PlaceInv, RoomInv, WithinPool',
           NEW p \in Processes, NEW c \in Offered(p), Checkout(p),
           InUse(p)' = InUse(p) \cup {c},
           \A q \in Processes \ {p} : InUse(q)' = InUse(q)
    PROVE  /\ c \notin InUse(p)
           /\ c \in Open(p) \/ \A q \in Processes : c \notin Open(q)
           /\ Open(p)' = Open(p) \cup {c}
           /\ \A q \in Processes \ {p} : Open(q)' = Open(q)
           /\ \A q, r \in Processes : q # r => Open(q)' \cap Open(r)' = {}
           /\ \A q \in Processes :
                /\ Pooled(q)' \cap InUse(q)' = {}
                /\ \A i, j \in DOMAIN idle'[q] : idle'[q][i] = idle'[q][j] => i = j
           /\ RoomInv'
<1> USE PoolAssumption
<1>1. idle[p] \in Seq(Conns) /\ idle \in [Processes -> Seq(Conns)]
  BY DEF TypeInv, TypeOK
<1>2. CASE idle[p] # <<>>
  <2>1. c = Head(idle[p]) /\ idle' = [idle EXCEPT ![p] = Tail(idle[p])]
    BY <1>2, OfferedFrom DEF Checkout
  <2>2. /\ c = idle[p][1] /\ 1 \in DOMAIN idle[p]
        /\ Len(idle'[p]) = Len(idle[p]) - 1 /\ Len(idle[p]) \in Nat
        /\ DOMAIN idle'[p] = 1 .. (Len(idle[p]) - 1)
        /\ DOMAIN idle[p] = 1 .. Len(idle[p])
        /\ \A i \in DOMAIN idle'[p] : idle'[p][i] = idle[p][i + 1]
    BY <1>1, <1>2, <2>1
  <2>3. c \in Pooled(p) /\ Pooled(p)' = Pooled(p) \ {c}
    <3>1. c \in Pooled(p)
      BY <2>2 DEF Pooled
    <3>2. \A i \in DOMAIN idle[p] : i # 1 => i - 1 \in DOMAIN idle'[p]
                                             /\ idle'[p][i - 1] = idle[p][i]
      BY <2>2
    <3>3. \A i \in DOMAIN idle'[p] : i + 1 \in DOMAIN idle[p] /\ i + 1 # 1
      BY <2>2
    <3>4. \A i, j \in DOMAIN idle[p] : idle[p][i] = idle[p][j] => i = j
      BY DEF PlaceInv
    <3>5. Pooled(p)' \subseteq Pooled(p) \ {c}
      <4> SUFFICES ASSUME NEW i \in DOMAIN idle'[p] PROVE idle'[p][i] \in Pooled(p) \ {c}
        BY DEF Pooled
      <4>1. idle'[p][i] = idle[p][i + 1] /\ i + 1 \in DOMAIN idle[p] /\ i + 1 # 1
        BY <2>2, <3>3
      <4>2. idle[p][i + 1] # idle[p][1]
        BY <2>2, <3>4, <4>1
      <4> QED
        BY <2>2, <4>1, <4>2 DEF Pooled
    <3>6. Pooled(p) \ {c} \subseteq Pooled(p)'
      <4> SUFFICES ASSUME NEW i \in DOMAIN idle[p], idle[p][i] # c
                   PROVE  idle[p][i] \in Pooled(p)'
        BY DEF Pooled
      <4> QED
        BY <2>2, <3>2 DEF Pooled
    <3> QED
      BY <3>1, <3>5, <3>6
  <2>4. \A q \in Processes \ {p} : idle'[q] = idle[q]
    BY <1>1, <2>1
  <2>5. /\ c \notin InUse(p)
        /\ Open(p)' = Open(p) /\ c \in Open(p)
    BY <2>3 DEF PlaceInv, Open
  <2>6. \A q \in Processes \ {p} : Pooled(q)' = Pooled(q) /\ Open(q)' = Open(q)
    BY <2>4 DEF Pooled, Open
  <2>7. \A q \in Processes : Open(q)' = Open(q)
    BY <2>5, <2>6
  <2>8. \A q \in Processes : Pooled(q)' \cap InUse(q)' = {}
    BY <2>3, <2>6 DEF PlaceInv
  <2>9. \A q \in Processes :
            \A i, j \in DOMAIN idle'[q] : idle'[q][i] = idle'[q][j] => i = j
    <3>1. \A i, j \in DOMAIN idle'[p] : idle'[p][i] = idle'[p][j] => i = j
      <4>1. \A i, j \in DOMAIN idle[p] : idle[p][i] = idle[p][j] => i = j
        BY DEF PlaceInv
      <4> SUFFICES ASSUME NEW i \in DOMAIN idle'[p], NEW j \in DOMAIN idle'[p],
                          idle'[p][i] = idle'[p][j]
                   PROVE  i = j
        OBVIOUS
      <4> DEFINE n == Len(idle[p])
      <4>0. /\ n \in Nat /\ i \in 1 .. (n - 1) /\ j \in 1 .. (n - 1)
            /\ DOMAIN idle[p] = 1 .. n
        BY <2>2
      <4>2. /\ i + 1 \in DOMAIN idle[p] /\ j + 1 \in DOMAIN idle[p]
            /\ i \in Int /\ j \in Int
        <5> HIDE DEF n
        <5> QED BY <4>0
      <4>3. idle[p][i + 1] = idle[p][j + 1]
        BY <2>2
      <4>4. i + 1 = j + 1
        BY <4>1, <4>2, <4>3
      <4> QED
        BY <4>2, <4>4
    <3> QED
      BY <2>4, <3>1 DEF PlaceInv
  <2>10. RoomInv'
    <3>1. /\ IsFiniteSet(InUse(p) \cup {c})
          /\ Cardinality(InUse(p) \cup {c}) = Cardinality(InUse(p)) + 1
      BY <2>5, FS_AddElement DEF RoomInv
    <3>2. Cardinality(InUse(p)) \in Nat
      BY FS_CardinalityType DEF RoomInv
    <3>3. /\ IsFiniteSet(InUse(p)')
          /\ Cardinality(InUse(p)') + Len(idle'[p]) <= PoolSize
      BY <2>2, <3>1, <3>2 DEF RoomInv
    <3>4. \A q \in Processes \ {p} : /\ IsFiniteSet(InUse(q)')
                                    /\ Cardinality(InUse(q)') + Len(idle'[q]) <= PoolSize
      BY <2>4 DEF RoomInv
    <3> QED
      BY <3>3, <3>4 DEF RoomInv
  <2> QED
    BY <2>5, <2>6, <2>7, <2>8, <2>9, <2>10 DEF PlaceInv
<1>3. CASE idle[p] = <<>>
  <2>1. /\ \A q \in Processes : c \notin Open(q)
        /\ idle' = idle
    <3>1. c \in Unopened
      BY <1>3, OfferedFrom
    <3> QED
      BY <1>1, <1>3, <3>1 DEF Unopened, Checkout
  <2>2. c \notin InUse(p)
    BY <2>1 DEF Open
  <2>3. \A q \in Processes : Pooled(q)' = Pooled(q)
    BY <2>1 DEF Pooled
  <2>4. /\ Open(p)' = Open(p) \cup {c}
        /\ \A q \in Processes \ {p} : Open(q)' = Open(q)
    BY <2>3 DEF Open
  <2>5. \A q, r \in Processes : q # r => Open(q)' \cap Open(r)' = {}
    BY <2>1, <2>4 DEF PlaceInv
  <2>6. \A q \in Processes : Pooled(q)' \cap InUse(q)' = {}
    BY <2>1, <2>3 DEF PlaceInv, Open
  <2>7. RoomInv'
    <3>1. IsFiniteSet(InUse(p)')
      BY <2>2, FS_AddElement DEF RoomInv
    <3>2. Open(p)' = InUse(p)' /\ Len(idle'[p]) = 0
      <4>1. Pooled(p) = {} /\ idle'[p] = <<>>
        BY <1>3, <2>1 DEF Pooled
      <4> QED
        BY <2>3, <4>1 DEF Open
    <3>3. Cardinality(InUse(p)') + Len(idle'[p]) <= PoolSize
      <4>1. Cardinality(Open(p)') <= PoolSize
        BY DEF WithinPool
      <4> QED
        BY <3>1, <3>2, <4>1, FS_CardinalityType
    <3>4. \A q \in Processes \ {p} : /\ IsFiniteSet(InUse(q)')
                                    /\ Cardinality(InUse(q)') + Len(idle'[q]) <= PoolSize
      BY <2>1 DEF RoomInv
    <3> QED
      BY <3>1, <3>3, <3>4 DEF RoomInv
  <2> QED
    BY <2>1, <2>2, <2>4, <2>5, <2>6, <2>7 DEF PlaceInv
<1> QED
  BY <1>2, <1>3

(* A connection that goes back always finds room. *)
LEMMA Given ==
    ASSUME TypeInv, PlaceInv, RoomInv,
           NEW p \in Processes, NEW c \in InUse(p), Return(p, c),
           InUse(p)' = InUse(p) \ {c},
           \A q \in Processes \ {p} : InUse(q)' = InUse(q)
    PROVE  /\ Len(idle[p]) < PoolSize
           /\ \A q \in Processes : Open(q)' = Open(q)
           /\ \A q \in Processes :
                /\ Pooled(q)' \cap InUse(q)' = {}
                /\ \A i, j \in DOMAIN idle'[q] : idle'[q][i] = idle'[q][j] => i = j
           /\ RoomInv'
<1> USE PoolAssumption
<1>1. idle[p] \in Seq(Conns) /\ idle \in [Processes -> Seq(Conns)]
  BY DEF TypeInv, TypeOK
<1>2. /\ IsFiniteSet(InUse(p) \ {c})
      /\ Cardinality(InUse(p) \ {c}) = Cardinality(InUse(p)) - 1
      /\ Cardinality(InUse(p)) \in Nat /\ Cardinality(InUse(p) \ {c}) \in Nat
  <2>1. IsFiniteSet(InUse(p))
    BY DEF RoomInv
  <2> QED
    BY <2>1, FS_RemoveElement, FS_CardinalityType
<1>3. Len(idle[p]) < PoolSize
  BY <1>1, <1>2 DEF RoomInv
<1>4. idle' = [idle EXCEPT ![p] = Append(idle[p], c)]
  BY <1>3 DEF Return
<1>5. /\ Len(idle'[p]) = Len(idle[p]) + 1 /\ Len(idle[p]) \in Nat
      /\ DOMAIN idle[p] = 1 .. Len(idle[p])
      /\ DOMAIN idle'[p] = 1 .. (Len(idle[p]) + 1)
      /\ \A i \in DOMAIN idle[p] : idle'[p][i] = idle[p][i]
      /\ idle'[p][Len(idle[p]) + 1] = c
  <2>1. c \in Conns
    BY OpenAreConns DEF Open
  <2> QED
    BY <1>1, <1>4, <2>1
<1>6. Pooled(p)' = Pooled(p) \cup {c}
  <2>1. \A i \in DOMAIN idle'[p] : i \in DOMAIN idle[p] \/ i = Len(idle[p]) + 1
    BY <1>5
  <2>2. DOMAIN idle[p] \subseteq DOMAIN idle'[p] /\ Len(idle[p]) + 1 \in DOMAIN idle'[p]
    BY <1>5
  <2> QED
    BY <1>5, <2>1, <2>2 DEF Pooled
<1>7. \A q \in Processes \ {p} : idle'[q] = idle[q] /\ Pooled(q)' = Pooled(q)
  BY <1>1, <1>4 DEF Pooled
<1>8. \A q \in Processes : Open(q)' = Open(q)
  BY <1>6, <1>7 DEF Open
<1>9. \A q \in Processes : Pooled(q)' \cap InUse(q)' = {}
  BY <1>6, <1>7 DEF PlaceInv
<1>10. \A q \in Processes :
            \A i, j \in DOMAIN idle'[q] : idle'[q][i] = idle'[q][j] => i = j
  <2>1. \A i, j \in DOMAIN idle[p] : idle[p][i] = idle[p][j] => i = j
    BY DEF PlaceInv
  <2>2. \A i \in DOMAIN idle[p] : idle[p][i] # c
    BY DEF PlaceInv, Pooled
  <2>3. \A i, j \in DOMAIN idle'[p] : idle'[p][i] = idle'[p][j] => i = j
    <3>1. \A i \in DOMAIN idle'[p] : i \in DOMAIN idle[p] \/ i = Len(idle[p]) + 1
      BY <1>5
    <3>2. /\ \A i \in DOMAIN idle[p] : idle'[p][i] = idle[p][i] /\ idle'[p][i] # c
          /\ idle'[p][Len(idle[p]) + 1] = c
      BY <1>5, <2>2, Zenon
    <3> QED
      BY <2>1, <3>1, <3>2, Zenon
  <2>4. ASSUME NEW q \in Processes \ {p}
        PROVE  \A i, j \in DOMAIN idle'[q] : idle'[q][i] = idle'[q][j] => i = j
    <3>1. idle'[q] = idle[q]
      BY <1>7
    <3> QED
      BY <3>1, Zenon DEF PlaceInv
  <2> QED
    BY <2>3, <2>4, Zenon
<1>11. RoomInv'
  <2>1. /\ IsFiniteSet(InUse(p)')
        /\ Cardinality(InUse(p)') + Len(idle'[p]) <= PoolSize
    BY <1>2, <1>5 DEF RoomInv
  <2>2. \A q \in Processes \ {p} : /\ IsFiniteSet(InUse(q)')
                                  /\ Cardinality(InUse(q)') + Len(idle'[q]) <= PoolSize
    BY <1>7 DEF RoomInv
  <2> QED
    BY <2>1, <2>2 DEF RoomInv
<1> QED
  BY <1>3, <1>8, <1>9, <1>10, <1>11

-----------------------------------------------------------------------------
LEMMA LockInit == Init => LockInv
<1> SUFFICES ASSUME Init PROVE LockInv
  OBVIOUS
<1>1. TypeInv
  BY TypeInit
<1>2. \A p \in Processes :
        /\ idle[p] = <<>> /\ others[p] = {} /\ worker[p] = Waiting
        /\ lock.owner = None
  BY DEF Init
<1>3. \A p \in Processes : InUse(p) = {} /\ Pooled(p) = {} /\ Open(p) = {}
  BY <1>2 DEF InUse, Pooled, Open, Waiting
<1>4. Len(<<>>) = 0 /\ IsFiniteSet({}) /\ Cardinality({}) = 0
  BY FS_EmptySet
<1>5. PlaceInv
  BY <1>2, <1>3 DEF PlaceInv
<1>6. RoomInv
  <2>1. \A p \in Processes : /\ IsFiniteSet(InUse(p))
                             /\ Cardinality(InUse(p)) = 0 /\ Len(idle[p]) = 0
    BY <1>2, <1>3, <1>4
  <2> QED
    BY <2>1, PoolAssumption DEF RoomInv
<1>7. OwnerInv
  BY <1>2, <1>3 DEF OwnerInv, Waiting, Init
<1>8. WaitInv
  BY <1>2 DEF WaitInv, Waiting
<1> QED
  BY <1>1, <1>5, <1>6, <1>7, <1>8 DEF LockInv

(* What a process uses before and after one of its connections changes hands. *)
LEMMA WorkerTakes ==
    ASSUME TypeInv, NEW p \in Processes, NEW c \in Conns, NEW w,
           worker[p].conn = None, w.conn = c, UNCHANGED others,
           worker' = [worker EXCEPT ![p] = w]
    PROVE  /\ InUse(p)' = InUse(p) \cup {c}
           /\ \A q \in Processes \ {p} : InUse(q)' = InUse(q)
           /\ worker'[p] = w
           /\ \A q \in Processes \ {p} : worker'[q] = worker[q]
<1>1. /\ worker'[p] = w
      /\ \A q \in Processes \ {p} : worker'[q] = worker[q]
  BY DEF TypeInv, TypeOK
<1> QED
  BY <1>1, PoolAssumption DEF InUse

LEMMA WorkerGives ==
    ASSUME TypeInv, PlaceInv, NEW p \in Processes, NEW w,
           worker[p].conn # None, w.conn = None, UNCHANGED others,
           worker' = [worker EXCEPT ![p] = w]
    PROVE  /\ worker[p].conn \in InUse(p)
           /\ InUse(p)' = InUse(p) \ {worker[p].conn}
           /\ \A q \in Processes \ {p} : InUse(q)' = InUse(q)
           /\ worker'[p] = w
           /\ \A q \in Processes \ {p} : worker'[q] = worker[q]
<1>1. /\ worker'[p] = w
      /\ \A q \in Processes \ {p} : worker'[q] = worker[q]
  BY DEF TypeInv, TypeOK
<1>2. worker[p].conn \notin others[p]
  BY DEF PlaceInv
<1> QED
  BY <1>1, <1>2 DEF InUse

(* With room in the pool a lock survives the return of its connection. *)
LEMMA ReturnKeepsLock ==
    ASSUME NEW p, NEW c, NEW l, Len(idle[p]) < PoolSize
    PROVE  Returned(p, c, l) = l
  BY DEF Returned

LEMMA WaitStep == TypeInv /\ WaitInv /\ [Next]_vars => WaitInv'
<1> SUFFICES ASSUME TypeInv, WaitInv, [Next]_vars PROVE WaitInv'
  OBVIOUS
<1>1. ASSUME NEW p \in Processes, NEW w, worker' = [worker EXCEPT ![p] = w],
             w.pc = "wait" => w.conn = None
      PROVE  WaitInv'
  BY <1>1 DEF WaitInv, TypeInv, TypeOK
<1>2. ASSUME NEW p \in Processes, TryBuildLock(p) PROVE WaitInv'
  <2>1. PICK c : worker' \in {[worker EXCEPT ![p] = [pc |-> "pass", conn |-> c]],
                              [worker EXCEPT ![p] = [pc |-> "skip", conn |-> c]]}
    BY <1>2 DEF TryBuildLock
  <2> QED
    BY <2>1, <1>1
<1>3. ASSUME NEW p \in Processes, Commit(p) PROVE WaitInv'
  <2>1. worker' = [worker EXCEPT ![p] = [worker[p] EXCEPT !.conn = None]]
    BY <1>3 DEF Commit
  <2>2. [worker[p] EXCEPT !.conn = None].conn = None
    BY DEF TypeInv, TypeOK
  <2> QED
    BY <2>1, <2>2, <1>1
<1>4. ASSUME NEW p \in Processes, Statement(p) PROVE WaitInv'
  <2>1. PICK c : worker' = [worker EXCEPT ![p] = [worker[p] EXCEPT !.conn = c]]
    BY <1>4 DEF Statement
  <2>2. [worker[p] EXCEPT !.conn = c].pc = "pass"
    BY <1>4 DEF Statement, TypeInv, TypeOK
  <2> QED
    BY <2>1, <2>2, <1>1
<1>5. ASSUME NEW p \in Processes, ReleaseBuildLock(p) \/ GiveUp(p) \/ Crash(p)
      PROVE  WaitInv'
  <2>1. worker' = [worker EXCEPT ![p] = Waiting]
    BY <1>5 DEF ReleaseBuildLock, GiveUp, Crash
  <2> QED
    BY <2>1, <1>1 DEF Waiting
<1>6. ASSUME NEW p \in Processes, Borrow(p) \/ GiveBack(p) PROVE WaitInv'
  BY <1>6 DEF Borrow, GiveBack, WaitInv
<1>7. CASE UNCHANGED vars
  BY <1>7 DEF vars, WaitInv
<1> QED
  BY <1>2, <1>3, <1>4, <1>5, <1>6, <1>7 DEF Next

(* What every step keeps of the places, once it is known what is in use. *)
LEMMA PlaceKept ==
    ASSUME \A q, r \in Processes : q # r => Open(q)' \cap Open(r)' = {},
           \A q \in Processes :
                /\ Pooled(q)' \cap InUse(q)' = {}
                /\ \A i, j \in DOMAIN idle'[q] : idle'[q][i] = idle'[q][j] => i = j,
           \A q \in Processes : worker'[q].conn \notin others'[q]
    PROVE  PlaceInv'
  BY DEF PlaceInv

LEMMA LockStep == WithinPool' /\ LockInv /\ [Next]_vars => LockInv'
<1> SUFFICES ASSUME WithinPool', LockInv, [Next]_vars
             PROVE  PlaceInv' /\ RoomInv' /\ OwnerInv'
  BY TypeStep, WaitStep DEF LockInv
<1> USE DEF LockInv
<1>0. \A q \in Processes : Open(q) \subseteq Conns /\ None \notin Open(q)
  BY OpenAreConns
<1>1. ASSUME NEW p \in Processes, TryBuildLock(p)
      PROVE  PlaceInv' /\ RoomInv' /\ OwnerInv'
  <2>1. PICK c \in Offered(p) :
            /\ Checkout(p)
            /\ IF lock.owner \in {None, c}
               THEN /\ lock' = [owner |-> c, depth |-> lock.depth + 1]
                    /\ worker' = [worker EXCEPT ![p] = [pc |-> "pass", conn |-> c]]
               ELSE /\ worker' = [worker EXCEPT ![p] = [pc |-> "skip", conn |-> c]]
                    /\ UNCHANGED lock
    BY <1>1 DEF TryBuildLock
  <2>2. c \in Conns /\ c # None
    BY OfferedIsConn DEF TypeInv, TypeOK
  <2>3. worker[p].pc = "wait" /\ worker[p].conn = None /\ UNCHANGED others
    BY <1>1 DEF TryBuildLock, WaitInv
  <2>4. PICK w \in {[pc |-> "pass", conn |-> c], [pc |-> "skip", conn |-> c]} :
            worker' = [worker EXCEPT ![p] = w]
    BY <2>1
  <2>5. /\ InUse(p)' = InUse(p) \cup {c}
        /\ \A q \in Processes \ {p} : InUse(q)' = InUse(q)
        /\ worker'[p] = w
        /\ \A q \in Processes \ {p} : worker'[q] = worker[q]
    BY <2>2, <2>3, <2>4, WorkerTakes
  <2>6. /\ c \notin InUse(p)
        /\ c \in Open(p) \/ \A q \in Processes : c \notin Open(q)
        /\ Open(p)' = Open(p) \cup {c}
        /\ \A q \in Processes \ {p} : Open(q)' = Open(q)
        /\ \A q, r \in Processes : q # r => Open(q)' \cap Open(r)' = {}
        /\ \A q \in Processes :
             /\ Pooled(q)' \cap InUse(q)' = {}
             /\ \A i, j \in DOMAIN idle'[q] : idle'[q][i] = idle'[q][j] => i = j
        /\ RoomInv'
    BY <2>1, <2>5, Taken
  <2>7. \A q \in Processes : worker'[q].conn \notin others'[q]
    BY <2>3, <2>5, <2>6 DEF InUse, PlaceInv
  <2>8. OwnerInv'
    <3>1. CASE lock.owner \in {None, c}
      <4>1. lock'.owner = c
        BY <2>1, <3>1
      <4>2. \A q \in Processes \ {p} : worker[q].pc # "pass"
        BY <3>1, <2>6, <1>0 DEF OwnerInv, PlaceInv
      <4> QED
        BY <2>5, <2>6, <4>1, <4>2 DEF OwnerInv
    <3>2. CASE lock.owner \notin {None, c}
      <4>1. lock' = lock /\ worker'[p].pc = "skip"
        <5>1. worker' = [worker EXCEPT ![p] = [pc |-> "skip", conn |-> c]] /\ lock' = lock
          BY <2>1, <3>2
        <5> QED
          BY <5>1 DEF TypeInv, TypeOK
      <4> QED
        BY <2>5, <2>6, <4>1 DEF OwnerInv
    <3> QED
      BY <3>1, <3>2
  <2> QED
    BY <2>6, <2>7, <2>8, PlaceKept
<1>2. ASSUME NEW p \in Processes, Commit(p) \/ ReleaseBuildLock(p) \/ GiveUp(p)
      PROVE  PlaceInv' /\ RoomInv' /\ OwnerInv'
  <2> DEFINE c == worker[p].conn
  <2>1. c # None /\ Return(p, c) /\ UNCHANGED others
    BY <1>2 DEF Commit, ReleaseBuildLock, GiveUp, TypeInv, SkipInv
  <2>2. PICK w : /\ worker' = [worker EXCEPT ![p] = w] /\ w.conn = None
                 /\ w.pc = "pass" => Commit(p)
    <3>1. [worker[p] EXCEPT !.conn = None].conn = None
      BY DEF TypeInv, TypeOK
    <3> QED
      BY <1>2, <3>1 DEF Commit, ReleaseBuildLock, GiveUp, Waiting
  <2>3. /\ c \in InUse(p)
        /\ InUse(p)' = InUse(p) \ {c}
        /\ \A q \in Processes \ {p} : InUse(q)' = InUse(q)
        /\ worker'[p] = w
        /\ \A q \in Processes \ {p} : worker'[q] = worker[q]
    BY <2>1, <2>2, WorkerGives
  <2>4. /\ Len(idle[p]) < PoolSize
        /\ \A q \in Processes : Open(q)' = Open(q)
        /\ \A q \in Processes :
             /\ Pooled(q)' \cap InUse(q)' = {}
             /\ \A i, j \in DOMAIN idle'[q] : idle'[q][i] = idle'[q][j] => i = j
        /\ RoomInv'
    BY <2>1, <2>3, Given
  <2>5. \A q \in Processes : worker'[q].conn \notin others'[q]
    <3>1. None \notin others'[p]
      BY <2>1, PoolAssumption DEF TypeInv, TypeOK
    <3> QED
      BY <2>1, <2>2, <2>3, <3>1 DEF PlaceInv
  <2>6. OwnerInv'
    <3>1. CASE Commit(p) \/ GiveUp(p)
      <4>1. lock' = lock
        BY <2>4, <3>1, ReturnKeepsLock DEF Commit, GiveUp
      <4>2. \A q \in Processes : worker'[q].pc = "pass" => worker[q].pc = "pass"
        BY <2>2, <2>3 DEF Commit
      <4> QED
        BY <2>4, <4>1, <4>2 DEF OwnerInv
    <3>2. CASE ReleaseBuildLock(p)
      <4>1. lock' = Unlocked(c) /\ worker[p].pc = "pass"
        BY <2>4, <3>2, ReturnKeepsLock DEF ReleaseBuildLock
      <4>2. lock'.owner \in {None, lock.owner}
        BY <4>1 DEF Unlocked
      <4>3. \A q \in Processes : worker'[q].pc # "pass"
        <5>1. worker'[p].pc = "wait"
          BY <3>2, <2>3 DEF ReleaseBuildLock, Waiting, TypeInv, TypeOK
        <5>2. \A q \in Processes \ {p} : worker[q].pc # "pass"
          BY <4>1 DEF OwnerInv, PlaceInv
        <5> QED
          BY <2>3, <5>1, <5>2
      <4> QED
        BY <2>4, <4>2, <4>3 DEF OwnerInv
    <3> QED
      BY <1>2, <3>1, <3>2
  <2>7. \A q, r \in Processes : q # r => Open(q)' \cap Open(r)' = {}
    BY <2>4 DEF PlaceInv
  <2> QED
    BY <2>4, <2>5, <2>6, <2>7, PlaceKept
<1>3. ASSUME NEW p \in Processes, Statement(p)
      PROVE  PlaceInv' /\ RoomInv' /\ OwnerInv'
  <2>1. PICK c \in Offered(p) :
            /\ Checkout(p)
            /\ worker' = [worker EXCEPT ![p] = [worker[p] EXCEPT !.conn = c]]
    BY <1>3 DEF Statement
  <2>2. c \in Conns /\ c # None
    BY OfferedIsConn DEF TypeInv, TypeOK
  <2>3. /\ worker[p].pc = "pass" /\ worker[p].conn = None
        /\ UNCHANGED others /\ UNCHANGED lock
    BY <1>3 DEF Statement
  <2>4. PICK w : /\ worker' = [worker EXCEPT ![p] = w]
                 /\ w.conn = c /\ w.pc = "pass"
    <3>1. /\ [worker[p] EXCEPT !.conn = c].conn = c
          /\ [worker[p] EXCEPT !.conn = c].pc = "pass"
      BY <2>3 DEF TypeInv, TypeOK
    <3> QED
      BY <2>1, <3>1, Zenon
  <2>5. /\ InUse(p)' = InUse(p) \cup {c}
        /\ \A q \in Processes \ {p} : InUse(q)' = InUse(q)
        /\ worker'[p] = w
        /\ \A q \in Processes \ {p} : worker'[q] = worker[q]
    <3>1. TypeInv /\ UNCHANGED others /\ worker[p].conn = None
      BY <2>3
    <3>2. w.conn = c /\ worker' = [worker EXCEPT ![p] = w]
      BY <2>4
    <3> QED
      BY <2>2, <3>1, <3>2, WorkerTakes, Zenon
  <2>6. /\ c \notin InUse(p)
        /\ Open(p)' = Open(p) \cup {c}
        /\ \A q \in Processes \ {p} : Open(q)' = Open(q)
        /\ \A q, r \in Processes : q # r => Open(q)' \cap Open(r)' = {}
        /\ \A q \in Processes :
             /\ Pooled(q)' \cap InUse(q)' = {}
             /\ \A i, j \in DOMAIN idle'[q] : idle'[q][i] = idle'[q][j] => i = j
        /\ RoomInv'
    BY <2>1, <2>5, Taken
  <2>7. \A q \in Processes : worker'[q].conn \notin others'[q]
    BY <2>3, <2>4, <2>5, <2>6 DEF InUse, PlaceInv
  <2>8. OwnerInv'
    BY <2>3, <2>4, <2>5, <2>6 DEF OwnerInv
  <2> QED
    BY <2>6, <2>7, <2>8, PlaceKept
<1>4. ASSUME NEW p \in Processes, Borrow(p)
      PROVE  PlaceInv' /\ RoomInv' /\ OwnerInv'
  <2>1. PICK c \in Offered(p) :
            Checkout(p) /\ others' = [others EXCEPT ![p] = @ \cup {c}]
    BY <1>4 DEF Borrow
  <2>2. UNCHANGED <<worker, lock>>
    BY <1>4 DEF Borrow
  <2>3. /\ others'[p] = others[p] \cup {c}
        /\ \A q \in Processes \ {p} : others'[q] = others[q]
    BY <2>1 DEF TypeInv, TypeOK
  <2>4. /\ InUse(p)' = InUse(p) \cup {c}
        /\ \A q \in Processes \ {p} : InUse(q)' = InUse(q)
    BY <2>2, <2>3 DEF InUse
  <2>5. /\ c \notin InUse(p)
        /\ Open(p)' = Open(p) \cup {c}
        /\ \A q \in Processes \ {p} : Open(q)' = Open(q)
        /\ \A q, r \in Processes : q # r => Open(q)' \cap Open(r)' = {}
        /\ \A q \in Processes :
             /\ Pooled(q)' \cap InUse(q)' = {}
             /\ \A i, j \in DOMAIN idle'[q] : idle'[q][i] = idle'[q][j] => i = j
        /\ RoomInv'
    BY <2>1, <2>4, Taken
  <2>6. \A q \in Processes : worker'[q].conn \notin others'[q]
    <3>1. c # None
      BY OfferedIsConn DEF TypeInv, TypeOK
    <3> QED
      BY <2>2, <2>3, <2>5, <3>1 DEF InUse, PlaceInv
  <2>7. OwnerInv'
    BY <2>2, <2>5 DEF OwnerInv
  <2> QED
    BY <2>5, <2>6, <2>7, PlaceKept
<1>5. ASSUME NEW p \in Processes, GiveBack(p)
      PROVE  PlaceInv' /\ RoomInv' /\ OwnerInv'
  <2>1. PICK c \in others[p] :
            /\ Return(p, c)
            /\ lock' = Returned(p, c, lock)
            /\ others' = [others EXCEPT ![p] = @ \ {c}]
    BY <1>5 DEF GiveBack
  <2>2. UNCHANGED worker
    BY <1>5 DEF GiveBack
  <2>3. /\ others'[p] = others[p] \ {c}
        /\ \A q \in Processes \ {p} : others'[q] = others[q]
    BY <2>1 DEF TypeInv, TypeOK
  <2>4. /\ c \in InUse(p)
        /\ InUse(p)' = InUse(p) \ {c}
        /\ \A q \in Processes \ {p} : InUse(q)' = InUse(q)
    <3>1. worker[p].conn # c
      BY DEF PlaceInv
    <3> QED
      BY <2>2, <2>3, <3>1 DEF InUse
  <2>5. /\ Len(idle[p]) < PoolSize
        /\ \A q \in Processes : Open(q)' = Open(q)
        /\ \A q \in Processes :
             /\ Pooled(q)' \cap InUse(q)' = {}
             /\ \A i, j \in DOMAIN idle'[q] : idle'[q][i] = idle'[q][j] => i = j
        /\ RoomInv'
    BY <2>1, <2>4, Given
  <2>6. \A q \in Processes : worker'[q].conn \notin others'[q]
    BY <2>2, <2>3 DEF PlaceInv
  <2>7. \A q, r \in Processes : q # r => Open(q)' \cap Open(r)' = {}
    BY <2>5 DEF PlaceInv
  <2>8. OwnerInv'
    <3>1. lock' = lock
      BY <2>1, <2>5, ReturnKeepsLock
    <3> QED
      BY <2>2, <2>5, <3>1 DEF OwnerInv
  <2> QED
    BY <2>5, <2>6, <2>7, <2>8, PlaceKept
<1>6. ASSUME NEW p \in Processes, Crash(p)
      PROVE  PlaceInv' /\ RoomInv' /\ OwnerInv'
  <2>1. /\ idle'[p] = <<>> /\ others'[p] = {} /\ worker'[p] = Waiting
        /\ \A q \in Processes \ {p} :
             idle'[q] = idle[q] /\ others'[q] = others[q] /\ worker'[q] = worker[q]
    BY <1>6 DEF Crash, TypeInv, TypeOK
  <2>2. /\ InUse(p)' = {} /\ Pooled(p)' = {} /\ Open(p)' = {}
        /\ \A q \in Processes \ {p} :
             InUse(q)' = InUse(q) /\ Pooled(q)' = Pooled(q) /\ Open(q)' = Open(q)
    BY <2>1 DEF InUse, Pooled, Open, Waiting
  <2>3. PlaceInv'
    <3>1. \A q, r \in Processes : q # r => Open(q)' \cap Open(r)' = {}
      BY <2>2 DEF PlaceInv
    <3>2. \A q \in Processes :
             /\ Pooled(q)' \cap InUse(q)' = {}
             /\ \A i, j \in DOMAIN idle'[q] : idle'[q][i] = idle'[q][j] => i = j
      BY <2>1, <2>2 DEF PlaceInv
    <3>3. \A q \in Processes : worker'[q].conn \notin others'[q]
      BY <2>1 DEF PlaceInv
    <3> QED
      BY <3>1, <3>2, <3>3, PlaceKept
  <2>4. RoomInv'
    <3>1. IsFiniteSet({}) /\ Cardinality({}) = 0 /\ Len(<<>>) = 0
      BY FS_EmptySet
    <3>2. IsFiniteSet(InUse(p)') /\ Cardinality(InUse(p)') + Len(idle'[p]) <= PoolSize
      <4>1. Cardinality(InUse(p)') = 0 /\ Len(idle'[p]) = 0 /\ IsFiniteSet(InUse(p)')
        BY <2>1, <2>2, <3>1
      <4> QED
        BY <4>1, PoolAssumption
    <3>3. \A q \in Processes \ {p} : /\ IsFiniteSet(InUse(q)')
                                    /\ Cardinality(InUse(q)') + Len(idle'[q]) <= PoolSize
      BY <2>1, <2>2 DEF RoomInv
    <3> QED
      BY <3>2, <3>3 DEF RoomInv
  <2>5. OwnerInv'
    <3>1. CASE lock.owner \in Open(p)
      <4>1. lock'.owner = None
        BY <1>6, <3>1 DEF Crash
      <4>2. \A q \in Processes \ {p} : worker[q].pc # "pass"
        BY <3>1 DEF OwnerInv, PlaceInv
      <4> QED
        BY <2>1, <4>1, <4>2 DEF OwnerInv, Waiting
    <3>2. CASE lock.owner \notin Open(p)
      <4>1. lock' = lock
        BY <1>6, <3>2 DEF Crash
      <4> QED
        BY <2>1, <2>2, <3>2, <4>1 DEF OwnerInv, Waiting
    <3> QED
      BY <3>1, <3>2
  <2> QED
    BY <2>3, <2>4, <2>5
<1>7. CASE UNCHANGED vars
  <2>1. UNCHANGED <<idle, others, worker, lock>>
    BY <1>7 DEF vars
  <2>2. \A q \in Processes :
            InUse(q)' = InUse(q) /\ Pooled(q)' = Pooled(q) /\ Open(q)' = Open(q)
    BY <2>1 DEF Open, InUse, Pooled
  <2>3. PlaceInv'
    BY <2>1, <2>2 DEF PlaceInv
  <2>4. RoomInv'
    BY <2>1, <2>2 DEF RoomInv
  <2>5. OwnerInv'
    BY <2>1, <2>2 DEF OwnerInv
  <2> QED
    BY <2>3, <2>4, <2>5
<1> QED
  BY <1>1, <1>2, <1>3, <1>4, <1>5, <1>6, <1>7 DEF Next

(* As long as no process has more connections open than its pool keeps, one    *)
(* process at a time is in a pass, whatever the processes borrow, return, or   *)
(* lose in a crash between its commits, and whatever overflow is allowed.      *)
THEOREM OneProcessAtATime == Spec => OneBuilderWithinPool
<1>1. LockInv /\ WithinPool' /\ [Next]_vars => LockInv'
  BY LockStep
<1>2. LockInv => OneProcessBuilds
  BY DEF LockInv, PlaceInv, OwnerInv, OneProcessBuilds
<1> QED
  BY LockInit, <1>1, <1>2, PTL DEF Spec, OneBuilderWithinPool
=============================================================================
