--------------------------- MODULE WorkerPoolProofs ---------------------------
(***************************************************************************)
(* That one pool at a time has workers, that it keeps its size, that the   *)
(* live floor shows exactly its workers and that nothing begins in a pool  *)
(* being drained, for any numbers of workers and pools and any sizes asked *)
(* for.                                                                    *)
(***************************************************************************)
EXTENDS WorkerPool, FiniteSetTheorems, TLAPS

Idle == {"none", "done"}
Awake == {"jitter", "session", "retryWait", "recycle"}

\* Only the last pool has workers at work, and a pool to come has none.
OnlyCurrent ==
    \A p \in Pools :
        /\ p < pools => Live(p) = {}
        /\ p > pools => Spawned(p) = {}

\* A pool gives out its numbers in order.
Numbered == \A p \in Pools, i \in Ids : i \in Spawned(p) <=> i < NextSeq(p)

\* What a handler that awaits with the lock held may rely on, and what it
\* leaves behind.
Handlers ==
    /\ op = "starting" => pools < MaxPools /\ ~(attached /\ stopped)
                          /\ (pools > 0 => Live(pools) = {})
    /\ ~attached /\ pools > 0 => Live(pools) = {}
    /\ attached /\ stopped => op \in {"draining", "cancelling", "down"}
    /\ op \in {"draining", "cancelling", "down"} => attached /\ stopped
    /\ op = "down" => Live(pools) = {}
    /\ \A t \in cancelled : op = "cancelling" /\ t[1] = pools

IInv ==
    /\ TypeOK /\ OnlyCurrent /\ Numbered /\ Handlers
    /\ NeverBelowTarget /\ NoGhosts /\ BusyIsWorking

LEMMA IdsFacts == Ids \subseteq Nat /\ IsFiniteSet(Ids) /\ Cardinality(Ids) \in Nat
  BY PoolAssumption, FS_CardinalityType DEF PoolAssumption

LEMMA Finite ==
  ASSUME NEW p
  PROVE  /\ IsFiniteSet(Live(p)) /\ Cardinality(Live(p)) \in Nat
         /\ IsFiniteSet(Spawned(p)) /\ Cardinality(Spawned(p)) \in Nat
         /\ Cardinality(Live(p)) = 0 <=> Live(p) = {}
<1>1. Live(p) \subseteq Ids /\ Spawned(p) \subseteq Ids
    BY DEF Live, Spawned
<1> QED
    BY <1>1, IdsFacts, FS_Subset, FS_CardinalityType, FS_EmptySet

LEMMA InitIInv == Init => IInv
<1> SUFFICES ASSUME Init PROVE IInv
    OBVIOUS
<1>1. TypeOK
  <2>1. stopped \in BOOLEAN /\ attached \in BOOLEAN
    BY Zenon DEF Init
  <2> QED
    BY <2>1, PoolAssumption DEF PoolAssumption, Init, TypeOK
<1>2. OnlyCurrent
    BY DEF Init, OnlyCurrent, Live, Spawned
<1>3. Numbered
  <2>1. \A p \in Pools : Spawned(p) = {}
    BY DEF Init, Spawned
  <2>2. \A p \in Pools : NextSeq(p) = 0
    BY <2>1, FS_EmptySet DEF NextSeq
  <2> QED
    BY <2>1, <2>2, IdsFacts DEF Numbered
<1> QED
    BY <1>1, <1>2, <1>3 DEF Init, IInv, Handlers, NeverBelowTarget, NoGhosts, BusyIsWorking

------------------------------------------------------------------------------
(* The workers *)

\* A task that is alive is one of the current pool's.
LEMMA AliveIsCurrent ==
  ASSUME IInv, NEW p \in Pools, NEW i \in Ids, task[p][i] \notin Idle
  PROVE  p = pools /\ pools \in Nat
<1>1. i \in Live(p) /\ i \in Spawned(p)
    BY DEF Live, Spawned, Idle
<1> QED
    BY <1>1, PoolAssumption DEF PoolAssumption, IInv, TypeOK, OnlyCurrent, Pools

LEMMA GotoFacts ==
  ASSUME TypeOK, NEW p \in Pools, NEW i \in Ids, NEW s \in Awake \cup {"done"},
         task[p][i] \notin Idle, Goto(p, i, s)
  PROVE  /\ task' \in [Pools -> [Ids -> {"none", "created", "jitter", "session",
                                         "retryWait", "recycle", "done"}]]
         /\ \A q \in Pools, j \in Ids :
               task'[q][j] = IF q = p /\ j = i THEN s ELSE task[q][j]
         /\ \A q \in Pools : Spawned(q)' = Spawned(q)
         /\ \A q \in Pools : q # p => Live(q)' = Live(q)
         /\ Live(p)' = IF s = "done" THEN Live(p) \ {i} ELSE Live(p)
<1>1. /\ task' \in [Pools -> [Ids -> {"none", "created", "jitter", "session",
                                      "retryWait", "recycle", "done"}]]
      /\ \A q \in Pools, j \in Ids : task'[q][j] = IF q = p /\ j = i THEN s ELSE task[q][j]
    BY DEF TypeOK, Goto, Awake
<1>2. \A q \in Pools : Spawned(q)' = Spawned(q)
    BY <1>1 DEF Spawned, Awake, Idle
<1>3. \A q \in Pools : q # p => Live(q)' = Live(q)
    BY <1>1 DEF Live
<1>4. Live(p)' = IF s = "done" THEN Live(p) \ {i} ELSE Live(p)
    BY <1>1 DEF Live, Awake, Idle
<1> QED
    BY <1>1, <1>2, <1>3, <1>4

\* A worker goes from one await to the next, or ends; its seat goes with it.
LEMMA WorkerMoves ==
  ASSUME IInv, NEW p \in Pools, NEW i \in Ids, NEW s \in Awake \cup {"done"},
         task[p][i] \notin Idle, Goto(p, i, s),
         UNCHANGED <<kind, pools, attached, target, stopped, op>>,
         cancelled' \in {cancelled, cancelled \ {<<p, i>>}},
         s = "done" => /\ <<p, i>> \notin cancelled'
                       /\ stopped \/ AboveTarget,
         NEW x \in {"absent", "idle", "busy"}, seat' = [seat EXCEPT ![i] = x],
         x = "absent" <=> s = "done",
         x = "busy" => s = "session" \/ (kind = "seller" /\ s = "retryWait")
  PROVE  IInv'
<1>1. p = pools /\ pools \in Nat /\ pools > 0
    BY AliveIsCurrent DEF Pools
<1>2. /\ task' \in [Pools -> [Ids -> {"none", "created", "jitter", "session",
                                      "retryWait", "recycle", "done"}]]
      /\ \A q \in Pools, j \in Ids :
            task'[q][j] = IF q = p /\ j = i THEN s ELSE task[q][j]
      /\ \A q \in Pools : Spawned(q)' = Spawned(q)
      /\ \A q \in Pools : q # p => Live(q)' = Live(q)
      /\ Live(p)' = IF s = "done" THEN Live(p) \ {i} ELSE Live(p)
    BY GotoFacts DEF IInv
<1>3. TypeOK'
  <2>1. (kind \in {"buyer", "seller"} /\ attached \in BOOLEAN /\ stopped \in BOOLEAN
         /\ op \in {"none", "starting", "draining", "cancelling", "down"})'
    BY Zenon DEF IInv, TypeOK
  <2>2. seat' \in [Ids -> {"absent", "idle", "busy"}]
    BY DEF IInv, TypeOK
  <2>3. cancelled' \subseteq Tasks /\ \A t \in cancelled' : t[2] \in Live(t[1])'
    <3>1. \A t \in cancelled : t \in Tasks /\ t[2] \in Live(t[1])
      BY DEF IInv, TypeOK
    <3> QED
      BY <1>2, <3>1 DEF Tasks
  <2> QED
    BY <1>2, <2>1, <2>2, <2>3 DEF IInv, TypeOK
<1>4. OnlyCurrent'
    BY <1>1, <1>2 DEF IInv, OnlyCurrent, Pools
<1>5. Numbered'
    BY <1>2 DEF IInv, Numbered, NextSeq
<1>6. Handlers'
  <2>1. Live(pools)' \subseteq Live(pools)
    BY <1>1, <1>2
  <2> QED
    BY <1>1, <2>1 DEF IInv, Handlers
<1>7. NeverBelowTarget'
  <2> SUFFICES ASSUME attached, ~stopped PROVE Active' >= target
    BY DEF NeverBelowTarget
  <2>1. Active >= target /\ Active \in Nat /\ target \in Nat
    BY Finite, PoolAssumption DEF PoolAssumption, IInv, TypeOK, NeverBelowTarget, Active
  <2>2. CASE s # "done"
    BY <1>1, <1>2, <2>1, <2>2 DEF Active
  <2>3. CASE s = "done"
    <3>1. Active > target /\ i \in Live(p)
      BY <2>3 DEF AboveTarget, Live, Idle
    <3>2. Live(pools)' = Live(pools) \ {i} /\ i \in Live(pools)
      BY <1>1, <1>2, <2>3, <3>1
    <3>3. Cardinality(Live(pools) \ {i}) = Cardinality(Live(pools)) - 1
      BY <3>2, Finite, FS_RemoveElement
    <3>4. Active' = Active - 1
      BY <3>2, <3>3 DEF Active
    <3> QED
      BY <2>1, <3>1, <3>4
  <2> QED
    BY <2>2, <2>3
<1>8. NoGhosts'
    BY <1>1, <1>2 DEF IInv, TypeOK, NoGhosts, Awake
<1>9. BusyIsWorking'
    BY <1>1, <1>2 DEF IInv, TypeOK, BusyIsWorking
<1> QED
    BY <1>3, <1>4, <1>5, <1>6, <1>7, <1>8, <1>9 DEF IInv

LEMMA AwakeFacts ==
  /\ "jitter" \in Awake \cup {"done"} /\ "session" \in Awake \cup {"done"}
  /\ "retryWait" \in Awake \cup {"done"} /\ "recycle" \in Awake \cup {"done"}
  /\ "session" \notin Idle /\ "created" \notin Idle /\ "jitter" \notin Idle
  /\ "retryWait" \notin Idle /\ "recycle" \notin Idle
  BY DEF Awake, Idle

LEMMA LoopTopOK ==
  ASSUME IInv, NEW p \in Pools, NEW i \in Ids, task[p][i] \notin Idle,
         <<p, i>> \notin cancelled, LoopTop(p, i),
         UNCHANGED <<kind, pools, attached, target, stopped, cancelled, op>>
  PROVE  IInv'
<1>1. CASE ShuttingDown(p) /\ Exit(p, i)
  <2>1. stopped
    BY <1>1, AliveIsCurrent DEF ShuttingDown
  <2> QED
    BY <1>1, <2>1, WorkerMoves DEF Exit, Unregister
<1>2. CASE ~ShuttingDown(p) /\ MarkIdle(i) /\ Goto(p, i, "session")
    BY <1>2, WorkerMoves, AwakeFacts DEF MarkIdle
<1> QED
    BY <1>1, <1>2 DEF LoopTop

LEMMA WorkOK ==
  ASSUME IInv, NEW p \in Pools, NEW i \in Ids, Work(p, i)
  PROVE  IInv'
<1>1. CASE Begin(p, i)
  <2>1. task[p][i] = "created" /\ task[p][i] \notin Idle /\ seat[i] = "absent"
    <3>1. task[p][i] = "created" /\ task[p][i] \notin Idle
      BY <1>1 DEF Begin, Idle
    <3>2. p = pools
      BY <3>1, AliveIsCurrent
    <3> QED
      BY <3>1, <3>2 DEF IInv, NoGhosts
  <2>2. CASE kind = "seller" /\ LoopTop(p, i)
    BY <1>1, <2>1, <2>2, LoopTopOK DEF Begin
  <2>3. CASE kind = "buyer" /\ Goto(p, i, "jitter")
             /\ seat' = [seat EXCEPT ![i] = IF @ = "absent" THEN "idle" ELSE @]
    <3>1. seat' = [seat EXCEPT ![i] = "idle"]
      BY <2>1, <2>3
    <3> QED
      BY <1>1, <2>1, <2>3, <3>1, WorkerMoves, AwakeFacts DEF Begin
  <2> QED
    BY <1>1, <2>2, <2>3 DEF Begin
<1>2. CASE Wake(p, i)
    BY <1>2, LoopTopOK DEF Wake, Idle
<1>3. CASE Report(p, i)
  <2>1. task[p][i] = "session" /\ seat' = [seat EXCEPT ![i] = "busy"]
    BY <1>3 DEF Report
  <2>2. Goto(p, i, "session")
    BY <1>3, <2>1 DEF Report, Goto, IInv, TypeOK
  <2> QED
    BY <1>3, <2>1, <2>2, WorkerMoves DEF Report, Awake, Idle
<1>4. CASE SessionEnds(p, i)
    BY <1>4, WorkerMoves DEF SessionEnds, Exit, Unregister, MarkIdle, Awake, Idle
<1>5. CASE SessionFails(p, i)
  <2>1. task[p][i] = "session" /\ task[p][i] \notin Idle /\ p = pools
    BY <1>5, AliveIsCurrent DEF SessionFails, Idle
  <2>2. CASE kind = "buyer" /\ MarkIdle(i)
    BY <1>5, <2>1, <2>2, WorkerMoves, AwakeFacts DEF SessionFails, MarkIdle
  <2>3. CASE kind = "seller" /\ UNCHANGED seat
    <3>1. seat' = [seat EXCEPT ![i] = seat[i]] /\ seat[i] \in {"absent", "idle", "busy"}
      BY <2>3 DEF IInv, TypeOK
    <3>2. seat[i] # "absent"
      BY <2>1 DEF IInv, NoGhosts, Pools
    <3> QED
      BY <1>5, <2>1, <2>3, <3>1, <3>2, WorkerMoves, AwakeFacts DEF SessionFails
  <2> QED
    BY <1>5, <2>2, <2>3 DEF SessionFails
<1>6. CASE Interrupted(p, i)
  <2>1. task[p][i] \notin Idle
    BY <1>6 DEF Interrupted, IInv, TypeOK, Live, Idle
  <2>2. stopped /\ p = pools
    BY <1>6, <2>1, AliveIsCurrent DEF Interrupted, IInv, Handlers
  <2>3. seat' = [seat EXCEPT ![i] = "absent"]
    <3>1. task[p][i] = "created" => seat[i] = "absent"
      BY <2>2 DEF IInv, NoGhosts
    <3> QED
      BY <1>6, <3>1 DEF Interrupted, Unregister, IInv, TypeOK
  <2> QED
    BY <1>6, <2>1, <2>2, <2>3, WorkerMoves DEF Interrupted
<1> QED
    BY <1>1, <1>2, <1>3, <1>4, <1>5, <1>6 DEF Work

------------------------------------------------------------------------------
(* The handlers *)

\* Spawning adds as many workers as it is asked for, under numbers of their
\* own.
LEMMA SpawnFacts ==
  ASSUME TypeOK, Numbered, NEW p \in Pools, NEW n \in Nat, Spawn(p, n)
  PROVE  /\ task' \in [Pools -> [Ids -> {"none", "created", "jitter", "session",
                                         "retryWait", "recycle", "done"}]]
         /\ \A q \in Pools : q # p => task'[q] = task[q]
         /\ \A i \in Ids : \/ task'[p][i] = task[p][i]
                           \/ task[p][i] = "none" /\ task'[p][i] = "created"
         /\ Numbered'
         /\ Live(p) \subseteq Live(p)'
         /\ Cardinality(Live(p)') = Cardinality(Live(p)) + n
<1>1. PICK k \in Nat, c \in Nat :
          /\ k = NextSeq(p) /\ k + n <= c
          /\ \A j : j \in Ids <=> j \in Nat /\ j < c
  <2>1. Cardinality(Ids) \in Nat /\ NextSeq(p) \in Nat
    BY Finite, IdsFacts DEF NextSeq
  <2>2. \A c \in Nat : c = Cardinality(Ids) => \A j : j \in Ids <=> j \in Nat /\ j < c
    BY PoolAssumption DEF PoolAssumption
  <2> QED
    BY <2>1, <2>2 DEF Spawn
<1> DEFINE K == k .. (k + n - 1)
<1>2. K \subseteq Ids /\ \A i \in K : task[p][i] = "none"
  <2>1. K \subseteq Ids
    BY <1>1
  <2>2. \A i \in K : i \notin Spawned(p)
    BY <1>1, <2>1 DEF Numbered
  <2> QED
    BY <2>1, <2>2 DEF Spawned
<1>3. /\ task' \in [Pools -> [Ids -> {"none", "created", "jitter", "session",
                                      "retryWait", "recycle", "done"}]]
      /\ \A q \in Pools : q # p => task'[q] = task[q]
      /\ \A i \in Ids : task'[p][i] = IF i \in K THEN "created" ELSE task[p][i]
    BY <1>1 DEF TypeOK, Spawn
<1>4. Spawned(p)' = Spawned(p) \cup K /\ Spawned(p) \cap K = {}
    BY <1>2, <1>3 DEF Spawned
<1>5. Live(p)' = Live(p) \cup K /\ Live(p) \cap K = {}
    BY <1>2, <1>3 DEF Live
<1>6. IsFiniteSet(K) /\ Cardinality(K) = n
  <2>1. PICK a \in Int, b \in Int : a = k /\ b = k + n - 1
    OBVIOUS
  <2>2. IsFiniteSet(a .. b) /\ Cardinality(a .. b) = IF a > b THEN 0 ELSE b - a + 1
    BY FS_Interval
  <2>3. K = a .. b /\ (IF a > b THEN 0 ELSE b - a + 1) = n
    BY <2>1
  <2> QED
    BY <2>2, <2>3
<1>7. /\ Cardinality(Spawned(p) \cup K) = k + n
      /\ Cardinality(Live(p) \cup K) = Cardinality(Live(p)) + n
  <2> HIDE DEF K
  <2>1. Cardinality(Spawned(p) \cup K)
            = Cardinality(Spawned(p)) + Cardinality(K) - Cardinality(Spawned(p) \cap K)
    BY <1>6, Finite, FS_Union
  <2>2. Cardinality(Live(p) \cup K)
            = Cardinality(Live(p)) + Cardinality(K) - Cardinality(Live(p) \cap K)
    BY <1>6, Finite, FS_Union
  <2>3. Cardinality(Spawned(p) \cap K) = 0 /\ Cardinality(Live(p) \cap K) = 0
    BY <1>4, <1>5, FS_EmptySet
  <2>4. Cardinality(Spawned(p)) = k /\ Cardinality(Live(p)) \in Nat
    BY <1>1, Finite DEF NextSeq
  <2> QED
    BY <1>6, <2>1, <2>2, <2>3, <2>4
<1>8. Numbered'
  <2> SUFFICES ASSUME NEW q \in Pools, NEW i \in Ids
               PROVE  i \in Spawned(q)' <=> i < Cardinality(Spawned(q)')
    BY DEF Numbered, NextSeq
  <2>1. CASE q = p
    <3>1. Spawned(p)' = Spawned(p) \cup K /\ Cardinality(Spawned(p)') = k + n
      BY <1>4, <1>7
    <3>2. i \in Spawned(p) <=> i < k
      BY <1>1 DEF Numbered
    <3>3. i \in Nat /\ (i \in K <=> k <= i /\ i < k + n)
      BY <1>1
    <3> QED
      BY <1>1, <2>1, <3>1, <3>2, <3>3
  <2>2. CASE q # p
    BY <1>3, <2>2 DEF Numbered, NextSeq, Spawned
  <2> QED
    BY <2>1, <2>2
<1> QED
    BY <1>2, <1>3, <1>5, <1>7, <1>8

LEMMA StartOK ==
  ASSUME IInv, NEW n \in Sizes, StartPool(n)
  PROVE  IInv'
<1>0. PICK p \in Pools : p = pools + 1
    BY PoolAssumption DEF PoolAssumption, StartPool, IInv, TypeOK, Handlers, Pools
<1>1. /\ op = "starting" /\ n \in Nat /\ n > 0
      /\ pools' = p /\ attached' = TRUE /\ stopped' = FALSE /\ target' = n
      /\ Spawn(p, n) /\ op' = "none" /\ UNCHANGED <<kind, cancelled, seat>>
    BY <1>0, PoolAssumption DEF PoolAssumption, StartPool
<1>2. /\ pools \in Nat /\ pools < MaxPools /\ p \in Pools /\ MaxPools \in Nat
      /\ pools > 0 => pools \in Pools /\ Live(pools) = {}
    BY <1>0, <1>1, PoolAssumption DEF PoolAssumption, IInv, TypeOK, Handlers, Pools
<1>3. /\ task' \in [Pools -> [Ids -> {"none", "created", "jitter", "session",
                                      "retryWait", "recycle", "done"}]]
      /\ \A q \in Pools : q # p => task'[q] = task[q]
      /\ \A i \in Ids : \/ task'[p][i] = task[p][i]
                        \/ task[p][i] = "none" /\ task'[p][i] = "created"
      /\ Numbered'
      /\ Cardinality(Live(p)') = Cardinality(Live(p)) + n
    BY <1>1, <1>2, SpawnFacts DEF IInv
<1>4. Spawned(p) = {} /\ Live(p) = {} /\ Cardinality(Live(p)) = 0
  <2>1. Spawned(p) = {}
    BY <1>0, <1>2 DEF IInv, OnlyCurrent
  <2> QED
    BY <2>1, FS_EmptySet DEF Live, Spawned
<1>5. cancelled = {}
    BY <1>1 DEF IInv, Handlers
<1>6. TypeOK'
  <2>1. attached' \in BOOLEAN /\ stopped' \in BOOLEAN
    BY <1>1, Zenon
  <2> QED
    BY <1>0, <1>1, <1>2, <1>3, <1>5, <2>1 DEF IInv, TypeOK, Pools
<1>7. OnlyCurrent'
  <2> SUFFICES ASSUME NEW q \in Pools
               PROVE  (q < p => Live(q)' = {}) /\ (q > p => Spawned(q)' = {})
    BY <1>1 DEF OnlyCurrent
  <2>1. q # p => Live(q)' = Live(q) /\ Spawned(q)' = Spawned(q)
    BY <1>3 DEF Live, Spawned
  <2> QED
    BY <1>0, <1>2, <2>1 DEF IInv, OnlyCurrent, Pools
<1>8. Handlers'
    BY <1>1, <1>5 DEF IInv, Handlers
<1>9. NeverBelowTarget'
    BY <1>1, <1>3, <1>4 DEF NeverBelowTarget, Active
<1>10. \A i \in Ids : seat[i] = "absent"
    BY <1>2 DEF IInv, NoGhosts, Live
<1>11. NoGhosts'
    BY <1>1, <1>2, <1>3, <1>4, <1>10 DEF NoGhosts, Spawned
<1>12. BusyIsWorking'
    BY <1>1, <1>10 DEF BusyIsWorking
<1> QED
    BY <1>3, <1>6, <1>7, <1>8, <1>9, <1>11, <1>12 DEF IInv

LEMMA ScaleOK ==
  ASSUME IInv, NEW n \in Sizes, Scale(n)
  PROVE  IInv'
<1>1. /\ op = "none" /\ attached /\ n \in Nat /\ target' = n
      /\ Spawn(pools, Missing(n))
      /\ UNCHANGED <<kind, pools, attached, stopped, cancelled, seat, op>>
    BY PoolAssumption DEF PoolAssumption, Scale, LockFree
<1>2. pools \in Pools /\ pools > 0 /\ ~stopped /\ cancelled = {}
    BY <1>1, PoolAssumption DEF PoolAssumption, IInv, TypeOK, Handlers, Pools
<1>3. Active \in Nat /\ Missing(n) \in Nat /\ Active + Missing(n) >= n
    BY <1>1, Finite DEF Active, Missing
<1>4. /\ task' \in [Pools -> [Ids -> {"none", "created", "jitter", "session",
                                      "retryWait", "recycle", "done"}]]
      /\ \A q \in Pools : q # pools => task'[q] = task[q]
      /\ \A i \in Ids : \/ task'[pools][i] = task[pools][i]
                        \/ task[pools][i] = "none" /\ task'[pools][i] = "created"
      /\ Numbered'
      /\ Cardinality(Live(pools)') = Cardinality(Live(pools)) + Missing(n)
  <2>1. PICK k \in Nat, p \in Pools : k = Missing(n) /\ p = pools
    BY <1>2, <1>3
  <2>2. Spawn(p, k)
    BY <1>1, <2>1
  <2>3. /\ task' \in [Pools -> [Ids -> {"none", "created", "jitter", "session",
                                        "retryWait", "recycle", "done"}]]
        /\ \A q \in Pools : q # p => task'[q] = task[q]
        /\ \A i \in Ids : \/ task'[p][i] = task[p][i]
                          \/ task[p][i] = "none" /\ task'[p][i] = "created"
        /\ Numbered'
        /\ Cardinality(Live(p)') = Cardinality(Live(p)) + k
    BY <2>2, SpawnFacts DEF IInv
  <2> QED
    BY <1>1, <2>1, <2>3 DEF Live
<1>5. TypeOK'
  <2>1. attached' \in BOOLEAN /\ stopped' \in BOOLEAN
    BY <1>1, Zenon DEF IInv, TypeOK
  <2> QED
    BY <1>1, <1>2, <1>4, <2>1 DEF IInv, TypeOK
<1>6. OnlyCurrent'
  <2> SUFFICES ASSUME NEW q \in Pools
               PROVE  (q < pools => Live(q)' = {}) /\ (q > pools => Spawned(q)' = {})
    BY <1>1 DEF OnlyCurrent
  <2>1. q # pools => Live(q)' = Live(q) /\ Spawned(q)' = Spawned(q)
    BY <1>4 DEF Live, Spawned
  <2> QED
    BY <1>2, <2>1 DEF IInv, OnlyCurrent, Pools
<1>7. Handlers'
    BY <1>1, <1>2 DEF Handlers
<1>8. NeverBelowTarget'
    BY <1>1, <1>3, <1>4 DEF NeverBelowTarget, Active
<1>9. NoGhosts' /\ BusyIsWorking'
    BY <1>1, <1>2, <1>4 DEF IInv, NoGhosts, BusyIsWorking
<1> QED
    BY <1>4, <1>5, <1>6, <1>7, <1>8, <1>9 DEF IInv

\* /start takes the lock: the pool it found stopped or finished has no worker
\* left, and only an attached pool spawns.
LEMMA StartRequestOK ==
  ASSUME IInv, StartRequest
  PROVE  IInv'
<1>1. /\ op = "none" /\ op' = "starting" /\ pools < MaxPools /\ ~Running
      /\ UNCHANGED <<kind, pools, attached, target, stopped, task, cancelled, seat>>
    BY DEF StartRequest, LockFree
<1>2. ~(attached /\ stopped) /\ cancelled = {}
    BY <1>1 DEF IInv, Handlers
<1>3. pools > 0 => Live(pools) = {}
  <2>1. CASE attached
    BY <1>1, <1>2, <2>1, Finite DEF Running, Active
  <2>2. CASE ~attached
    BY <2>2 DEF IInv, Handlers
  <2> QED
    BY <2>1, <2>2
<1>4. TypeOK'
  <2>1. attached' \in BOOLEAN /\ stopped' \in BOOLEAN
    BY <1>1, Zenon DEF IInv, TypeOK
  <2> QED
    BY <1>1, <1>2, <2>1 DEF IInv, TypeOK, Live
<1>5. OnlyCurrent' /\ Numbered'
    BY <1>1 DEF IInv, OnlyCurrent, Numbered, Live, Spawned, NextSeq
<1>6. Handlers'
    BY <1>1, <1>2, <1>3 DEF Handlers, Live
<1>7. NeverBelowTarget' /\ NoGhosts' /\ BusyIsWorking'
    BY <1>1 DEF IInv, NeverBelowTarget, Active, Live, NoGhosts, BusyIsWorking
<1> QED
    BY <1>4, <1>5, <1>6, <1>7 DEF IInv

\* Stopping: from here on the workers are only let go.
LEMMA StopOK ==
  ASSUME IInv, Stop \/ DrainTimeout
  PROVE  IInv'
<1>1. /\ UNCHANGED <<kind, pools, attached, target, task, seat>>
      /\ attached /\ stopped' = TRUE
      /\ op' \in {"draining", "cancelling"}
    BY DEF Stop, DrainTimeout, IInv, Handlers
<1>2. pools \in Pools /\ pools > 0
    BY <1>1, PoolAssumption DEF PoolAssumption, IInv, TypeOK, Pools
<1>3. \/ op = "none" /\ cancelled = {} /\ cancelled' = {}
      \/ op' = "cancelling" /\ cancelled' = {<<pools, i>> : i \in Live(pools)}
  <2>1. CASE Stop
    BY <2>1 DEF Stop, LockFree, IInv, Handlers
  <2>2. CASE DrainTimeout
    BY <2>2 DEF DrainTimeout, Stragglers
  <2> QED
    BY <2>1, <2>2
<1>4. \A t \in cancelled' : t \in Tasks /\ t[1] = pools /\ t[2] \in Live(pools)
                            /\ op' = "cancelling"
    BY <1>2, <1>3 DEF Tasks, Live
<1>5. TypeOK'
  <2>1. attached' \in BOOLEAN /\ stopped' \in BOOLEAN
    BY <1>1, Zenon DEF IInv, TypeOK
  <2>2. cancelled' \subseteq Tasks /\ \A t \in cancelled' : t[2] \in Live(t[1])'
    BY <1>1, <1>4 DEF Live
  <2> QED
    BY <1>1, <2>1, <2>2 DEF IInv, TypeOK
<1>6. OnlyCurrent' /\ Numbered'
    BY <1>1 DEF IInv, OnlyCurrent, Numbered, Live, Spawned, NextSeq
<1>7. Handlers'
    BY <1>1, <1>4 DEF Handlers
<1>8. NeverBelowTarget' /\ NoGhosts' /\ BusyIsWorking'
    BY <1>1 DEF IInv, NeverBelowTarget, NoGhosts, BusyIsWorking
<1> QED
    BY <1>5, <1>6, <1>7, <1>8 DEF IInv

\* The pool is drained: no seat is left to clear but those of a worker that
\* never ran, and those are clear.
LEMMA StoppedOK ==
  ASSUME IInv, Stopped
  PROVE  IInv'
<1>1. /\ UNCHANGED <<kind, pools, target, stopped, task, cancelled>>
      /\ attached /\ stopped /\ Live(pools) = {}
      /\ \/ attached' = FALSE /\ op' = "none"
         \/ op' = "down" /\ UNCHANGED attached
    BY DEF Stopped, Drained, IInv, Handlers
<1>2. pools \in Pools /\ pools > 0
    BY <1>1, PoolAssumption DEF PoolAssumption, IInv, TypeOK, Pools
<1>3. seat' = seat
  <2>1. \A i \in Ids : seat[i] = "absent"
    BY <1>1 DEF IInv, NoGhosts, Live
  <2> QED
    BY <2>1 DEF Stopped, IInv, TypeOK
<1>4. cancelled = {}
  <2>1. \A t \in cancelled : t[1] = pools /\ t[2] \in Live(t[1])
    BY DEF IInv, TypeOK, Handlers
  <2> QED
    BY <1>1, <2>1
<1>5. TypeOK'
  <2>1. attached' \in BOOLEAN /\ stopped' \in BOOLEAN
    BY <1>1, Zenon DEF IInv, TypeOK
  <2> QED
    BY <1>1, <1>2, <1>3, <1>4, <2>1 DEF IInv, TypeOK
<1>6. OnlyCurrent' /\ Numbered'
    BY <1>1 DEF IInv, OnlyCurrent, Numbered, Live, Spawned, NextSeq
<1>7. Handlers'
    BY <1>1, <1>4 DEF Handlers, Live
<1>8. NeverBelowTarget' /\ NoGhosts' /\ BusyIsWorking'
    BY <1>1, <1>3 DEF IInv, NeverBelowTarget, NoGhosts, BusyIsWorking
<1> QED
    BY <1>5, <1>6, <1>7, <1>8 DEF IInv

LEMMA StutterOK ==
  ASSUME IInv, UNCHANGED vars
  PROVE  IInv'
<1>1. UNCHANGED <<kind, pools, attached, target, stopped, task, cancelled, seat, op>>
    BY DEF vars
<1>2. TypeOK'
  <2>1. attached' \in BOOLEAN /\ stopped' \in BOOLEAN
    BY <1>1, Zenon DEF IInv, TypeOK
  <2> QED
    BY <1>1, <2>1 DEF IInv, TypeOK, Live
<1>3. OnlyCurrent' /\ Numbered' /\ Handlers'
    BY <1>1 DEF IInv, OnlyCurrent, Numbered, Handlers, Live, Spawned, NextSeq
<1>4. NeverBelowTarget' /\ NoGhosts' /\ BusyIsWorking'
    BY <1>1 DEF IInv, NeverBelowTarget, Active, Live, NoGhosts, BusyIsWorking
<1> QED
    BY <1>2, <1>3, <1>4 DEF IInv

LEMMA NextOK ==
  ASSUME IInv, [Next]_vars
  PROVE  IInv'
<1>1. CASE \E p \in Pools, i \in Ids : Work(p, i)
    BY <1>1, WorkOK
<1>2. CASE StartRequest
    BY <1>2, StartRequestOK
<1>3. CASE \E n \in Sizes : StartPool(n) \/ Scale(n)
    BY <1>3, StartOK, ScaleOK
<1>4. CASE Stop \/ DrainTimeout
    BY <1>4, StopOK
<1>5. CASE Stopped
    BY <1>5, StoppedOK
<1>6. CASE Down \/ UNCHANGED vars
    BY <1>6, StutterOK DEF Down
<1> QED
    BY <1>1, <1>2, <1>3, <1>4, <1>5, <1>6 DEF Next

------------------------------------------------------------------------------
(* The theorems *)

\* The workers of AgentPool and SellerPool, the handlers that own the pools
\* and the seats of the live tracker fit together after every step.
THEOREM Inductive == Spec => []IInv
<1>1. Init => IInv
    BY InitIInv
<1>2. IInv /\ [Next]_vars => IInv'
    BY NextOK
<1> QED
    BY <1>1, <1>2, PTL DEF Spec

\* Every pool, worker task and seat holds a value of its kind (pool.py:33-56,
\* live_tracker.py:82-100), and only live tasks are cancelled.
THEOREM TypeCorrect == Spec => []TypeOK
<1>1. IInv => TypeOK
    BY DEF IInv
<1> QED
    BY <1>1, Inductive, PTL

\* A running pool never has fewer workers than its target (pool.py:110, the
\* "resize-down" decision, and resize of pool.py), for any sizes asked for.
THEOREM NeverBelowTargetAlways == Spec => []NeverBelowTarget
<1>1. IInv => NeverBelowTarget
    BY DEF IInv
<1> QED
    BY <1>1, Inductive, PTL

\* The live floor shows exactly the workers that have begun and not ended: the
\* finally clause of _worker_loop and the clearing in shutdown() (pool.py)
\* leave no ghost and take no seat of a later pool.
THEOREM NoGhostsEver == Spec => []NoGhosts
<1>1. IInv => NoGhosts
    BY DEF IInv
<1> QED
    BY <1>1, Inductive, PTL

\* Who is shown busy is inside a session: _worker_loop marks its seat idle, or
\* clears it, whenever run_one returns.
THEOREM BusyIsAlwaysWorking == Spec => []BusyIsWorking
<1>1. IInv => BusyIsWorking
    BY DEF IInv
<1> QED
    BY <1>1, Inductive, PTL

\* The seats are those of the workers, and the busy ones are at work.
THEOREM SeatsAreAlwaysTrue == Spec => []SeatsAreTrue
    BY NoGhostsEver, BusyIsAlwaysWorking, PTL DEF SeatsAreTrue

\* The handlers of /start and /stop never leave two pools with workers, nor a
\* worker behind a detached pool (control.py, sellers.py).
THEOREM OnePoolAlwaysLives == Spec => []OnePoolLives
<1>1. IInv => OnePoolLives
    BY DEF IInv, OnlyCurrent, Handlers, OnePoolLives
<1> QED
    BY <1>1, Inductive, PTL

\* A drain only ever takes workers away, and starts no session (pool.py:143-163),
\* whatever the workers wait for and whoever calls the routes meanwhile.
THEOREM DrainAlwaysShrinks == Spec => DrainOnlyShrinks
<1>1. ASSUME IInv, Next, op \in {"draining", "cancelling"}
      PROVE  /\ pools' = pools /\ target' = target
             /\ Live(pools)' \subseteq Live(pools)
             /\ \A i \in Ids : task'[pools][i] = "session" => task[pools][i] = "session"
  <2>1. stopped /\ pools \in Pools
    BY <1>1, PoolAssumption DEF PoolAssumption, IInv, TypeOK, Handlers, Pools
  <2>2. ASSUME NEW p \in Pools, NEW i \in Ids, NEW s \in Awake \cup {"done"},
               task[p][i] \notin Idle, Goto(p, i, s), pools' = pools,
               s = "session" => task[p][i] = "session"
        PROVE  /\ Live(pools)' \subseteq Live(pools)
               /\ \A j \in Ids : task'[pools][j] = "session" => task[pools][j] = "session"
    <3>1. /\ \A j \in Ids :
                task'[pools][j] = IF pools = p /\ j = i THEN s ELSE task[pools][j]
          /\ \A q \in Pools : q # p => Live(q)' = Live(q)
          /\ Live(p)' = IF s = "done" THEN Live(p) \ {i} ELSE Live(p)
      BY <1>1, <2>1, <2>2, GotoFacts DEF IInv
    <3>2. Live(pools)' \subseteq Live(pools)
      BY <2>1, <2>2, <3>1
    <3> QED
      BY <2>2, <3>1, <3>2
  <2>3. ASSUME NEW p \in Pools, NEW i \in Ids, Work(p, i)
        PROVE  /\ pools' = pools /\ target' = target
               /\ Live(pools)' \subseteq Live(pools)
               /\ \A j \in Ids : task'[pools][j] = "session" => task[pools][j] = "session"
    <3>1. pools' = pools /\ target' = target
      BY <2>3 DEF Work, Begin, Wake, Report, SessionEnds, SessionFails, Interrupted
    <3>2. CASE Report(p, i)
      BY <3>1, <3>2 DEF Report, Live
    <3>3. CASE ~Report(p, i)
      <4>1. task[p][i] \notin Idle
        BY <1>1, <2>3 DEF Work, Begin, Wake, Report, SessionEnds, SessionFails,
           Interrupted, Idle, IInv, TypeOK, Live
      <4>2. \E s \in {"jitter", "retryWait", "recycle", "done"} : Goto(p, i, s)
        BY <2>1, <2>3, <3>3 DEF Work, Begin, Wake, SessionEnds, SessionFails,
           Interrupted, LoopTop, ShuttingDown, Exit
      <4> QED
        BY <2>2, <3>1, <4>1, <4>2, AwakeFacts DEF Awake
    <3> QED
      BY <3>1, <3>2, <3>3
  <2>4. CASE DrainTimeout \/ Stopped \/ Down
    BY <2>4 DEF DrainTimeout, Stopped, Down, vars, Live
  <2> QED
    BY <1>1, <2>3, <2>4 DEF Next, StartRequest, StartPool, Scale, Stop, LockFree
<1>2. IInv /\ [Next]_vars
          => [(op \in {"draining", "cancelling"}) =>
                /\ pools' = pools /\ target' = target
                /\ Live(pools)' \subseteq Live(pools)
                /\ \A i \in Ids : task'[pools][i] = "session"
                                     => task[pools][i] = "session"]_vars
    BY <1>1
<1> QED
    BY <1>2, Inductive, PTL DEF Spec, DrainOnlyShrinks
==============================================================================
