--------------------------- MODULE QwenPoolProofs ----------------------------
(***************************************************************************)
(* Safety of QwenPool for every finite set of agents, every number of      *)
(* permits and every bound on the attempts, and that it implements         *)
(* CallSlots.                                                              *)
(*                                                                         *)
(* The inductive invariant is IInv: the types, the shape of the queue, the *)
(* conservation of permits and the counters.  The counters need the queue  *)
(* (a task that leaves it was counted in it), and the types need the       *)
(* permits (_value never exceeds MaxConcurrent).  What a wake-up and the   *)
(* removal of a future do is stated once, in WakeFacts and WithoutFacts;   *)
(* the actions use only those facts.  That nobody overtakes needs one more *)
(* invariant, the order of the woken and the waiting in the queue.         *)
(***************************************************************************)
EXTENDS QwenPool, FiniteSetTheorems, WellFoundedInduction, TLAPS

FutStates == {"none", "pending", "granted", "cancelled"}

GrantedIn(f) == {b \in Agents : f[b] = "granted"}

IInv == TypeOK /\ QueueExact /\ PermitsConserved /\ CountersExact

------------------------------------------------------------------------------
(* Lemmas about the operators of the semaphore *)

\* A non-empty set of indices has a least element.
LEMMA LeastIndex ==
    ASSUME NEW S \in SUBSET Nat, S # {}
    PROVE  \E i \in S : \A j \in S : i <= j
<1> DEFINE R == OpToRel(<, Nat)
<1>1. \A i, j \in Nat : j < i => <<j, i>> \in R
    BY Zenon DEF OpToRel
<1>2. IsWellFoundedOn(R, Nat)
    BY NatLessThanWellFounded
<1> HIDE DEF R
<1>3. PICK i \in S : \A j \in S : ~ (<<j, i>> \in R)
    BY <1>2, WFMin
<1>4. ASSUME NEW j \in S PROVE i <= j
  <2>1. ~ (j < i)
      BY <1>1, <1>3, Zenon
  <2> QED
      BY <2>1
<1> QED
    BY <1>4

\* First is the owner of a pending future of the queue.
LEMMA FirstFacts ==
    ASSUME NEW q \in Seq(Agents), NEW f \in [Agents -> FutStates],
           Pending(q, f) # {}
    PROVE  First(q, f) \in Agents /\ f[First(q, f)] = "pending"
<1>1. Pending(q, f) \in SUBSET Nat
    BY DEF Pending
<1>2. \E i \in Pending(q, f) : \A j \in Pending(q, f) : i <= j
    BY <1>1, LeastIndex
<1>3. \E i \in Pending(q, f) : First(q, f) = q[i]
    BY <1>2 DEF First
<1> QED
    BY <1>3 DEF Pending

\* _wake_up_next moves one permit from the counter to a pending future, or
\* does nothing when there is none; it touches no other future.
LEMMA WakeFacts ==
    ASSUME NEW q \in Seq(Agents), NEW f \in [Agents -> FutStates], NEW v \in Nat,
           v > 0, PoolAssumption
    PROVE  LET g == FutAfterWake(q, f)
               w == ValueAfterWake(v, q, f)
           IN  /\ g \in [Agents -> FutStates]
               /\ w \in Nat /\ w <= v
               /\ w + Cardinality(GrantedIn(g)) = v + Cardinality(GrantedIn(f))
               /\ \A b \in Agents : g[b] = f[b] \/ (f[b] = "pending" /\ g[b] = "granted")
               /\ Pending(q, f) # {} => GrantedIn(g) # {}
<1> DEFINE g == FutAfterWake(q, f)
           w == ValueAfterWake(v, q, f)
<1>1. IsFiniteSet(GrantedIn(f)) /\ Cardinality(GrantedIn(f)) \in Nat
    BY FS_Subset, FS_CardinalityType DEF GrantedIn, PoolAssumption
<1>2. CASE Pending(q, f) = {}
    BY <1>1, <1>2 DEF FutAfterWake, ValueAfterWake
<1>3. CASE Pending(q, f) # {}
  <2> DEFINE p == First(q, f)
  <2>1. p \in Agents /\ f[p] = "pending"
      BY <1>3, FirstFacts
  <2>2. g = [f EXCEPT ![p] = "granted"] /\ w = v - 1
      BY <1>3 DEF FutAfterWake, ValueAfterWake
  <2> HIDE DEF g, w, p
  <2>3. GrantedIn(g) = GrantedIn(f) \cup {p} /\ p \notin GrantedIn(f)
      BY <2>1, <2>2 DEF GrantedIn
  <2>4. Cardinality(GrantedIn(g)) = Cardinality(GrantedIn(f)) + 1
      BY <1>1, <2>3, FS_AddElement
  <2>5. g \in [Agents -> FutStates]
      BY <2>1, <2>2 DEF FutStates
  <2>6. \A b \in Agents : g[b] = f[b] \/ (f[b] = "pending" /\ g[b] = "granted")
      BY <2>1, <2>2
  <2>7. w \in Nat /\ w <= v /\ w + Cardinality(GrantedIn(g)) = v + Cardinality(GrantedIn(f))
      BY <2>2, <2>4, <1>1
  <2>8. GrantedIn(g) # {}
      BY <2>3
  <2> QED
      BY <2>5, <2>6, <2>7, <2>8 DEF g, w
<1> QED
    BY <1>2, <1>3

\* Removing the future of a task that is queued once leaves the others, each
\* once.
LEMMA WithoutFacts ==
    ASSUME NEW q \in Seq(Agents), NEW a \in Agents,
           \E i \in DOMAIN q : q[i] = a,
           \A i, j \in DOMAIN q : q[i] = q[j] => i = j
    PROVE  LET r == Without(q, a)
           IN  /\ r \in Seq(Agents)
               /\ \A i \in DOMAIN r : r[i] # a /\ \E j \in DOMAIN q : q[j] = r[i]
               /\ \A j \in DOMAIN q : q[j] # a => \E i \in DOMAIN r : r[i] = q[j]
               /\ \A i, j \in DOMAIN r : r[i] = r[j] => i = j
<1> DEFINE k == CHOOSE i \in DOMAIN q : q[i] = a
           r == Without(q, a)
           n == Len(q)
           At(i) == IF i < k THEN i ELSE i + 1
<1>1. k \in 1 .. n /\ q[k] = a
    OBVIOUS
<1>2. r = [i \in 1 .. (n - 1) |-> q[At(i)]]
    BY DEF Without
<1>3. n \in Nat /\ n > 0 /\ DOMAIN q = 1 .. n /\ n - 1 \in Nat
    BY <1>1
<1> HIDE DEF k, n, r
<1>4. \A i \in 1 .. (n - 1) : At(i) \in 1 .. n /\ At(i) # k
    BY <1>1, <1>3
<1>5. \A i \in 1 .. (n - 1) : q[At(i)] \in Agents /\ q[At(i)] # a
    BY <1>1, <1>3, <1>4
<1>6. r \in Seq(Agents) /\ DOMAIN r = 1 .. (n - 1)
    BY <1>2, <1>3, <1>5
<1>7. \A i \in DOMAIN r : r[i] # a /\ \E j \in DOMAIN q : q[j] = r[i]
    BY <1>2, <1>3, <1>4, <1>5, <1>6
<1>8. ASSUME NEW j \in DOMAIN q, q[j] # a PROVE \E i \in DOMAIN r : r[i] = q[j]
  <2> DEFINE i == IF j < k THEN j ELSE j - 1
  <2>1. j # k /\ i \in 1 .. (n - 1) /\ At(i) = j
      BY <1>1, <1>3, <1>8
  <2> QED
      BY <2>1, <1>2, <1>6
<1>9. ASSUME NEW i \in DOMAIN r, NEW j \in DOMAIN r, r[i] = r[j] PROVE i = j
  <2>1. q[At(i)] = q[At(j)]
      BY <1>2, <1>6, <1>9
  <2>2. At(i) = At(j)
      BY <2>1, <1>3, <1>4, <1>6
  <2> QED
      BY <2>2, <1>1, <1>6
<1> QED
    BY <1>6, <1>7, <1>8, <1>9 DEF r

------------------------------------------------------------------------------
(* The inductive invariant *)

\* The sets the counters and the permits are counted over are finite.
LEMMA FiniteSets3 ==
    /\ IsFiniteSet(Queued) /\ Cardinality(Queued) \in Nat
    /\ IsFiniteSet(Calling) /\ Cardinality(Calling) \in Nat
    /\ \A f : IsFiniteSet(GrantedIn(f)) /\ Cardinality(GrantedIn(f)) \in Nat
BY PoolAssumption, FS_Subset, FS_CardinalityType DEF PoolAssumption, Queued, Calling, GrantedIn

\* The inductive invariant holds when the pool is created, ...
LEMMA InitIInv == Init => IInv
<1> SUFFICES ASSUME Init PROVE IInv
    OBVIOUS
<1>1. Queued = {} /\ Calling = {} /\ Granted = {}
    BY DEF Init, Queued, Calling, Granted
<1>2. Cardinality(Queued) = 0 /\ Cardinality(Calling) = 0 /\ Cardinality(Granted) = 0
    BY <1>1, FS_EmptySet
<1>3. TypeOK
    BY PoolAssumption DEF PoolAssumption, Init, TypeOK
<1>4. QueueExact
    BY <1>1 DEF Init, QueueExact
<1>5. PermitsConserved /\ CountersExact
    BY <1>2, PoolAssumption DEF PoolAssumption, PermitsConserved, CountersExact, Init
<1> QED
    BY <1>3, <1>4, <1>5 DEF IInv

\* A task that is woken, or was cancelled, is in the queue once: what Without
\* needs and what it gives, in terms of the state.
LEMMA LeaveQueue ==
    ASSUME IInv, NEW a \in Agents, fut[a] # "none"
    PROVE  LET r == Without(waiters, a)
           IN  /\ stage[a] = "queued"
               /\ r \in Seq(Agents)
               /\ \A b \in Queued \ {a} : \E i \in DOMAIN r : r[i] = b
               /\ \A i \in DOMAIN r : r[i] \in Queued \ {a}
               /\ \A i, j \in DOMAIN r : r[i] = r[j] => i = j
<1>1. stage[a] = "queued" /\ a \in Queued
    BY DEF IInv, QueueExact, Queued
<1>2. waiters \in Seq(Agents) /\ \E i \in DOMAIN waiters : waiters[i] = a
    BY <1>1 DEF IInv, TypeOK, QueueExact
<1>3. \A i, j \in DOMAIN waiters : waiters[i] = waiters[j] => i = j
    BY DEF IInv, QueueExact
<1>4. /\ \A b \in Queued : \E i \in DOMAIN waiters : waiters[i] = b
      /\ \A i \in DOMAIN waiters : waiters[i] \in Queued
    BY DEF IInv, QueueExact
<1> DEFINE r == Without(waiters, a)
<1>5. /\ r \in Seq(Agents)
      /\ \A i \in DOMAIN r : r[i] # a /\ \E j \in DOMAIN waiters : waiters[j] = r[i]
      /\ \A j \in DOMAIN waiters : waiters[j] # a => \E i \in DOMAIN r : r[i] = waiters[j]
      /\ \A i, j \in DOMAIN r : r[i] = r[j] => i = j
    BY <1>2, <1>3, WithoutFacts
<1> HIDE DEF r
<1>6. \A b \in Queued \ {a} : \E i \in DOMAIN r : r[i] = b
    BY <1>4, <1>5
<1>7. \A i \in DOMAIN r : r[i] \in Queued \ {a}
    BY <1>4, <1>5
<1> QED
    BY <1>1, <1>5, <1>6, <1>7 DEF r

\* What a change of stage does to the sets and to their sizes: a task takes
\* its place in the queue, ...
LEMMA ToQueued ==
    ASSUME IInv, NEW a \in Agents, stage[a] = "idle",
           stage' = [stage EXCEPT ![a] = "queued"]
    PROVE  /\ stage' \in [Agents -> {"idle", "queued", "calling"}]
           /\ Queued' = Queued \cup {a} /\ Calling' = Calling
           /\ Cardinality(Queued') = Cardinality(Queued) + 1
<1>1. stage' \in [Agents -> {"idle", "queued", "calling"}]
      /\ Queued' = Queued \cup {a} /\ Calling' = Calling /\ a \notin Queued
    BY DEF IInv, TypeOK, Queued, Calling
<1> QED
    BY <1>1, FiniteSets3, FS_AddElement

\* ... gets a slot, ...
LEMMA ToCalling ==
    ASSUME IInv, NEW a \in Agents, stage[a] # "calling",
           stage' = [stage EXCEPT ![a] = "calling"]
    PROVE  /\ stage' \in [Agents -> {"idle", "queued", "calling"}]
           /\ Queued' = Queued \ {a} /\ Calling' = Calling \cup {a}
           /\ Cardinality(Calling') = Cardinality(Calling) + 1
           /\ stage[a] = "idle" => Queued' = Queued
           /\ stage[a] = "queued" => Cardinality(Queued') = Cardinality(Queued) - 1
<1>1. /\ stage' \in [Agents -> {"idle", "queued", "calling"}]
      /\ Queued' = Queued \ {a} /\ Calling' = Calling \cup {a} /\ a \notin Calling
      /\ a \in Queued <=> stage[a] = "queued"
    BY DEF IInv, TypeOK, Queued, Calling
<1>2. Cardinality(Calling') = Cardinality(Calling) + 1
    BY <1>1, FiniteSets3, FS_AddElement
<1>3. a \in Queued => Cardinality(Queued \ {a}) = Cardinality(Queued) - 1
    BY FiniteSets3, FS_RemoveElement
<1> QED
    BY <1>1, <1>2, <1>3

\* ... or leaves the queue or its slot.
LEMMA ToIdle ==
    ASSUME IInv, NEW a \in Agents, stage[a] # "idle",
           stage' = [stage EXCEPT ![a] = "idle"]
    PROVE  /\ stage' \in [Agents -> {"idle", "queued", "calling"}]
           /\ Queued' = Queued \ {a} /\ Calling' = Calling \ {a}
           /\ stage[a] = "queued" =>
                Calling' = Calling /\ Cardinality(Queued') = Cardinality(Queued) - 1
           /\ stage[a] = "calling" =>
                Queued' = Queued /\ Cardinality(Calling') = Cardinality(Calling) - 1
<1>1. /\ stage' \in [Agents -> {"idle", "queued", "calling"}]
      /\ Queued' = Queued \ {a} /\ Calling' = Calling \ {a}
      /\ a \in Queued <=> stage[a] = "queued"
      /\ a \in Calling <=> stage[a] = "calling"
    BY DEF IInv, TypeOK, Queued, Calling
<1>2. a \in Queued => Cardinality(Queued \ {a}) = Cardinality(Queued) - 1
    BY FiniteSets3, FS_RemoveElement
<1>3. a \in Calling => Cardinality(Calling \ {a}) = Cardinality(Calling) - 1
    BY FiniteSets3, FS_RemoveElement
<1> QED
    BY <1>1, <1>2, <1>3

\* Once the permits add up and the counters are exact after a step, the ranges
\* of value, waiting and inFlight follow.
LEMMA RangesFollow ==
    ASSUME PermitsConserved', CountersExact', value' \in Nat
    PROVE  value' \in 0 .. MaxConcurrent /\ waiting' \in Nat /\ inFlight' \in Nat
<1>1. Granted' = GrantedIn(fut)'
    BY DEF Granted, GrantedIn
<1>2. Cardinality(Granted)' \in Nat
    BY <1>1, FS_Subset, FS_CardinalityType, PoolAssumption DEF PoolAssumption, Granted
<1>3. Cardinality(Queued)' \in Nat /\ Cardinality(Calling)' \in Nat
    BY FS_Subset, FS_CardinalityType, PoolAssumption DEF PoolAssumption, Queued, Calling
<1> QED
    BY <1>2, <1>3, PoolAssumption DEF PoolAssumption, PermitsConserved, CountersExact

\* ... and each action preserves it: a permit taken at once, ...
LEMMA AcquireFreeIInv ==
    ASSUME IInv, NEW a \in Agents, AcquireFree(a)
    PROVE  IInv'
<1> USE DEF AcquireFree
<1>1. fut[a] = "none" /\ value \in Nat /\ value > 0
    BY DEF IInv, QueueExact, TypeOK, Locked
<1>2. Queued' = Queued /\ Cardinality(Calling') = Cardinality(Calling) + 1
    BY ToCalling
<1>3. CountersExact'
    BY <1>2 DEF IInv, CountersExact
<1>4. PermitsConserved'
  <2>1. Granted' = Granted
      BY DEF Granted
  <2>2. Cardinality(Granted) \in Nat /\ Cardinality(Calling) \in Nat
      BY FiniteSets3 DEF Granted, GrantedIn
  <2> QED
      BY <1>1, <1>2, <2>1, <2>2, PoolAssumption DEF PoolAssumption, IInv, PermitsConserved
<1>5. QueueExact'
  <2>1. Queued' = Queued /\ Granted' = Granted
      BY <1>2 DEF Granted
  <2> QED
      BY <1>1, <2>1 DEF IInv, TypeOK, QueueExact
<1>6. TypeOK'
  <2>1. value' \in Nat
      BY <1>1
  <2>2. value' \in 0 .. MaxConcurrent /\ waiting' \in Nat /\ inFlight' \in Nat
      BY <1>3, <1>4, <2>1, RangesFollow
  <2> QED
      BY <2>2, ToCalling, PoolAssumption DEF PoolAssumption, IInv, TypeOK
<1> QED
    BY <1>3, <1>4, <1>5, <1>6 DEF IInv

\* ... a place taken in the queue, ...
LEMMA AcquireQueuedIInv ==
    ASSUME IInv, NEW a \in Agents, AcquireQueued(a)
    PROVE  IInv'
<1> USE DEF AcquireQueued
<1>1. fut[a] = "none" /\ a \notin Queued
    BY DEF IInv, QueueExact, Queued
<1>2. Calling' = Calling /\ Cardinality(Queued') = Cardinality(Queued) + 1
    BY ToQueued
<1>3. CountersExact'
    BY <1>2 DEF IInv, CountersExact
<1>4. Granted' = Granted
    BY <1>1 DEF IInv, TypeOK, Granted
<1>5. PermitsConserved'
    BY <1>2, <1>4 DEF IInv, PermitsConserved
<1>6. QueueExact'
  <2>1. Queued' = Queued \cup {a}
      BY ToQueued
  <2>2. /\ waiters \in Seq(Agents) /\ waiters' = Append(waiters, a)
        /\ Len(waiters) \in Nat /\ DOMAIN waiters = 1 .. Len(waiters)
        /\ DOMAIN waiters' = 1 .. (Len(waiters) + 1)
        /\ waiters'[Len(waiters) + 1] = a
        /\ \A i \in DOMAIN waiters : waiters'[i] = waiters[i]
      BY DEF IInv, TypeOK
  <2>3. \A b \in Queued' : \E i \in DOMAIN waiters' : waiters'[i] = b
      BY <2>1, <2>2 DEF IInv, QueueExact
  <2>4. \A i \in DOMAIN waiters' : waiters'[i] \in Queued'
      BY <2>1, <2>2 DEF IInv, QueueExact
  <2>5. \A i, j \in DOMAIN waiters' : waiters'[i] = waiters'[j] => i = j
      BY <1>1, <2>2 DEF IInv, QueueExact
  <2>6. \A b \in Agents : stage'[b] = "queued" <=> fut'[b] # "none"
      BY DEF IInv, TypeOK, QueueExact
  <2>7. (throw \subseteq Granted)'
      BY <1>4 DEF IInv, QueueExact
  <2> QED
      BY <2>3, <2>4, <2>5, <2>6, <2>7 DEF QueueExact
<1>7. TypeOK'
  <2>1. value' \in Nat
      BY PoolAssumption DEF PoolAssumption, IInv, TypeOK
  <2>2. value' \in 0 .. MaxConcurrent /\ waiting' \in Nat /\ inFlight' \in Nat
      BY <1>3, <1>5, <2>1, RangesFollow
  <2>3. waiters' \in Seq(Agents) /\ fut' \in [Agents -> FutStates]
      BY DEF IInv, TypeOK, FutStates
  <2> QED
      BY <2>2, <2>3, ToQueued DEF IInv, TypeOK, FutStates
<1> QED
    BY <1>3, <1>5, <1>6, <1>7 DEF IInv

\* ... a cancellation of a queued task, ...
LEMMA CancelIInv ==
    ASSUME IInv, NEW a \in Agents, Cancel(a)
    PROVE  IInv'
<1> USE DEF Cancel
<1>1. Queued' = Queued /\ Calling' = Calling
    BY DEF Queued, Calling
<1>2. Granted' = Granted
    BY DEF IInv, TypeOK, Granted
<1>3. CountersExact' /\ PermitsConserved'
    BY <1>1, <1>2 DEF IInv, CountersExact, PermitsConserved
<1>4. \A b \in Agents : stage'[b] = "queued" <=> fut'[b] # "none"
    BY DEF IInv, TypeOK, QueueExact
<1>5. (throw \subseteq Granted)'
    BY <1>2 DEF IInv, QueueExact, Granted
<1>6. QueueExact'
    BY <1>1, <1>4, <1>5 DEF IInv, QueueExact
<1>7. TypeOK'
    BY DEF IInv, TypeOK
<1> QED
    BY <1>3, <1>6, <1>7 DEF IInv

\* What the queue looks like once task a has left it and the next pending
\* future, if any, was woken.
LEMMA QueueAfterLeave ==
    ASSUME IInv, NEW a \in Agents, fut[a] # "none",
           waiters' = Without(waiters, a),
           Queued' = Queued \ {a},
           stage'[a] # "queued",
           \A b \in Agents \ {a} : stage'[b] = stage[b],
           fut' \in [Agents -> FutStates],
           fut'[a] = "none",
           \A b \in Agents \ {a} :
               fut'[b] = fut[b] \/ (fut[b] = "pending" /\ fut'[b] = "granted"),
           throw' = throw \ {a}
    PROVE  QueueExact' /\ waiters' \in Seq(Agents)
<1>1. /\ waiters' \in Seq(Agents)
      /\ \A b \in Queued' : \E i \in DOMAIN waiters' : waiters'[i] = b
      /\ \A i \in DOMAIN waiters' : waiters'[i] \in Queued'
      /\ \A i, j \in DOMAIN waiters' : waiters'[i] = waiters'[j] => i = j
    BY LeaveQueue
<1>2. \A b \in Agents : stage'[b] = "queued" <=> fut'[b] # "none"
    BY DEF IInv, QueueExact
<1>3. throw' \subseteq Granted'
    BY DEF IInv, QueueExact, Granted
<1> QED
    BY <1>1, <1>2, <1>3 DEF QueueExact

\* A woken task moves from _waiting to _in_flight and passes the baton on.
LEMMA EnterIInv ==
    ASSUME IInv, NEW a \in Agents, Enter(a)
    PROVE  IInv'
<1> DEFINE q == Without(waiters, a)
           f == [fut EXCEPT ![a] = "none"]
<1>1. /\ fut[a] = "granted" /\ a \notin throw
      /\ waiters' = q
      /\ fut' = IF Baton THEN FutAfterWake(q, f) ELSE f
      /\ value' = IF Baton THEN ValueAfterWake(value, q, f) ELSE value
      /\ stage' = [stage EXCEPT ![a] = "calling"]
      /\ attempt' = [attempt EXCEPT ![a] = 1]
      /\ waiting' = waiting - 1
      /\ inFlight' = inFlight + 1
      /\ throw' = throw
    BY DEF Enter
<1>2. stage[a] = "queued" /\ q \in Seq(Agents)
    BY <1>1, LeaveQueue
<1>3. f \in [Agents -> FutStates] /\ f[a] = "none"
      /\ \A b \in Agents \ {a} : f[b] = fut[b]
    BY DEF IInv, TypeOK, FutStates
<1> HIDE DEF q, f
<1>4. Cardinality(GrantedIn(f)) = Cardinality(Granted) - 1
  <2>1. GrantedIn(f) = Granted \ {a} /\ a \in Granted
      BY <1>1, <1>3 DEF Granted, GrantedIn
  <2>2. IsFiniteSet(Granted)
      BY FiniteSets3 DEF Granted, GrantedIn
  <2> QED
      BY <2>1, <2>2, FS_RemoveElement
<1>5. /\ fut' \in [Agents -> FutStates]
      /\ value' \in Nat
      /\ value' + Cardinality(GrantedIn(fut')) = value + Cardinality(GrantedIn(f))
      /\ \A b \in Agents : fut'[b] = f[b] \/ (f[b] = "pending" /\ fut'[b] = "granted")
  <2>1. value \in Nat
      BY DEF IInv, TypeOK
  <2>2. CASE Baton
      BY <1>1, <1>2, <1>3, <2>1, <2>2, WakeFacts, PoolAssumption DEF Baton
  <2>3. CASE ~Baton
      BY <1>1, <1>3, <2>1, <2>3
  <2> QED
      BY <2>2, <2>3
<1>6. /\ stage' \in [Agents -> {"idle", "queued", "calling"}]
      /\ Queued' = Queued \ {a}
      /\ Cardinality(Calling') = Cardinality(Calling) + 1
      /\ Cardinality(Queued') = Cardinality(Queued) - 1
    BY <1>1, <1>2, ToCalling
<1>7. CountersExact'
    BY <1>1, <1>6 DEF IInv, CountersExact
<1>8. PermitsConserved'
  <2>1. Granted' = GrantedIn(fut') /\ Granted = GrantedIn(fut)
      BY DEF Granted, GrantedIn
  <2>2. Cardinality(Granted) \in Nat /\ Cardinality(Calling) \in Nat
        /\ Cardinality(GrantedIn(fut')) \in Nat /\ value \in Nat
      BY <2>1, FiniteSets3 DEF IInv, TypeOK
  <2> QED
      BY <1>4, <1>5, <1>6, <2>1, <2>2, PoolAssumption
      DEF PoolAssumption, IInv, PermitsConserved
<1>9. QueueExact' /\ waiters' \in Seq(Agents)
  <2>1. stage'[a] # "queued" /\ \A b \in Agents \ {a} : stage'[b] = stage[b]
      BY <1>1 DEF IInv, TypeOK
  <2>2. throw' = throw \ {a}
      BY <1>1
  <2>3. fut'[a] = "none" /\ \A b \in Agents \ {a} :
            fut'[b] = fut[b] \/ (fut[b] = "pending" /\ fut'[b] = "granted")
      BY <1>3, <1>5
  <2> QED
      BY <1>1, <1>5, <1>6, <2>1, <2>2, <2>3, QueueAfterLeave DEF q
<1>10. TypeOK'
  <2>1. value' \in 0 .. MaxConcurrent /\ waiting' \in Nat /\ inFlight' \in Nat
      BY <1>5, <1>7, <1>8, RangesFollow
  <2> QED
      BY <1>1, <1>5, <1>6, <1>9, <2>1, PoolAssumption
      DEF PoolAssumption, IInv, TypeOK, FutStates
<1> QED
    BY <1>7, <1>8, <1>9, <1>10 DEF IInv

\* The except clause takes a task that was counted as waiting off the count.
LEMMA WaitingAfterGiveUp ==
    ASSUME IInv, NEW a \in Agents, stage[a] = "queued"
    PROVE  WaitingAfterError(FALSE) = waiting - 1
<1>1. a \in Queued
    BY DEF Queued
<1>2. Cardinality(Queued) > 0
    BY <1>1, FiniteSets3, FS_EmptySet
<1> QED
    BY <1>2, FiniteSets3 DEF IInv, CountersExact, WaitingAfterError

\* A task cancelled before it was woken leaves the queue and the count.
LEMMA GiveUpPendingIInv ==
    ASSUME IInv, NEW a \in Agents, GiveUpPending(a)
    PROVE  IInv'
<1> USE DEF GiveUpPending
<1>1. stage[a] = "queued"
    BY LeaveQueue
<1>2. /\ stage' \in [Agents -> {"idle", "queued", "calling"}]
      /\ Queued' = Queued \ {a} /\ Calling' = Calling
      /\ Cardinality(Queued') = Cardinality(Queued) - 1
    BY <1>1, ToIdle
<1>3. CountersExact'
    BY <1>1, <1>2, WaitingAfterGiveUp DEF IInv, CountersExact
<1>4. Granted' = Granted /\ a \notin Granted
    BY DEF IInv, TypeOK, Granted
<1>5. PermitsConserved'
    BY <1>2, <1>4 DEF IInv, PermitsConserved
<1>6. QueueExact' /\ waiters' \in Seq(Agents)
  <2>1. stage'[a] # "queued" /\ \A b \in Agents \ {a} : stage'[b] = stage[b]
      BY DEF IInv, TypeOK
  <2>2. throw' = throw \ {a}
      BY <1>4 DEF IInv, QueueExact
  <2>3. /\ fut' \in [Agents -> FutStates]
        /\ fut'[a] = "none" /\ \A b \in Agents \ {a} : fut'[b] = fut[b]
      BY DEF IInv, TypeOK, FutStates
  <2> QED
      BY <1>2, <2>1, <2>2, <2>3, QueueAfterLeave
<1>7. TypeOK'
  <2>1. value' \in Nat
      BY PoolAssumption DEF PoolAssumption, IInv, TypeOK
  <2>2. value' \in 0 .. MaxConcurrent /\ waiting' \in Nat /\ inFlight' \in Nat
      BY <1>3, <1>5, <2>1, RangesFollow
  <2> QED
      BY <1>2, <1>6, <2>2 DEF IInv, TypeOK
<1> QED
    BY <1>3, <1>5, <1>6, <1>7 DEF IInv

\* A task cancelled after it was woken hands its permit back.
LEMMA GiveUpGrantedIInv ==
    ASSUME IInv, NEW a \in Agents, GiveUpGranted(a)
    PROVE  IInv'
<1> DEFINE q == Without(waiters, a)
           f == [fut EXCEPT ![a] = "none"]
<1>1. /\ fut[a] = "granted"
      /\ waiters' = q
      /\ fut' = FutAfterWake(q, f)
      /\ value' = ValueAfterWake(value + 1, q, f)
      /\ throw' = throw \ {a}
      /\ waiting' = WaitingAfterError(FALSE)
      /\ stage' = [stage EXCEPT ![a] = "idle"]
      /\ UNCHANGED <<inFlight, attempt>>
    BY DEF GiveUpGranted
<1>2. stage[a] = "queued" /\ q \in Seq(Agents)
    BY <1>1, LeaveQueue
<1>3. f \in [Agents -> FutStates] /\ f[a] = "none"
      /\ \A b \in Agents \ {a} : f[b] = fut[b]
    BY DEF IInv, TypeOK, FutStates
<1> HIDE DEF q, f
<1>4. Cardinality(GrantedIn(f)) = Cardinality(Granted) - 1
  <2>1. GrantedIn(f) = Granted \ {a} /\ a \in Granted
      BY <1>1, <1>3 DEF Granted, GrantedIn
  <2>2. IsFiniteSet(Granted)
      BY FiniteSets3 DEF Granted, GrantedIn
  <2> QED
      BY <2>1, <2>2, FS_RemoveElement
<1>5. /\ fut' \in [Agents -> FutStates]
      /\ value' \in Nat
      /\ value' + Cardinality(GrantedIn(fut')) = value + 1 + Cardinality(GrantedIn(f))
      /\ \A b \in Agents : fut'[b] = f[b] \/ (f[b] = "pending" /\ fut'[b] = "granted")
  <2>1. value + 1 \in Nat /\ value + 1 > 0
      BY DEF IInv, TypeOK
  <2> QED
      BY <1>1, <1>2, <1>3, <2>1, WakeFacts, PoolAssumption
<1>6. /\ stage' \in [Agents -> {"idle", "queued", "calling"}]
      /\ Queued' = Queued \ {a} /\ Calling' = Calling
      /\ Cardinality(Queued') = Cardinality(Queued) - 1
    BY <1>1, <1>2, ToIdle
<1>7. CountersExact'
    BY <1>1, <1>2, <1>6, WaitingAfterGiveUp DEF IInv, CountersExact
<1>8. PermitsConserved'
  <2>1. Granted' = GrantedIn(fut') /\ Granted = GrantedIn(fut)
      BY DEF Granted, GrantedIn
  <2>2. Cardinality(Granted) \in Nat /\ Cardinality(Calling) \in Nat
        /\ Cardinality(GrantedIn(fut')) \in Nat /\ value \in Nat
      BY <2>1, FiniteSets3 DEF IInv, TypeOK
  <2> QED
      BY <1>4, <1>5, <1>6, <2>1, <2>2, PoolAssumption
      DEF PoolAssumption, IInv, PermitsConserved
<1>9. QueueExact' /\ waiters' \in Seq(Agents)
  <2>1. stage'[a] # "queued" /\ \A b \in Agents \ {a} : stage'[b] = stage[b]
      BY <1>1 DEF IInv, TypeOK
  <2>2. fut'[a] = "none" /\ \A b \in Agents \ {a} :
            fut'[b] = fut[b] \/ (fut[b] = "pending" /\ fut'[b] = "granted")
      BY <1>3, <1>5
  <2> QED
      BY <1>1, <1>5, <1>6, <2>1, <2>2, QueueAfterLeave DEF q
<1>10. TypeOK'
  <2>1. value' \in 0 .. MaxConcurrent /\ waiting' \in Nat /\ inFlight' \in Nat
      BY <1>5, <1>7, <1>8, RangesFollow
  <2> QED
      BY <1>1, <1>5, <1>6, <1>9, <2>1 DEF IInv, TypeOK, FutStates
<1> QED
    BY <1>7, <1>8, <1>9, <1>10 DEF IInv

\* A retry changes only the attempt.
LEMMA RetryIInv ==
    ASSUME IInv, NEW a \in Agents, Retry(a)
    PROVE  IInv'
<1>1. Queued' = Queued /\ Calling' = Calling /\ Granted' = Granted
    BY DEF Retry, Queued, Calling, Granted
<1>2. attempt' \in [Agents -> 0 .. MaxAttempts]
    BY PoolAssumption DEF PoolAssumption, Retry, CanRetry, IInv, TypeOK
<1>3. TypeOK'
    BY <1>2 DEF Retry, IInv, TypeOK
<1>4. QueueExact' /\ PermitsConserved' /\ CountersExact'
    BY <1>1 DEF Retry, IInv, QueueExact, PermitsConserved, CountersExact
<1> QED
    BY <1>3, <1>4 DEF IInv

\* The end of a call frees its permit for the next in the queue.
LEMMA FinishIInv ==
    ASSUME IInv, NEW a \in Agents, Finish(a)
    PROVE  IInv'
<1>1. /\ stage[a] = "calling" /\ stage' = [stage EXCEPT ![a] = "idle"]
      /\ attempt' = [attempt EXCEPT ![a] = 0]
      /\ inFlight' = inFlight - 1 /\ waiting' = waiting
      /\ value' = ValueAfterWake(value + 1, waiters, fut)
      /\ fut' = FutAfterWake(waiters, fut)
      /\ throw' = throw /\ waiters' = waiters
    BY DEF Finish, WaitingAfterError
<1>2. /\ stage' \in [Agents -> {"idle", "queued", "calling"}]
      /\ Queued' = Queued
      /\ Cardinality(Calling') = Cardinality(Calling) - 1
    BY <1>1, ToIdle
<1>3. /\ fut' \in [Agents -> FutStates]
      /\ value' \in Nat
      /\ value' + Cardinality(GrantedIn(fut')) = value + 1 + Cardinality(GrantedIn(fut))
      /\ \A b \in Agents : fut'[b] = fut[b] \/ (fut[b] = "pending" /\ fut'[b] = "granted")
  <2>1. value + 1 \in Nat /\ value + 1 > 0
        /\ waiters \in Seq(Agents) /\ fut \in [Agents -> FutStates]
      BY DEF IInv, TypeOK, FutStates
  <2> QED
      BY <1>1, <2>1, WakeFacts, PoolAssumption
<1>4. CountersExact'
    BY <1>1, <1>2 DEF IInv, CountersExact
<1>5. PermitsConserved'
  <2>1. Granted' = GrantedIn(fut') /\ Granted = GrantedIn(fut)
      BY DEF Granted, GrantedIn
  <2>2. Cardinality(GrantedIn(fut)) \in Nat /\ Cardinality(Calling) \in Nat
        /\ Cardinality(GrantedIn(fut')) \in Nat /\ value \in Nat
      BY FiniteSets3 DEF IInv, TypeOK
  <2> QED
      BY <1>2, <1>3, <2>1, <2>2, PoolAssumption
      DEF PoolAssumption, IInv, PermitsConserved
<1>6. QueueExact'
  <2>1. \A b \in Agents : stage'[b] = "queued" <=> fut'[b] # "none"
      BY <1>1, <1>3 DEF IInv, TypeOK, QueueExact
  <2>2. throw' \subseteq Granted'
      BY <1>1, <1>3 DEF IInv, QueueExact, Granted
  <2> QED
      BY <1>1, <1>2, <2>1, <2>2 DEF IInv, QueueExact
<1>7. TypeOK'
  <2>1. value' \in 0 .. MaxConcurrent /\ waiting' \in Nat /\ inFlight' \in Nat
      BY <1>3, <1>4, <1>5, RangesFollow
  <2> QED
      BY <1>1, <1>2, <1>3, <2>1, PoolAssumption
      DEF PoolAssumption, IInv, TypeOK, FutStates
<1> QED
    BY <1>4, <1>5, <1>6, <1>7 DEF IInv

\* So every step preserves it.
LEMMA NextIInv == IInv /\ [Next]_vars => IInv'
<1> SUFFICES ASSUME IInv, [Next]_vars PROVE IInv'
    OBVIOUS
<1>1. CASE UNCHANGED vars
    BY <1>1 DEF vars, IInv, TypeOK, QueueExact, PermitsConserved, CountersExact,
       Queued, Calling, Granted
<1>2. ASSUME NEW a \in Agents,
             \/ AcquireFree(a) \/ AcquireQueued(a) \/ Cancel(a)
             \/ Resume(a) \/ Retry(a) \/ Finish(a)
      PROVE  IInv'
    BY <1>2, AcquireFreeIInv, AcquireQueuedIInv, CancelIInv, EnterIInv,
       GiveUpPendingIInv, GiveUpGrantedIInv, RetryIInv, FinishIInv DEF Resume
<1> QED
    BY <1>1, <1>2 DEF Next

\* Every reachable state satisfies the inductive invariant.
THEOREM Inductive == Spec => []IInv
BY InitIInv, NextIInv, PTL DEF Spec

\* Every variable keeps its type: in particular _value stays between 0 and the
\* number of permits, and _waiting and _in_flight never go below 0.
THEOREM TypeCorrect == Spec => []TypeOK
<1>1. IInv => TypeOK
    BY DEF IInv
<1> QED
    BY <1>1, Inductive, PTL

\* llm/pool.py:77-80: _waiting and _in_flight are exact, whatever is cancelled
\* and wherever it is.
THEOREM CountersAlwaysExact == Spec => []CountersExact
<1>1. IInv => CountersExact
    BY DEF IInv
<1> QED
    BY <1>1, Inductive, PTL

\* No permit of the semaphore is lost or made up.
THEOREM PermitsAlwaysConserved == Spec => []PermitsConserved
<1>1. IInv => PermitsConserved
    BY DEF IInv
<1> QED
    BY <1>1, Inductive, PTL

\* llm/pool.py:77-97: the counters and the permits agree with where the tasks are.
THEOREM CountsAlwaysAgree == Spec => []CountsAgree
    BY CountersAlwaysExact, PermitsAlwaysConserved, PTL DEF CountsAgree

\* The semaphore's queue is exactly the tasks suspended in it, each once.
THEOREM QueueAlwaysExact == Spec => []QueueExact
<1>1. IInv => QueueExact
    BY DEF IInv
<1> QED
    BY <1>1, Inductive, PTL

\* llm/pool.py:44: never more than MaxConcurrent calls reach the GPU.
THEOREM BoundedCalls == Spec => [](Cardinality(Calling) <= MaxConcurrent)
<1>1. ASSUME IInv PROVE Cardinality(Calling) <= MaxConcurrent
  <2>1. Granted = GrantedIn(fut)
      BY DEF Granted, GrantedIn
  <2>2. Cardinality(Granted) \in Nat /\ Cardinality(Calling) \in Nat /\ value \in Nat
      BY <1>1, <2>1, FiniteSets3 DEF IInv, TypeOK
  <2> QED
      BY <1>1, <2>2, PoolAssumption DEF PoolAssumption, IInv, PermitsConserved
<1> QED
    BY <1>1, Inductive, PTL

------------------------------------------------------------------------------
(* No permit is stranded *)

SomePending == \E b \in Agents : fut[b] = "pending"

\* In a reachable state the pending futures are those of the queue.
LEMMA PendingInQueue == IInv => (Pending(waiters, fut) # {} <=> SomePending)
<1> SUFFICES ASSUME IInv PROVE Pending(waiters, fut) # {} <=> SomePending
    OBVIOUS
<1>1. waiters \in Seq(Agents)
    BY DEF IInv, TypeOK
<1>2. ASSUME NEW b \in Agents, fut[b] = "pending"
      PROVE  \E i \in DOMAIN waiters : waiters[i] = b
    BY <1>2 DEF IInv, QueueExact, Queued
<1> QED
    BY <1>1, <1>2 DEF Pending, SomePending

\* After a wake-up over a queue that holds every pending future, either none is
\* pending or one is granted.
LEMMA WakeLeavesNone ==
    ASSUME NEW q \in Seq(Agents), NEW f \in [Agents -> FutStates],
           \A b \in Agents : f[b] = "pending" => \E i \in DOMAIN q : q[i] = b,
           fut' = FutAfterWake(q, f), SomePending'
    PROVE  Granted' # {}
<1>1. /\ \A b \in Agents : fut'[b] = f[b] \/ (f[b] = "pending" /\ fut'[b] = "granted")
      /\ Pending(q, f) # {} => GrantedIn(fut') # {}
  <2>1. 1 \in Nat /\ 1 > 0
      OBVIOUS
  <2> QED
      BY <2>1, WakeFacts, PoolAssumption
<1>2. Pending(q, f) # {}
    BY <1>1 DEF SomePending, Pending
<1> QED
    BY <1>1, <1>2 DEF Granted, GrantedIn

\* NoStrandedPermit is preserved, given the inductive invariant.
LEMMA NoStrandedStep ==
    IInv /\ NoStrandedPermit /\ [Next]_vars => NoStrandedPermit'
<1> SUFFICES ASSUME IInv, NoStrandedPermit, [Next]_vars, value' > 0, SomePending'
             PROVE  Granted' # {}
  <2>1. (IInv => (Pending(waiters, fut) # {} <=> SomePending))'
      BY PendingInQueue, PTL
  <2> QED
      BY <2>1, NextIInv DEF NoStrandedPermit
<1>1. value > 0 /\ SomePending => Granted # {}
    BY PendingInQueue DEF NoStrandedPermit
<1>2. /\ waiters \in Seq(Agents) /\ fut \in [Agents -> FutStates] /\ value \in Nat
      /\ \A b \in Agents : fut[b] # "none" => \E i \in DOMAIN waiters : waiters[i] = b
    BY DEF IInv, TypeOK, FutStates, QueueExact, Queued
<1>3. CASE UNCHANGED vars
    BY <1>1, <1>3 DEF vars, SomePending, Granted
<1>4. ASSUME NEW a \in Agents, AcquireFree(a) PROVE Granted' # {}
  <2>1. ~SomePending
      BY <1>2, <1>4 DEF AcquireFree, Locked, SomePending
  <2> QED
      BY <1>4, <2>1 DEF AcquireFree, SomePending
<1>5. ASSUME NEW a \in Agents, AcquireQueued(a) PROVE Granted' # {}
  <2>1. value > 0 /\ fut[a] = "none"
      BY <1>5 DEF AcquireQueued, IInv, QueueExact
  <2>2. PICK i \in DOMAIN waiters : fut[waiters[i]] # "cancelled"
      BY <1>2, <1>5, <2>1 DEF AcquireQueued, Locked
  <2>3. waiters[i] \in Agents /\ fut[waiters[i]] \in {"pending", "granted"}
      BY <1>2, <2>2 DEF IInv, QueueExact, Queued, FutStates
  <2>4. Granted # {}
      BY <1>1, <2>1, <2>3 DEF SomePending, Granted
  <2> QED
      BY <1>2, <1>5, <2>1, <2>4 DEF AcquireQueued, Granted
<1>6. ASSUME NEW a \in Agents, Cancel(a) PROVE Granted' # {}
  <2>1. Granted' = Granted /\ SomePending
      BY <1>2, <1>6 DEF Cancel, Granted, SomePending, FutStates
  <2> QED
      BY <1>1, <1>6, <2>1 DEF Cancel
<1>7. ASSUME NEW a \in Agents, Enter(a) \/ GiveUpGranted(a) PROVE Granted' # {}
  <2> DEFINE q == Without(waiters, a)
             f == [fut EXCEPT ![a] = "none"]
  <2>1. fut[a] = "granted"
      BY <1>7 DEF Enter, GiveUpGranted
  <2>2. q \in Seq(Agents) /\ \A b \in Queued \ {a} : \E i \in DOMAIN q : q[i] = b
      BY <2>1, LeaveQueue
  <2>3. f \in [Agents -> FutStates]
        /\ \A b \in Agents : f[b] = "pending" => \E i \in DOMAIN q : q[i] = b
      BY <1>2, <2>2 DEF FutStates, IInv, QueueExact, Queued
  <2>4. \/ fut' = FutAfterWake(q, f)
        \/ value' = 0
      BY <1>2, <1>7 DEF Enter, GiveUpGranted, Baton
  <2> HIDE DEF q, f
  <2> QED
      BY <2>2, <2>3, <2>4, WakeLeavesNone
<1>8. ASSUME NEW a \in Agents, GiveUpPending(a) PROVE Granted' # {}
  <2>1. Granted' = Granted /\ SomePending
      BY <1>2, <1>8 DEF GiveUpPending, Granted, SomePending, FutStates
  <2> QED
      BY <1>1, <1>8, <2>1 DEF GiveUpPending
<1>9. ASSUME NEW a \in Agents, Retry(a) PROVE Granted' # {}
    BY <1>1, <1>9 DEF Retry, SomePending, Granted
<1>10. ASSUME NEW a \in Agents, Finish(a) PROVE Granted' # {}
  <2>1. fut' = FutAfterWake(waiters, fut)
      BY <1>10 DEF Finish
  <2>2. \A b \in Agents : fut[b] = "pending" => \E i \in DOMAIN waiters : waiters[i] = b
      BY <1>2
  <2> QED
      BY <1>2, <2>1, <2>2, WakeLeavesNone
<1> QED
    BY <1>3, <1>4, <1>5, <1>6, <1>7, <1>8, <1>9, <1>10 DEF Next, Resume

\* A permit never lies idle beside a task that waits for one.
THEOREM NoPermitStranded == Spec => []NoStrandedPermit
<1>1. Init => NoStrandedPermit
    BY DEF Init, NoStrandedPermit, Pending
<1> QED
    BY <1>1, Inductive, NoStrandedStep, PTL DEF Spec

------------------------------------------------------------------------------
(* The pool implements CallSlots *)

\* Every step of the pool is a step of CallSlots or leaves the slots alone.
LEMMA StepRefines == IInv /\ [Next]_vars => [Slots!SlotNext]_(Slots!slotVars)
<1> SUFFICES ASSUME IInv, [Next]_vars
             PROVE  [Slots!SlotNext]_(Slots!slotVars)
    OBVIOUS
<1> USE DEF Slots!SlotNext, Slots!slotVars
<1>1. CASE UNCHANGED vars
    BY <1>1 DEF vars, Queued, Calling
<1>2. Cardinality(Calling) \in Nat /\ Cardinality(Granted) \in Nat /\ value \in Nat
      /\ value + Cardinality(Granted) + Cardinality(Calling) = MaxConcurrent
  <2>1. Granted = GrantedIn(fut)
      BY DEF Granted, GrantedIn
  <2> QED
      BY <2>1, FiniteSets3 DEF IInv, TypeOK, PermitsConserved
<1>3. ASSUME NEW a \in Agents, AcquireFree(a) PROVE Slots!Enter(a)
  <2>1. value > 0 /\ stage[a] = "idle" /\ stage' = [stage EXCEPT ![a] = "calling"]
      BY <1>2, <1>3 DEF AcquireFree, Locked
  <2>2. Cardinality(Calling) < MaxConcurrent
      BY <1>2, <2>1
  <2>3. a \notin Calling /\ Queued' = Queued \ {a} /\ Calling' = Calling \cup {a}
      BY <2>1, ToCalling DEF Calling
  <2> QED
      BY <2>2, <2>3 DEF Slots!Enter, Cardinality, Slots!Cardinality
<1>4. ASSUME NEW a \in Agents, AcquireQueued(a) PROVE Slots!Ask(a)
  <2>1. a \notin Queued \cup Calling
      BY <1>4 DEF AcquireQueued, Queued, Calling
  <2> QED
      BY <1>4, <2>1, ToQueued DEF AcquireQueued, Slots!Ask
<1>5. ASSUME NEW a \in Agents, Enter(a) PROVE Slots!Enter(a)
  <2>1. stage[a] = "queued" /\ stage' = [stage EXCEPT ![a] = "calling"] /\ a \in Granted
      BY <1>5, LeaveQueue DEF Enter, Granted
  <2>2. Cardinality(Granted) > 0
    <3>1. IsFiniteSet(Granted)
        BY FiniteSets3 DEF Granted, GrantedIn
    <3> QED
        BY <1>2, <2>1, <3>1, FS_EmptySet
  <2>3. Cardinality(Calling) < MaxConcurrent
      BY <1>2, <2>2
  <2>4. a \notin Calling /\ Queued' = Queued \ {a} /\ Calling' = Calling \cup {a}
      BY <2>1, ToCalling DEF Calling
  <2> QED
      BY <2>3, <2>4 DEF Slots!Enter, Cardinality, Slots!Cardinality
<1>6. ASSUME NEW a \in Agents, GiveUpPending(a) \/ GiveUpGranted(a) PROVE Slots!GiveUp(a)
  <2>1. stage[a] = "queued" /\ stage' = [stage EXCEPT ![a] = "idle"]
      BY <1>6, LeaveQueue DEF GiveUpPending, GiveUpGranted
  <2>2. a \in Queued /\ Queued' = Queued \ {a} /\ Calling' = Calling
      BY <2>1, ToIdle DEF Queued
  <2> QED
      BY <2>2 DEF Slots!GiveUp
<1>7. ASSUME NEW a \in Agents, Finish(a) PROVE Slots!Leave(a)
  <2>1. stage[a] = "calling" /\ stage' = [stage EXCEPT ![a] = "idle"]
      BY <1>7 DEF Finish
  <2>2. a \in Calling /\ Queued' = Queued /\ Calling' = Calling \ {a}
      BY <2>1, ToIdle DEF Calling
  <2> QED
      BY <2>2 DEF Slots!Leave
<1>8. ASSUME NEW a \in Agents, Cancel(a) \/ Retry(a)
      PROVE  Queued' = Queued /\ Calling' = Calling
    BY <1>8 DEF Cancel, Retry, Queued, Calling
<1> QED
    BY <1>1, <1>3, <1>4, <1>5, <1>6, <1>7, <1>8 DEF Next, Resume

\* The pool, its counters and the semaphore's hand-over implement the slots of
\* CallSlots: at most MaxConcurrent holders, and only who asks gives up.
THEOREM Refinement == Spec => ImplementsCallSlots
<1>1. Init => Slots!SlotInit
    BY DEF Init, Slots!SlotInit, Queued, Calling
<1> QED
    BY <1>1, Inductive, StepRefines, PTL DEF Spec, ImplementsCallSlots, Slots!SlotSpec

------------------------------------------------------------------------------
(* Nobody overtakes *)

\* The woken tasks of a queue are in front of the ones that wait.
InOrder(q, f) ==
    \A i, j \in DOMAIN q : f[q[i]] = "pending" /\ f[q[j]] = "granted" => j < i

EachOnce(q) == \A i, j \in DOMAIN q : q[i] = q[j] => i = j

\* A wake-up goes to the first that waits.
LEMMA WakeInOrder ==
    ASSUME NEW q \in Seq(Agents), NEW f \in [Agents -> FutStates],
           EachOnce(q), InOrder(q, f)
    PROVE  InOrder(q, FutAfterWake(q, f))
<1>1. CASE Pending(q, f) = {}
    BY <1>1 DEF FutAfterWake
<1>2. CASE Pending(q, f) # {}
  <2> DEFINE P == Pending(q, f)
             k == CHOOSE i \in P : \A j \in P : i <= j
  <2>1. P \in SUBSET Nat
      BY DEF Pending
  <2>2. \E i \in P : \A j \in P : i <= j
      BY <1>2, <2>1, LeastIndex
  <2>3. k \in P /\ \A j \in P : k <= j
      BY <2>2
  <2>4. FutAfterWake(q, f) = [f EXCEPT ![q[k]] = "granted"]
      BY <1>2 DEF FutAfterWake, First
  <2> HIDE DEF k
  <2>5. k \in DOMAIN q /\ q[k] \in Agents /\ \A i \in DOMAIN q : q[i] \in Agents
      BY <2>3 DEF Pending
  <2>6. ASSUME NEW i \in DOMAIN q, NEW j \in DOMAIN q,
               FutAfterWake(q, f)[q[i]] = "pending", FutAfterWake(q, f)[q[j]] = "granted"
        PROVE  j < i
    <3>1. f[q[i]] = "pending" /\ q[i] # q[k]
        BY <2>4, <2>5, <2>6
    <3>2. k < i
      <4>1. k <= i /\ k # i
          BY <2>3, <3>1 DEF Pending
      <4> QED
          BY <4>1, <2>5
    <3>3. f[q[j]] = "granted" \/ j = k
        BY <2>4, <2>5, <2>6 DEF EachOnce
    <3> QED
        BY <3>1, <3>2, <3>3 DEF InOrder
  <2> QED
      BY <2>6 DEF InOrder
<1> QED
    BY <1>1, <1>2

\* Whoever leaves the queue leaves the others in their order.
LEMMA WithoutInOrder ==
    ASSUME NEW q \in Seq(Agents), NEW a \in Agents, NEW f \in [Agents -> FutStates],
           NEW g \in [Agents -> FutStates],
           \E i \in DOMAIN q : q[i] = a, EachOnce(q), InOrder(q, f),
           \A b \in Agents \ {a} : g[b] = f[b]
    PROVE  InOrder(Without(q, a), g)
<1> DEFINE k == CHOOSE i \in DOMAIN q : q[i] = a
           n == Len(q)
           At(i) == IF i < k THEN i ELSE i + 1
           r == Without(q, a)
<1>1. k \in 1 .. n /\ q[k] = a
    OBVIOUS
<1>2. r = [i \in 1 .. (n - 1) |-> q[At(i)]]
    BY DEF Without
<1>3. n \in Nat /\ n > 0 /\ DOMAIN q = 1 .. n
    BY <1>1
<1> HIDE DEF k, n, r
<1>4. \A i \in 1 .. (n - 1) : At(i) \in 1 .. n /\ At(i) # k
    BY <1>1, <1>3
<1>5. \A i \in 1 .. (n - 1) : q[At(i)] \in Agents \ {a}
    BY <1>1, <1>3, <1>4 DEF EachOnce
<1>6. DOMAIN r = 1 .. (n - 1)
    BY <1>2
<1>7. ASSUME NEW i \in 1 .. (n - 1), NEW j \in 1 .. (n - 1),
             g[r[i]] = "pending", g[r[j]] = "granted"
      PROVE  j < i
  <2>1. f[q[At(i)]] = "pending" /\ f[q[At(j)]] = "granted"
      BY <1>2, <1>5, <1>7
  <2>2. At(j) < At(i)
      BY <1>3, <1>4, <2>1 DEF InOrder
  <2> QED
      BY <1>1, <2>2
<1> QED
    BY <1>6, <1>7 DEF InOrder, r

\* A new task queues behind the others.
LEMMA AppendInOrder ==
    ASSUME NEW q \in Seq(Agents), NEW a \in Agents, NEW f \in [Agents -> FutStates],
           \A i \in DOMAIN q : q[i] # a, InOrder(q, f)
    PROVE  InOrder(Append(q, a), [f EXCEPT ![a] = "pending"])
<1> DEFINE r == Append(q, a)
           g == [f EXCEPT ![a] = "pending"]
<1>1. Len(q) \in Nat /\ DOMAIN q = 1 .. Len(q) /\ DOMAIN r = 1 .. (Len(q) + 1)
    OBVIOUS
<1>2. \A i \in 1 .. Len(q) : r[i] = q[i] /\ q[i] \in Agents /\ q[i] # a
    BY <1>1
<1>3. r[Len(q) + 1] = a
    OBVIOUS
<1> HIDE DEF r
<1>4. g[a] = "pending" /\ \A b \in Agents \ {a} : g[b] = f[b]
    OBVIOUS
<1> HIDE DEF g
<1>5. ASSUME NEW i \in DOMAIN r, NEW j \in DOMAIN r, g[r[i]] = "pending", g[r[j]] = "granted"
      PROVE  j < i
  <2>1. j # Len(q) + 1
      BY <1>3, <1>4, <1>5
  <2>2. j \in 1 .. Len(q)
      BY <1>1, <2>1
  <2>3. CASE i = Len(q) + 1
      BY <1>1, <2>2, <2>3
  <2>4. CASE i \in 1 .. Len(q)
      BY <1>1, <1>2, <1>4, <1>5, <2>2, <2>4 DEF InOrder
  <2> QED
      BY <1>1, <2>3, <2>4
<1> QED
    BY <1>5 DEF InOrder, r, g

\* The order of the queue is kept by every step.
LEMMA NextInOrder == IInv /\ InOrder(waiters, fut) /\ [Next]_vars => InOrder(waiters, fut)'
<1> SUFFICES ASSUME IInv, InOrder(waiters, fut), [Next]_vars
             PROVE  InOrder(waiters', fut')
    BY DEF InOrder
<1>1. /\ waiters \in Seq(Agents) /\ fut \in [Agents -> FutStates] /\ EachOnce(waiters)
      /\ \A i \in DOMAIN waiters : waiters[i] \in Agents /\ fut[waiters[i]] # "none"
    BY DEF IInv, TypeOK, FutStates, QueueExact, EachOnce, Queued
<1>2. ASSUME NEW a \in Agents, fut[a] # "none"
      PROVE  LET q == Without(waiters, a)
                 f == [fut EXCEPT ![a] = "none"]
             IN  q \in Seq(Agents) /\ EachOnce(q) /\ f \in [Agents -> FutStates]
                 /\ InOrder(q, f)
  <2> DEFINE q == Without(waiters, a)
             f == [fut EXCEPT ![a] = "none"]
  <2>1. q \in Seq(Agents) /\ EachOnce(q)
      BY <1>2, LeaveQueue DEF EachOnce
  <2>2. f \in [Agents -> FutStates] /\ \A b \in Agents \ {a} : f[b] = fut[b]
      BY <1>1 DEF FutStates
  <2>3. \E i \in DOMAIN waiters : waiters[i] = a
      BY <1>2 DEF IInv, QueueExact, Queued
  <2> HIDE DEF f
  <2>4. InOrder(q, f)
      BY <1>1, <2>2, <2>3, WithoutInOrder
  <2> QED
      BY <2>1, <2>2, <2>4 DEF f
<1>3. CASE UNCHANGED vars
    BY <1>3 DEF vars
<1>4. ASSUME NEW a \in Agents, AcquireFree(a) \/ Retry(a) PROVE InOrder(waiters', fut')
    BY <1>4 DEF AcquireFree, Retry
<1>5. ASSUME NEW a \in Agents, AcquireQueued(a) PROVE InOrder(waiters', fut')
  <2>1. /\ waiters' = Append(waiters, a) /\ fut' = [fut EXCEPT ![a] = "pending"]
        /\ \A i \in DOMAIN waiters : waiters[i] # a
      BY <1>1, <1>5 DEF AcquireQueued, IInv, QueueExact
  <2> QED
      BY <1>1, <2>1, AppendInOrder
<1>6. ASSUME NEW a \in Agents, Cancel(a) PROVE InOrder(waiters', fut')
  <2>1. waiters' = waiters
        /\ \A b \in Agents : fut'[b] = fut[b] \/ fut'[b] = "cancelled"
      BY <1>1, <1>6 DEF Cancel
  <2> QED
      BY <1>1, <2>1 DEF InOrder
<1>7. ASSUME NEW a \in Agents, Enter(a) \/ GiveUpGranted(a) PROVE InOrder(waiters', fut')
  <2> DEFINE q == Without(waiters, a)
             f == [fut EXCEPT ![a] = "none"]
  <2>1. q \in Seq(Agents) /\ EachOnce(q) /\ f \in [Agents -> FutStates] /\ InOrder(q, f)
      BY <1>2, <1>7 DEF Enter, GiveUpGranted
  <2>2. waiters' = q /\ fut' \in {f, FutAfterWake(q, f)}
      BY <1>7 DEF Enter, GiveUpGranted
  <2> HIDE DEF q, f
  <2> QED
      BY <2>1, <2>2, WakeInOrder
<1>8. ASSUME NEW a \in Agents, GiveUpPending(a) PROVE InOrder(waiters', fut')
    BY <1>2, <1>8 DEF GiveUpPending
<1>9. ASSUME NEW a \in Agents, Finish(a) PROVE InOrder(waiters', fut')
    BY <1>1, <1>9, WakeInOrder DEF Finish
<1> QED
    BY <1>3, <1>4, <1>5, <1>6, <1>7, <1>8, <1>9 DEF Next, Resume

\* Who begins a call had a permit handed to it, which put it in front of all
\* that wait, or found nobody waiting.
LEMMA NobodyPassed ==
    ASSUME IInv, InOrder(waiters, fut), [Next]_vars, NEW a \in Agents, NEW b \in Agents,
           stage[a] # "calling", stage'[a] = "calling", AskedBefore(b, a)
    PROVE  fut[b] # "pending"
<1>1. PICK i \in DOMAIN waiters :
          waiters[i] = b /\ \A j \in DOMAIN waiters : waiters[j] = a => i < j
    BY DEF AskedBefore
<1>2. AcquireFree(a) \/ Enter(a)
  <2>1. stage \in [Agents -> {"idle", "queued", "calling"}]
      BY DEF IInv, TypeOK
  <2>2. PICK d \in Agents : \/ AcquireFree(d) \/ AcquireQueued(d) \/ Cancel(d)
                            \/ Resume(d) \/ Retry(d) \/ Finish(d)
      BY DEF Next, vars
  <2>3. CASE AcquireQueued(d) \/ GiveUpPending(d) \/ GiveUpGranted(d) \/ Finish(d)
      BY <2>1, <2>3 DEF AcquireQueued, GiveUpPending, GiveUpGranted, Finish
  <2>4. CASE Cancel(d) \/ Retry(d)
      BY <2>4 DEF Cancel, Retry
  <2>5. CASE AcquireFree(d) \/ Enter(d)
      BY <2>1, <2>5 DEF AcquireFree, Enter
  <2> QED
      BY <2>2, <2>3, <2>4, <2>5 DEF Resume
<1>3. CASE AcquireFree(a)
    BY <1>1, <1>3 DEF AcquireFree, Locked
<1>4. CASE Enter(a)
  <2>1. fut[a] = "granted"
      BY <1>4 DEF Enter
  <2>2. PICK j \in DOMAIN waiters : waiters[j] = a
      BY <2>1 DEF IInv, QueueExact, Queued
  <2>3. i < j /\ i \in Nat /\ j \in Nat
      BY <1>1, <2>2 DEF IInv, TypeOK
  <2> QED
      BY <1>1, <2>1, <2>2, <2>3 DEF InOrder
<1> QED
    BY <1>2, <1>3, <1>4

\* llm/pool.py:59-80 over asyncio.Semaphore: nobody begins a call past a task
\* that asked before and still waits, for any number of tasks and permits.
THEOREM NobodyOvertakes == Spec => NoOvertaking
<1>1. Init => InOrder(waiters, fut)
    BY DEF Init, InOrder
<1>2. IInv /\ InOrder(waiters, fut) /\ [Next]_vars
          => [\A a, b \in Agents :
                 stage[a] # "calling" /\ stage'[a] = "calling" /\ AskedBefore(b, a)
                     => fut[b] # "pending"]_vars
    BY NobodyPassed
<1> QED
    BY <1>1, <1>2, Inductive, NextInOrder, PTL DEF Spec, NoOvertaking
==============================================================================
