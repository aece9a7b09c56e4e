------------------------------ MODULE WorkerPool -----------------------------
(***************************************************************************)
(* AgentPool and SellerPool (orchestrator/pool.py, seller_pool.py), the    *)
(* handlers that own them (api/routers/control.py, sellers.py, the         *)
(* lifespan of api/main.py) and the seats their workers keep in the live   *)
(* tracker (observability/live_tracker.py).                                *)
(*                                                                         *)
(* A worker is a task; one action takes it from one await that suspends to *)
(* the next.  Every pool numbers its workers from 0, so a worker of a new  *)
(* pool takes the seat a worker of the old one had.  A handler waits its   *)
(* turn at the pool's lock before it begins.                               *)
(***************************************************************************)
EXTENDS Naturals, FiniteSets

CONSTANTS Ids,       \* the sequence numbers a pool may give out (a bound)
          MaxPools,  \* how many pools the handlers may create (a bound)
          Sizes      \* the sizes a client may ask for

ASSUME PoolAssumption ==
    /\ Ids = 0 .. (Cardinality(Ids) - 1) /\ IsFiniteSet(Ids)
    /\ MaxPools \in Nat
    /\ Sizes \subseteq Nat

VARIABLES kind,       \* which of the two pools this is
          pools,      \* pools created so far; the last is AppState.pool
          attached,   \* AppState.pool is not None
          target,     \* _target_size
          stopped,    \* _stopped, and _shutdown_event: one turn sets both
          task,       \* task[p][i]: where worker i of pool p is suspended
          cancelled,  \* tasks that resume with CancelledError
          seat,       \* the tracker: each worker id's entry
          op          \* the handler that holds pool_lock across an await

vars == <<kind, pools, attached, target, stopped, task, cancelled, seat, op>>

Pools == 1 .. MaxPools
Tasks == Pools \X Ids

Live(p) == {i \in Ids : task[p][i] \notin {"none", "done"}}
Spawned(p) == {i \in Ids : task[p][i] # "none"}

\* active_agents, is_running
Active == Cardinality(Live(pools))
Running == attached /\ ~stopped /\ Active > 0

TypeOK ==
    /\ kind \in {"buyer", "seller"}
    /\ pools \in 0 .. MaxPools
    /\ attached \in BOOLEAN /\ stopped \in BOOLEAN
    /\ target \in Sizes
    /\ task \in [Pools -> [Ids -> {"none", "created", "jitter", "session",
                                   "retryWait", "recycle", "done"}]]
    /\ cancelled \subseteq Tasks
    /\ \A t \in cancelled : t[2] \in Live(t[1])
    /\ seat \in [Ids -> {"absent", "idle", "busy"}]
    /\ op \in {"none", "starting", "draining", "cancelling", "down"}
    /\ attached => pools > 0

Init ==
    /\ kind \in {"buyer", "seller"}
    /\ pools = 0
    /\ attached = FALSE /\ stopped = FALSE
    /\ target \in Sizes
    /\ task = [p \in Pools |-> [i \in Ids |-> "none"]]
    /\ cancelled = {}
    /\ seat = [i \in Ids |-> "absent"]
    /\ op = "none"

------------------------------------------------------------------------------
(* The worker loop *)

LeaveSeat(i) == UNCHANGED seat

Unregister(i) == seat' = [seat EXCEPT ![i] = "absent"]

MarkIdle(i) == seat' = [seat EXCEPT ![i] = "idle"]

Goto(p, i, s) == task' = [task EXCEPT ![p][i] = s]

\* The finally clause of _worker_loop, and the end of the task.
Exit(p, i) == Goto(p, i, "done") /\ Unregister(i)

Replaced(p) == p # pools

ShuttingDown(p) == p # pools \/ stopped

\* The top of the while loop.
LoopTop(p, i) ==
    \/ ShuttingDown(p) /\ Exit(p, i)
    \/ ~ShuttingDown(p) /\ MarkIdle(i) /\ Goto(p, i, "session")

\* The task's first turn: register_worker keeps an entry that is there; only
\* buyers spread their first session.
Begin(p, i) ==
    /\ task[p][i] = "created"
    /\ <<p, i>> \notin cancelled
    /\ \/ /\ kind = "buyer"
          /\ seat' = [seat EXCEPT ![i] = IF @ = "absent" THEN "idle" ELSE @]
          /\ Goto(p, i, "jitter")
       \/ kind = "seller" /\ LoopTop(p, i)
    /\ UNCHANGED <<kind, pools, attached, target, stopped, cancelled, op>>

\* _wait_or_shutdown returns: its time is up or the shutdown event is set.
Wake(p, i) ==
    /\ task[p][i] \in {"jitter", "retryWait", "recycle"}
    /\ <<p, i>> \notin cancelled
    /\ LoopTop(p, i)
    /\ UNCHANGED <<kind, pools, attached, target, stopped, cancelled, op>>

\* A node of the running session reports its station to the tracker.
Report(p, i) ==
    /\ task[p][i] = "session"
    /\ <<p, i>> \notin cancelled
    /\ seat[i] # "busy"
    /\ seat' = [seat EXCEPT ![i] = "busy"]
    /\ UNCHANGED <<kind, pools, attached, target, stopped, task, cancelled, op>>

AtOrAboveTarget == Active >= target

\* "Decide se continuar ou parar (resize-down)"
AboveTarget == Active > target

\* run_one returns a final state, or raises.
SessionEnds(p, i) ==
    /\ task[p][i] = "session"
    /\ <<p, i>> \notin cancelled
    /\ \/ AboveTarget /\ Exit(p, i)
       \/ ~AboveTarget /\ MarkIdle(i) /\ Goto(p, i, "recycle")
    /\ UNCHANGED <<kind, pools, attached, target, stopped, cancelled, op>>

\* run_one returns None: no persona, or the session failed.  The worker goes
\* back to the loop past the resize check; only the buyer's marks itself idle.
SessionFails(p, i) ==
    /\ task[p][i] = "session"
    /\ <<p, i>> \notin cancelled
    /\ Goto(p, i, "retryWait")
    /\ \/ kind = "buyer" /\ MarkIdle(i)
       \/ kind = "seller" /\ UNCHANGED seat
    /\ UNCHANGED <<kind, pools, attached, target, stopped, cancelled, op>>

\* CancelledError in any await of the loop ends it through the finally clause;
\* a task that never ran ends before it registered.
Interrupted(p, i) ==
    /\ <<p, i>> \in cancelled
    /\ Goto(p, i, "done")
    /\ \/ task[p][i] = "created" /\ UNCHANGED seat
       \/ task[p][i] # "created" /\ Unregister(i)
    /\ cancelled' = cancelled \ {<<p, i>>}
    /\ UNCHANGED <<kind, pools, attached, target, stopped, op>>

------------------------------------------------------------------------------
(* The handlers *)

NoLock == op # "down"

\* pool_lock: no handler is between two awaits of its critical section.
LockFree == op = "none"

NextSeq(p) == Cardinality(Spawned(p))

\* _spawn_worker, n times.
Spawn(p, n) ==
    /\ NextSeq(p) + n <= Cardinality(Ids)                     \* bound
    /\ task' = [task EXCEPT ![p] =
                   [i \in Ids |-> IF i \in NextSeq(p) .. (NextSeq(p) + n - 1)
                                  THEN "created" ELSE @[i]]]

\* POST /start refuses with 409 while a pool runs; the buyers' handler then
\* awaits the publisher with the lock held.
StartRequest ==
    /\ LockFree
    /\ ~Running
    /\ pools < MaxPools                                       \* bound
    /\ op' = "starting"
    /\ UNCHANGED <<kind, pools, attached, target, stopped, task, cancelled, seat>>

\* A new pool takes the place of whatever AppState held.
StartPool(n) ==
    /\ op = "starting"
    /\ n \in Sizes \ {0}
    /\ pools' = pools + 1
    /\ attached' = TRUE /\ stopped' = FALSE
    /\ target' = n
    /\ Spawn(pools + 1, n)
    /\ op' = "none"
    /\ UNCHANGED <<kind, cancelled, seat>>

\* resize(): only what is missing from the live workers is spawned.
Missing(n) == IF n > Active THEN n - Active ELSE 0

\* POST /scale refuses with 404 when there is no pool.
Scale(n) ==
    /\ LockFree
    /\ attached
    /\ n \in Sizes
    /\ target' = n
    /\ Spawn(pools, Missing(n))
    /\ UNCHANGED <<kind, pools, attached, stopped, cancelled, seat, op>>

\* POST /stop, and the lifespan's end: shutdown() sets the event and waits.
Stop ==
    /\ LockFree
    /\ attached
    /\ stopped' = TRUE
    /\ op' = "draining"
    /\ UNCHANGED <<kind, pools, attached, target, task, cancelled, seat>>

Drained == Live(pools) = {}

EveryTask == Spawned(pools)

Stragglers == Live(pools)

DrainForever == FALSE

\* The timeout of wait_for cancels the gather and with it every task left.
DrainTimeout ==
    /\ op = "draining"
    /\ ~Drained
    /\ cancelled' = {<<pools, i>> : i \in Stragglers}
    /\ op' = "cancelling"
    /\ UNCHANGED <<kind, pools, attached, target, stopped, task, seat>>

\* The gather is done: the seats of every worker ever spawned are cleared.
\* The handler detaches the pool; the lifespan ends the process instead.
Stopped ==
    /\ op \in {"draining", "cancelling"}
    /\ Drained
    /\ seat' = [i \in Ids |-> IF i \in Spawned(pools) THEN "absent" ELSE seat[i]]
    /\ \/ attached' = FALSE /\ op' = "none"
       \/ op' = "down" /\ UNCHANGED attached
    /\ UNCHANGED <<kind, pools, target, stopped, task, cancelled>>

Down == op = "down" /\ UNCHANGED vars

Work(p, i) ==
    \/ Begin(p, i) \/ Wake(p, i) \/ Report(p, i)
    \/ SessionEnds(p, i) \/ SessionFails(p, i) \/ Interrupted(p, i)

Next ==
    \/ \E p \in Pools, i \in Ids : Work(p, i)
    \/ StartRequest
    \/ \E n \in Sizes : StartPool(n) \/ Scale(n)
    \/ Stop \/ DrainTimeout \/ Stopped
    \/ Down

Spec == Init /\ [][Next]_vars

\* The loop resumes a task whose await is over and the timer of wait_for
\* fires.  Nothing is assumed of a session: it may hang.
Fairness ==
    /\ \A p \in Pools, i \in Ids : WF_vars(Interrupted(p, i))
    /\ WF_vars(DrainTimeout) /\ WF_vars(Stopped)

FairSpec == Spec /\ Fairness

------------------------------------------------------------------------------
(* Properties *)

\* A running pool never has fewer workers than its target, whatever the order
\* of scale-ups, scale-downs and exits: two workers above the target by one
\* do not both leave.
NeverBelowTarget == attached /\ ~stopped => Active >= target

\* pool.py:163-165: the tracker shows exactly the workers that have begun and
\* not ended, of the current pool: no ghost outlives its worker, and no
\* worker's seat is cleared by an older pool.
NoGhosts ==
    \A i \in Ids :
        seat[i] # "absent"
            <=> pools > 0 /\ task[pools][i] \notin {"none", "created", "done"}

\* A seat shown as busy belongs to a worker inside a session (a seller also
\* keeps it during the wait after a failed one).
BusyIsWorking ==
    \A i \in Ids : seat[i] = "busy" =>
        \/ task[pools][i] = "session"
        \/ kind = "seller" /\ task[pools][i] = "retryWait"

\* The live floor tells the truth of the workers: who there is and who works.
SeatsAreTrue == NoGhosts /\ BusyIsWorking

\* A pool that was replaced, or detached by /stop, has no live worker: two
\* workers never share an id.
OnePoolLives ==
    /\ \A p \in Pools : p < pools => Live(p) = {}
    /\ ~attached /\ pools > 0 => Live(pools) = {}

\* pool.py:144, "pede aos workers pra terminar a sessao atual": while a handler
\* drains a pool nobody joins it, no worker takes up another session, from
\* whichever of its waits it wakes, and no client resizes or replaces it.
DrainOnlyShrinks ==
    [][(op \in {"draining", "cancelling"}) =>
          /\ pools' = pools /\ target' = target
          /\ Live(pools)' \subseteq Live(pools)
          /\ \A i \in Ids : task'[pools][i] = "session" => task[pools][i] = "session"]_vars

\* /stop returns even if a session hangs: the timeout cancels it.
StopReturns == op \in {"draining", "cancelling"} ~> op \in {"none", "down"}

\* pool.py:12: after a resize-down an extra worker ends with its current
\* session, whatever that session came to.
ShrinksAtSessionEnd ==
    [][\A p \in Pools, i \in Ids :
          (task[p][i] = "session" /\ task'[p][i] # "session" /\ AboveTarget)
              => task'[p][i] = "done"]_vars
==============================================================================
