------------------------------- MODULE QwenPool ------------------------------
(***************************************************************************)
(* QwenPool.acquire (llm/pool.py) and the call made inside it by           *)
(* generate_json (llm/qwen_client.py) under the policy of llm/retry.py.    *)
(*                                                                         *)
(* One event loop: a coroutine runs without interruption from one await    *)
(* that suspends to the next.  The pool's asyncio.Lock never suspends (its *)
(* bodies do not await), so the only awaits that do are the one on the     *)
(* semaphore's future and those inside the call.  The semaphore is         *)
(* CPython 3.11's asyncio.Semaphore: a counter, a queue of futures, and a  *)
(* permit handed over by resolving the first future that is not done.      *)
(***************************************************************************)
EXTENDS Naturals, Sequences, FiniteSets

CONSTANTS Agents,          \* the tasks that call the model
          MaxConcurrent,   \* settings.qwen_max_concurrent
          MaxAttempts      \* stop_after_attempt(3)

ASSUME PoolAssumption ==
    /\ IsFiniteSet(Agents)
    /\ MaxConcurrent \in Nat \ {0}
    /\ MaxAttempts \in Nat \ {0}

VARIABLES stage,     \* "idle", "queued" in the semaphore, "calling" the model
          fut,       \* the state of the future a queued agent awaits
          throw,     \* agents whose next resumption raises CancelledError
          value,     \* Semaphore._value
          waiters,   \* Semaphore._waiters
          waiting,   \* QwenPool._waiting
          inFlight,  \* QwenPool._in_flight
          attempt    \* attempt.retry_state.attempt_number of a call

vars == <<stage, fut, throw, value, waiters, waiting, inFlight, attempt>>

Queued  == {a \in Agents : stage[a] = "queued"}
Calling == {a \in Agents : stage[a] = "calling"}

\* Queued agents that own a permit already: woken, not yet resumed.
Granted == {a \in Agents : fut[a] = "granted"}

TypeOK ==
    /\ stage \in [Agents -> {"idle", "queued", "calling"}]
    /\ fut \in [Agents -> {"none", "pending", "granted", "cancelled"}]
    /\ throw \subseteq Agents
    /\ value \in 0..MaxConcurrent
    /\ waiters \in Seq(Agents)
    /\ waiting \in Nat
    /\ inFlight \in Nat
    /\ attempt \in [Agents -> 0..MaxAttempts]

------------------------------------------------------------------------------
(* asyncio.Semaphore *)

Pending(q, f) == {i \in DOMAIN q : f[q[i]] = "pending"}

Newest(q, f) == q[CHOOSE i \in Pending(q, f) : \A j \in Pending(q, f) : i >= j]

First(q, f) == q[CHOOSE i \in Pending(q, f) : \A j \in Pending(q, f) : i <= j]

\* _wake_up_next: the permit moves from the counter to the first future that
\* is not done, if there is one.
FutAfterWake(q, f) ==
    IF Pending(q, f) = {} THEN f ELSE [f EXCEPT ![First(q, f)] = "granted"]

ValueAfterWake(v, q, f) == IF Pending(q, f) = {} THEN v ELSE v - 1

NeverLocked == FALSE

\* locked(): also true while someone is queued and not cancelled.
Locked == value = 0 \/ \E i \in DOMAIN waiters : fut[waiters[i]] # "cancelled"

NoBaton == FALSE

\* The last lines of acquire(): a woken task wakes the next one.
Baton == value > 0

\* self._waiters.remove(fut)
Without(q, a) ==
    LET k == CHOOSE i \in DOMAIN q : q[i] = a
    IN  [i \in 1 .. (Len(q) - 1) |-> q[IF i < k THEN i ELSE i + 1]]

------------------------------------------------------------------------------
(* The actions *)

Init ==
    /\ stage = [a \in Agents |-> "idle"]
    /\ fut = [a \in Agents |-> "none"]
    /\ throw = {}
    /\ value = MaxConcurrent
    /\ waiters = <<>>
    /\ waiting = 0
    /\ inFlight = 0
    /\ attempt = [a \in Agents |-> 0]

\* acquire() with a permit free: _waiting goes up and down in one turn.
AcquireFree(a) ==
    /\ stage[a] = "idle"
    /\ ~Locked
    /\ value' = value - 1
    /\ stage' = [stage EXCEPT ![a] = "calling"]
    /\ attempt' = [attempt EXCEPT ![a] = 1]
    /\ inFlight' = inFlight + 1
    /\ UNCHANGED <<fut, throw, waiters, waiting>>

\* acquire() with none: the task suspends on a new future.
AcquireQueued(a) ==
    /\ stage[a] = "idle"
    /\ Locked
    /\ stage' = [stage EXCEPT ![a] = "queued"]
    /\ fut' = [fut EXCEPT ![a] = "pending"]
    /\ waiters' = Append(waiters, a)
    /\ waiting' = waiting + 1
    /\ UNCHANGED <<throw, value, inFlight, attempt>>

\* Task.cancel() on a queued agent: a pending future is cancelled; a future
\* already resolved cannot be, so the exception waits for the resumption.
Cancel(a) ==
    /\ stage[a] = "queued"
    /\ \/ /\ fut[a] = "pending"
          /\ fut' = [fut EXCEPT ![a] = "cancelled"]
          /\ UNCHANGED throw
       \/ /\ fut[a] = "granted"
          /\ throw' = throw \cup {a}
          /\ UNCHANGED fut
    /\ UNCHANGED <<stage, value, waiters, waiting, inFlight, attempt>>

\* The task resumes with its permit and moves from _waiting to _in_flight.
Enter(a) ==
    LET q == Without(waiters, a)
        f == [fut EXCEPT ![a] = "none"]
    IN  /\ fut[a] = "granted" /\ a \notin throw
        /\ waiters' = q
        /\ fut' = IF Baton THEN FutAfterWake(q, f) ELSE f
        /\ value' = IF Baton THEN ValueAfterWake(value, q, f) ELSE value
        /\ stage' = [stage EXCEPT ![a] = "calling"]
        /\ attempt' = [attempt EXCEPT ![a] = 1]
        /\ waiting' = waiting - 1
        /\ inFlight' = inFlight + 1
        /\ UNCHANGED throw

\* The except clause without the flag, as it was before pool.py:77-80.
WaitingAfterErrorUnflagged(entered) == IF waiting > 0 THEN waiting - 1 ELSE waiting

\* The except clause of acquire().
WaitingAfterError(entered) ==
    IF ~entered /\ waiting > 0 THEN waiting - 1 ELSE waiting

\* The task resumes cancelled while its future was still pending.
GiveUpPending(a) ==
    /\ fut[a] = "cancelled"
    /\ fut' = [fut EXCEPT ![a] = "none"]
    /\ waiters' = Without(waiters, a)
    /\ waiting' = WaitingAfterError(FALSE)
    /\ stage' = [stage EXCEPT ![a] = "idle"]
    /\ UNCHANGED <<throw, value, inFlight, attempt>>

\* The task resumes cancelled after it was granted a permit: the semaphore
\* takes the permit back and wakes the next one.
GiveUpGranted(a) ==
    LET q == Without(waiters, a)
        f == [fut EXCEPT ![a] = "none"]
    IN  /\ fut[a] = "granted" /\ a \in throw
        /\ waiters' = q
        /\ fut' = FutAfterWake(q, f)
        /\ value' = ValueAfterWake(value + 1, q, f)
        /\ throw' = throw \ {a}
        /\ waiting' = WaitingAfterError(FALSE)
        /\ stage' = [stage EXCEPT ![a] = "idle"]
        /\ UNCHANGED <<inFlight, attempt>>

AlwaysRetry(a) == TRUE

CanRetry(a) == attempt[a] < MaxAttempts

\* A transport error is retried inside the slot, after a backoff.
Retry(a) ==
    /\ stage[a] = "calling"
    /\ CanRetry(a)
    /\ attempt' = [attempt EXCEPT ![a] = @ + 1]
    /\ UNCHANGED <<stage, fut, throw, value, waiters, waiting, inFlight>>

\* The body of the slot ends, with an answer or with an exception: invalid
\* JSON, an HTTP error, the last transport error, a cancellation.
Finish(a) ==
    /\ stage[a] = "calling"
    /\ \E failed \in BOOLEAN :
          waiting' = IF failed THEN WaitingAfterError(TRUE) ELSE waiting
    /\ stage' = [stage EXCEPT ![a] = "idle"]
    /\ attempt' = [attempt EXCEPT ![a] = 0]
    /\ inFlight' = inFlight - 1
    /\ value' = ValueAfterWake(value + 1, waiters, fut)
    /\ fut' = FutAfterWake(waiters, fut)
    /\ UNCHANGED <<throw, waiters>>

Resume(a) == Enter(a) \/ GiveUpPending(a) \/ GiveUpGranted(a)

Next ==
    \E a \in Agents :
        \/ AcquireFree(a) \/ AcquireQueued(a) \/ Cancel(a)
        \/ Resume(a) \/ Retry(a) \/ Finish(a)

Spec == Init /\ [][Next]_vars

\* The loop runs every ready task; each attempt ends by httpx's timeout, and
\* the attempts are bounded, so a call ends.
Fairness ==
    \A a \in Agents : /\ WF_vars(Resume(a))
                      /\ WF_vars(Retry(a) \/ Finish(a))

FairSpec == Spec /\ Fairness

------------------------------------------------------------------------------
(* Properties *)

\* pool.py:77-80: the counters shown by /pool are the tasks that wait and the
\* tasks that call, whatever was cancelled and wherever it was.
CountersExact ==
    /\ waiting = Cardinality(Queued)
    /\ inFlight = Cardinality(Calling)

\* A permit is in the counter, on its way to a woken task, or held by a call:
\* none is lost by a cancellation and none is made up.  So at most
\* MaxConcurrent calls reach the GPU (pool.py:44).
PermitsConserved ==
    value + Cardinality(Granted) + Cardinality(Calling) = MaxConcurrent

\* _waiting, _in_flight and the semaphore's _value agree with where the tasks
\* are, wherever one of them was cancelled.
CountsAgree == CountersExact /\ PermitsConserved

\* A permit is never left in the counter beside a task that waits for one,
\* unless a woken task is about to run and will pass it on.
NoStrandedPermit ==
    value > 0 /\ Pending(waiters, fut) # {} => Granted # {}

\* The queue is exactly the tasks suspended in it, each once.
QueueExact ==
    /\ \A a \in Agents : stage[a] = "queued" <=> fut[a] # "none"
    /\ \A a \in Queued : \E i \in DOMAIN waiters : waiters[i] = a
    /\ \A i \in DOMAIN waiters : waiters[i] \in Queued
    /\ \A i, j \in DOMAIN waiters : waiters[i] = waiters[j] => i = j
    /\ throw \subseteq Granted

\* b is queued in front of a, or a is not queued at all.
AskedBefore(b, a) ==
    \E i \in DOMAIN waiters :
        waiters[i] = b /\ \A j \in DOMAIN waiters : waiters[j] = a => i < j

\* First come, first served: nobody begins a call past a task that asked
\* before and still waits for its permit, however many permits come back at
\* once and whoever gives up in between.
NoOvertaking ==
    [][\A a, b \in Agents :
          stage[a] # "calling" /\ stage'[a] = "calling" /\ AskedBefore(b, a)
              => fut[b] # "pending"]_vars

\* The pool behaves as CallSlots: a task woken but not resumed still asks.
Slots == INSTANCE CallSlots WITH asking <- Queued, running <- Calling
ImplementsCallSlots == Slots!SlotSpec

\* Every task that waits for a slot gets one or gives up: no permit that a
\* cancelled task was handed is lost with it, and no wake-up is missed.
WaiterServed == \A a \in Agents : stage[a] = "queued" ~> stage[a] # "queued"
==============================================================================
