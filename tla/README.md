# MeliCrowd in TLA+

A verification development kept beside MeliCrowd, the simulator that sends a
crowd of LLM-driven buyers and sellers to the MeliSim marketplace.  The modules
model the control of the Python program under `src/melicrowd`; TLC checks them on
small instances and TLAPS proves the most important facts for all instances.

Run from this directory:

    tlc -workers 2 -config QwenPool.cfg QwenPool
    tlapm QwenPoolProofs.tla

## 1. The system

MeliCrowd is one asyncio process.  A coroutine runs without interruption from one
`await` that suspends to the next, so an action of every module here is such a
stretch of code.  `async with lock` around a body that does not await never
suspends (it is not a step); a lock held across an await is a variable.

| Component | State it keeps | Operations | What is hard | What makes it correct |
|---|---|---|---|---|
| Qwen pool (`llm/pool.py`, `qwen_client.py`, `retry.py`) | semaphore, `_waiting`, `_in_flight` | `acquire`, retry inside the slot | tasks cancelled while queued, after being granted, while calling | counters exact, permits conserved, waiters served |
| Token bucket (`execution/rate_limiter.py`) | `_tokens`, `_last_refill` | `acquire`, `_refill` | waiters that wake together; bursts; retries that bypass it | no overdraft; a window is bounded |
| MeliSim client (`execution/melisim_client.py`, `error_injection.py`) | HTTP client | `_request` and one method per endpoint | lost answers, retries, injected timeouts | payments charge once |
| Worker pools (`orchestrator/pool.py`, `seller_pool.py`) and control API (`api/routers/control.py`, `sellers.py`, `api/state.py`, `main.py`) | tasks, target size, shutdown event, the current pool and its lock | start, resize, shutdown, worker loop | resize against ending sessions, stop against hung ones, a new pool against an old one | size kept, no ghosts, one pool alive, stop returns |
| Live tracker (`observability/live_tracker.py`) | seat of each worker, counters of nodes, calls and completions | register, mark idle, upsert, enter/exit/error, completion, snapshot | seats outliving workers; counters fed by runs that fail halfway | the floor shows the workers and where their sessions are |
| Buyer session (`agents/`) | `AgentState` | 14 nodes, 5 conditional edges | two nested loops, lazy sign-up, failures at each request | ends; outcome true; confirmed means charged |
| Session scheduler (`orchestrator/scheduler.py`, `agents/runner.py`, `sessions/`, `orchestrator/main.py`) | where `run_one` is, the run's locals, the `sessions` table | pick, publish, run, persist, drain | a cancelled or failed step between the events, the row and the tracker | events in order, a row is announced, the broker costs no session, the shutdown ends |
| Kafka publisher (`execution/kafka_publisher.py`) | `_producer`, `_degraded`, `_lock` | start, stop, `_send` | many lazy starts at once, `stop` without the lock, one failure degrades all | one producer, none left behind |
| Seller sessions (`sellers/`, `orchestrator/seller_scheduler.py`) | `SellerSessionState`, `seller_sessions` | sign-up, audit, notifications, focus, restock, suspend, create, price, persist | refusals, lost answers and retries at each request, an inventory that is not what the gateway has | catalogue bound, true rows, suspended products left alone |
| Tech lead (`tech_lead/`, `api/routers/tasks.py`) | tasks with status, stamps and results | generate, start, submit, evaluate | reads that are stale when written, overlapping generations, an evaluation that dies | duplicates bounded, a status agrees with results and stamps, review ends |
| Checkpointer, personas, telemetry, read API, configuration, UI | | | | not modelled (section 8) |

How they interact: the control API owns one `AgentPool` and one `SellerPool`; a
worker of the first runs `SessionScheduler.run_one`, which runs the graph of
`agents/graph.py`; its Qwen nodes call the model through `QwenPool.acquire` and its
other nodes call the gateway through `MelisimClient._request`, which takes a token
from the one bucket.  Every node reports to the tracker under the worker's id, and
`run_one` publishes the session's start, decisions and end before it writes its row.
A worker of the `SellerPool` runs `SellerScheduler.run_one`, which goes through the
same client.  The tech lead shares only the process and the database with them.

## 2. Modules

| Module | Models | EXTENDS / uses |
|---|---|---|
| `CallSlots` | what the Qwen pool promises: at most `MaxConcurrent` holders, who asks may give up | |
| `QwenPool` | `QwenPool.acquire`, CPython's `asyncio.Semaphore`, the call and its retries | instance of `CallSlots` |
| `TokenStream` | what the bucket promises: units that come in at every tick, tokens handed out against them | |
| `RateLimiter`, `MCRateLimiter` | `TokenBucket` and the requests it lets through | instance of `TokenStream` |
| `WorkerPool`, `MCWorkerPool` | both pools, their handlers, the seats in the tracker | |
| `Checkout` | the pay node, its three requests, the gateway | |
| `BuyerSession` | `run_session` over the graph | `Checkout` |
| `KafkaPublisher` | the process's producer, as its callers see it | |
| `LiveTracker` | the tracker, as a buyer's session uses it | |
| `SessionRun`, `MCSessionRun` | the orchestrator at work: scheduler, runner, publisher, tracker, rows, shutdown | `KafkaPublisher`, instance of `LiveTracker` |
| `SellerSession` | `SellerScheduler.run_one`, the seller's actions, the gateway's products | |
| `AcceptanceChecks` | when a check of the evaluator passes | |
| `TaskWorkflow` | the moves a task can make, as a reader of the table sees them | |
| `TechLead`, `MCTechLead` | generation, transitions and evaluation of tasks, and their routes | `AcceptanceChecks`, instance of `TaskWorkflow` |
| `SumTheorems` | what a sum over a function comes to when the function or the set changes | TLAPS |
| `<M>Proofs` for `QwenPool`, `RateLimiter`, `WorkerPool`, `BuyerSession`, `SessionRun`, `SellerSession`, `TechLead` | theorems about `<M>` | `<M>`, TLAPS |

A few definitions beside others (`NeverLocked` beside `Locked`, `AnyProducer` beside
`HasProducer`) are deliberate mistakes that no action uses: `mutants` in
`PROJECT.json` names the definition each replaces and the property that then fails.

**QwenPool.** `stage` is where each task is, `fut` the state of the future it awaits,
`throw` the tasks that will resume with `CancelledError`, `value` and `waiters` the
semaphore's fields.  The semaphore is external code (CPython 3.11): `Cancel`,
`FutAfterWake`, `Baton` and `Without` follow its `acquire`, `release` and
`_wake_up_next`.  `AcquireFree`/`AcquireQueued` are the two ways through `acquire`,
`Enter`, `GiveUpPending` and `GiveUpGranted` the three ways a queued task resumes,
`Finish` every way the body of the slot ends.

**RateLimiter.** Time is in ticks and tokens in units so that the code's fractions are
whole numbers; `Sleep` rounds a wait up, and the loop may resume a sleeper late.
`Debit` continues into `_request` without an await: either `InjectedTimeout` ends the
request there, outside the retry loop, or `FirstAttempt` is sent.  `Resend` sends the
next attempt without going back to the bucket.  `granted`, `grantsAt` and `sentAt` are
history variables.  `TokenStream` knows no lock, sleep or refill: its `level` is the
balance that the code would find if it looked now (`Refilled`), its `handed` is
`granted`.

**WorkerPool.** `task[p][i]` is where worker `i` of the `p`-th pool is suspended: before
its first turn, in the start-up jitter, in a session, in one of the two waits.
Each pool numbers its workers from 0, so `seat`, keyed by worker id, is shared by an
old pool and a new one.  `op` is the handler that holds `pool_lock` across an await:
/start (it awaits the publisher), /stop (it drains), or the lifespan's end.  The
buyers' and the sellers' loop differ in the jitter and in what they do after a
failed session; `kind` says which one it is.

**Checkout / BuyerSession.** A node is a superstep and `node` the one to run next.
What the model scores and what the dice decide is a nondeterministic choice: a
failed Qwen call falls back inside `run_qwen_node` and no edge sees it.  A cart item
is `real` or `synthetic` (a `fallback-*` product).  In `pay`, each await is a step:
an attempt may have been performed by the gateway although no answer came, so
`Resend`, `ErrorStatus` and `NoAnswer` choose.  Assumed of the gateway: a successful
login carries a token, and a payment with a known Idempotency-Key is not charged
again.

**KafkaPublisher / SessionRun.** `call[t]` is where task `t` is suspended in the
publisher: waiting for `_lock`, connecting with it, closing with it what did not
connect, sending, stopping.  `open` counts the producers that connected and were not
stopped.  `start` looks twice (`Settled` before the lock, `Unsettled` under it); `_send` is `BeginSend` and the
`SendStep`s.  `stop` takes no lock, as in the code.  The broker may have an event whose
answer never came.  `at[w]` is where `run_one` is: publishing the start, running the
graph, publishing a decision, publishing the end, writing the row.  `EnterNode` is
the wrapper of `agents/graph.py`, `Step` the body of `run_session`'s loop for one
update, `RunEnds` what follows the stream.  Of the state only the lengths of
`decision_trace` and `errors_encountered` matter here; `valid` is whether an
`AgentState` can be made of the update.  A visit of a node in `QWEN_NODES` may ask Qwen
or nobody: `evaluate_item` asks about few products and for few intents,
`checkout_decision` only where its setting is on (`MayAsk`; `MustAsk` are those that
ask at every visit).  `Decide` adds a decision only to a visit that asked, whereas
`EmitEvents` counts a call at every visit of such a node once the trace has a record.
A session that is over is shown at `purchased` or at `abandon`; the second is also the
name of a node (the last one of a session that goes there), whose occupancy on the
floor may therefore exceed the sessions running it by those that are over.
`Interrupted` is `CancelledError` at any of the awaits.  The pool appears as its workers' loop and its drain; its sizes are
`WorkerPool`'s.  `faults` and `unread` are history: the sessions that something other
than the broker failed, and those with an update that did not validate.

**SellerSession.** `stage` is the stage of `sellers/runner.py` that runs, and an action
is one request with all its attempts: `n` of them were performed, and the answer is
a confirmation, an error status or nothing.  The session's variables are
`SellerSessionState`'s; `users`, `made`, `owner` and `listed` are the gateway's.  Every
session signs up with a random address, so the persona may be a new user or an
earlier one.  `blind` names the users whose catalogue some session did not see whole
(the audit reads five pages of everybody's products and may fail) or in which a
retried POST made a product twice; `performed`, `unanswered` and `suspended` are
history as well.

**TechLead / AcceptanceChecks.** A request is one database session: `seen[c]` is the
status its task had when it was loaded, and `Write` changes only what differs from
that, as SQLAlchemy's unit of work does.  `Generate` picks from the backlog and `Store`
writes the task when the model has answered, fallen back, or failed to validate.
`RunChecks` gives every check of the plan something to find (`Found`) and `Passes` is
the evaluator's verdict on it; a failed query aborts the transaction, so that `Save`
fails after it.  `Restart` ends every request and keeps what was committed.  `orphans`
names the tasks left in review by an evaluation that died.  `TaskWorkflow` keeps the
task table and forgets the requests: its moves are a creation, a start, a submission,
and an evaluation that passed or failed.

## 3. What the runs check

| Run | Bounds | Distinct states | Shows |
|---|---|---|---|
| `qwen_pool` | 4 agents, 2 permits, 2 attempts | 3,777 | `CountsAgree`, `NoStrandedPermit`, `ImplementsCallSlots`, `NoOvertaking`, `WaiterServed` |
| `rate_limiter` | 3 callers, capacity 2 requests, 6 ticks, 2 attempts | 167,615 | `WindowBounded`, `SentPerGrant`, `ImplementsTokenStream` |
| `rate_limiter_window` | as above | violation | `GatewayLimitRespected` fails |
| `worker_pool` | 2 pools of up to 4 workers, sizes 0..3, both kinds | 148,690 | `NeverBelowTarget`, `SeatsAreTrue`, `OnePoolLives`, `DrainOnlyShrinks`, `StopReturns` |
| `worker_pool_shrink` | as above | violation | `ShrinksAtSessionEnd` fails |
| `buyer_session` | 2 attempts, 3 cart items, 2 views before tiring, 22 supersteps | 11,410 | `OutcomeTruthful`, `AccountWhenNeeded`, `ViewsBounded`, `CountedAsCharged`, `ChargedOnce`, `SessionAdvances`, `SessionEnds` |
| `buyer_session_review` | as above | violation | `ReviewOnlyAfterPurchase` fails |
| `buyer_session_orders` | as above | violation | `OneOrderPerItem` fails |
| `session_run` | 2 workers, one session each of two nodes and of one, the nodes `abandon` and a Qwen node that may ask nobody, one trouble (an error of a node, or an update that does not validate) | 997,218 | `PublishedInOrder`, `RowIsAnnounced`, `BrokerCostsNoSession`, `OneProducer`, `LiveFloorIsTrue`, `ShutdownEnds` |
| `seller_session` | 2 sessions, 2 users, 3 products, 2 alerts, catalogue of 1 to 2, plans of up to 3, 2 attempts | about 4.6 million | `CatalogueKept`, `RowIsTrue`, `SuspendedStaysOut` |
| `tech_lead` | 2 clients, 3 tasks of one item, one of them worked on | 100,628 | `DuplicatesBounded`, `ReviewIsEvaluated`, `ImplementsWorkflow`, `ReviewSettles` |
| `tech_lead_interrupts` | 2 clients, one task | violation | `NeverInterruptsWork` fails |

Every passing run also checks one type invariant, which for these modules says more
than shapes: `_value` within the permits, `_tokens` within the capacity, a cancelled
task still alive, an attempt within its policy, a task never without criteria, a
price change only of a product in hand.

Why the bounds are enough.  *qwen_pool*: two calls, one granted and one pending, or
two granted at once, with cancellations of each: every pair of tasks that can race
at the semaphore is there.  *rate_limiter*: a bucket of two requests that fills in
four ticks leaves room for a burst, a wait, and waiters that wake in the same tick,
within six; callers are symmetric.  *worker_pool*: a second pool is what it takes to
share a seat; four workers above a target of three, two or one let several leave at
once.  *buyer_session*: three items make both loops of the graph turn more than once;
2 views and 22 supersteps keep the ratio of 8 and 100 (a session may reach either
limit).  *session_run*: two workers race for the first start and degrade the publisher
under each other, one of them between two decisions; Main starts and stops the
producer, or leaves the start to them.  Sessions of one worker touch each other only
through what the first leaves in the tracker and the publisher, which the proofs cover
for any number.  A session of two nodes may ask Qwen at one visit and nobody at the
next.  *seller_session*: the second session meets what the first left, as the same
user or another one; three products exceed the catalogue of two; two alerts may name
the same product.  *tech_lead*: the races are between two requests on one
task; the third task is what lets an item be generated a third time, which
`DuplicatesBounded` forbids.  With one item the priorities choose nothing; `MCRank` is
there for a second one, `i2`.  `worker_pool`, `rate_limiter` (with their violation
runs) and `seller_session` switch the deadlock check off because the bounds on ids,
pools, time, sessions and products end the behaviour; the other runs keep it.

The violation runs are five disagreements between the code and what its comments or
README say, one property each, quoted in `PROJECT.json` under `findings` with the
smaller divergences that need no run.

## 4. Fairness

* `QwenPool!Fairness`: the loop resumes every ready task; a call ends because each
  attempt has httpx's timeout and attempts are bounded.  Nothing is assumed of
  who calls or of who is cancelled.
* `WorkerPool!Fairness`: a cancelled task resumes, `wait_for`'s timer fires and the
  drained handler goes on.  **Nothing** is assumed of a session: `StopReturns` holds
  although sessions may hang.
* `BuyerSession!FairSpec`: the session takes its next step: a request ends by its
  timeout and its attempts, a Qwen call by the pool (`WaiterServed`) and the same.
* `SessionRun!Fairness`: the process's own task goes on (`Closing`: the drain has a
  timeout, and aiokafka's stop, which has none in the code, is taken to return) and a
  cancelled task resumes (`Interrupted`).  Nothing is assumed of sessions, sends or the
  database: `ShutdownEnds` holds although they may hang.
* `TechLead!Fairness`: a request that was submitted goes on to its evaluation, and an
  evaluation takes its next step: each kind of check has a timeout or ends by itself,
  and the database is taken to answer.  Nothing is assumed of clients.

`RateLimiter` and `SellerSession` state safety only.

## 5. What is proved

Each `<M>Proofs` proves its theorems for all values of the constants that satisfy the
module's named assumption, which is what the settings and the database guarantee.
All invariants and all action and refinement properties that the passing runs check
are proved; only liveness is left to TLC (section 6).  Three invariants are proved that
no run repeats, because a property that a run does check says more: the bound on the
tokens handed out (`GrantsWithinRefill`), which the refinement of `TokenStream` covers;
the agreement of a task's status with its stamps and results (`StatusIsJustified`),
which `TaskWorkflow` implies; and the shape of the semaphore's queue (`QueueExact`), part
of the inductive invariant.

`QwenPoolProofs`, for every finite set of agents and all positive `MaxConcurrent`,
`MaxAttempts` (`PoolAssumption`): `TypeCorrect`, `CountsAlwaysAgree` (with its halves
`CountersAlwaysExact` and `PermitsAlwaysConserved`), `QueueAlwaysExact`,
`BoundedCalls`, `NoPermitStranded`, `NobodyOvertakes` and `Refinement` (the pool
implements `CallSlots`).  The inductive invariant is the conjunction of the types,
`QueueExact`, `PermitsConserved` and `CountersExact`.  None is inductive alone: a task
that leaves the queue can only be taken off `_waiting` because it was counted in it,
which needs the queue to hold it once; `_value` stays within its range only because
permits are conserved.  `WakeFacts` and `WithoutFacts` state once what a wake-up and a
removal do, and the proof of each action cites them.  `NoPermitStranded` is a second
induction over the first.  `Refinement` maps queued tasks to `asking` and calling ones
to `running`; a wake-up is a stutter, `Enter` the abstract step.  `NobodyOvertakes`
needs one more fact, that the woken stand in the queue before all that still wait
(`InOrder`): a wake-up takes the first that waits, who leaves only shortens the queue
and who comes stands last.  It is what first-come-first-served rests on, since a task
that is woken is not yet out of the queue.

`SumTheorems` states what the models' sums do.  `MapThenSumSet` is defined through a
recursive function, of which nothing follows until it is shown to exist; the
induction this takes is carried out on a single formula, by choosing the smallest
subset in a family (`Smallest`), since the library's induction rules take an operator
that no installed prover instantiates.

`RateLimiterProofs`, for every finite set of callers and all capacities, rates, costs
and bounds (`BucketAssumption`): `TypeCorrect`, `GrantsAlwaysWithinRefill`,
`WindowsAreBounded`, `SentWithinGrants` and `Refinement`.  Its first invariant joins the
types with "granted and left never exceed what came in up to the last refill"; the key
step is that a refill credits each tick once (`RefillSplits`, `Settled`).
`WindowBounded` is not inductive: it says nothing of the tokens in hand.  `Windows` adds
`Credit` (what a window got until the last refill, *and what is left*, are within a full
bucket and what came in) and `Quiet` (nothing was handed out since that refill); the cap
in `_refill` is what keeps `Credit` when the window begins after an idle spell.
`SentPerGrant` needs `Budget`: what was sent and what the requests under way may still
send was paid for.  `Refinement` shows the code's lazy refill to be a bucket that fills
at every tick: a tick changes the balance the code would find by just one tick's
units, although nobody looks (`TickComesIn`); a debit hands one token out of that
balance; a sleep, and the refill before it, leave it as it is (`SettledNow`).

`WorkerPoolProofs`, for every finite set of ids that starts at 0, any number of pools
and any sizes (`PoolAssumption`): `TypeCorrect`, `NeverBelowTargetAlways`,
`SeatsAreAlwaysTrue` (from `NoGhostsEver` and `BusyIsAlwaysWorking`),
`OnePoolAlwaysLives` and `DrainAlwaysShrinks`.  The properties need three facts that
none of them states: only the last pool has workers at work (`OnlyCurrent`), a pool
gives its numbers out in order, so that a new worker never takes a live one's seat
(`Numbered`), and what a handler that awaits with the lock held finds when it resumes
(`Handlers`: /start replaces a pool only after its last worker is gone).
`DrainAlwaysShrinks` proves the action property `DrainOnlyShrinks` from the same
invariant: from the moment /stop drains a pool until it returns, no worker is added
and none begins another session, from whichever wait it wakes.

`BuyerSessionProofs`, for all limits on views (positive), supersteps, attempts
(positive) and distinguished items: `TypeCorrect`, `ChargedAtMostOnce`,
`CountedIsCharged`, `OutcomeIsTruthful`, `AccountIsThere`, `ViewsAreBounded` and
`SessionAlwaysAdvances`.  None of the properties is inductive, since each speaks of a
place the session has reached and not of how.  The invariant adds, for each stretch of
the graph, what is still to come: `RoomToView` (before a product there is room for one
more view, behind it there is a product, behind the cart an item), `Untouched`
(nothing ordered or told before the pay node), `AtGateway` (a payment is sent for an
order that is there, a status check for a charge) and `Told` (no outcome within the
checkout; an abandoned cart there ordered nothing).  The parts about the gateway and
those about the graph are kept apart: `MovesIInv` covers the steps that leave the
checkout alone at once, `GatewayEffect`, `CountItem` and `SendRequest` say what one
exchange with the gateway does, and each step of the checkout cites them.  `MaxViews`
of 0 is excluded: with it a session would still view one product.
`SessionAlwaysAdvances` is the part of `SessionEnds` that is safety: each step ends
the session or increases, lexicographically, supersteps, counted items, requests and
attempts, which are all bounded; no retry and no answer takes it back.  What
`SessionEnds` adds is that steps are taken.

`SessionRunProofs`, for every finite set of workers and nodes, any number of sessions
and steps (`SessionAssumption`, `StationAssumption`, `PublisherAssumption`):
`TypeCorrect`, `OneProducerAlways`, `BrokerNeverCostsASession`,
`AlwaysPublishedInOrder`, `RowsAreAnnounced`, `FloorIsAlwaysTrue`.  The induction has
four layers.  `Coherent` ties the lock, the producer and the place of every task
together: a task connects only with the lock, and then there is nothing to send with;
who sends has a producer; Main stops it only when every worker is gone.  `Ordered`
says what the topics hold of the current session at each place of `run_one`, as long
as the publisher is not degraded, and that a degraded one adds to no session behind a
gap; it is inductive because the flag never goes back.  The rows follow from both.
The live floor is the fourth.  `Told` ties a worker's seat, the run's locals and its
history to the place of `run_one`: the seat shows the node of the run, nothing of a
run is left when the next one begins, and errors are counted up to the last update
that validated.  `Matched` is the counters against the sums over the sessions, step by
step with `SumTheorems`.  The calls of Qwen lie between two sums: no decision is missed
among them (`TraceMatches`), and there is none without a visit of a Qwen node
(`CallsMatch`).  That they equal the decisions is false (section 8).  `StationAssumption` says that no node is named like the
entrance or the exit of the floor, and that there is a node `abandon`, which is where
a session without a purchase ends.

`SellerSessionProofs`, for all catalogue sizes, plans, attempts and bounds
(`SellerAssumption`): `TypeCorrect`, `RowIsAlwaysTrue`, `SuspendedAlwaysStaysOut`,
`CatalogueAlwaysKept`.  `CatalogueKept` needs, for a user who is not blind, that the
catalogue is contained in the inventory until products are created (`Seen`) and that
what is listed and what is still to create fit together (`Room`); `RowIsTrue` needs that
an unanswered request is an error of the session (`Honest`) and that a completion
follows its row (`Recorded`); `Prepared` says what the later stages take from the
earlier ones.

`TechLeadProofs`, for all clients, items, priorities, criteria and things to be found
(`TechLeadAssumption`): `TypeCorrect`, `DuplicatesAlwaysBounded`,
`ReviewIsAlwaysEvaluated`, `StatusIsAlwaysJustified`, `Refinement`.  The properties
are nearly inductive: a stale write is harmless because who read a task in review read
one that had been submitted (`SeenSubmitted`), a number without a task has no results
(`Unused`), and a generation under way has room for its task (`Room`).  The counting
behind `DuplicatesBounded` is `GeneratingFrom` against `TasksOf`: a client begins only
while no task holds the item.  `Refinement` shows every request's commit to be a move
of `TaskWorkflow`, stale readings included.  The case that could fail is a write that
leaves the status out because the row was read with that very status: the task may
have moved since, and the stamp alone would be no move.  It changes nothing at all,
because who read a task in a status read one with its stamp, and stamps stay
(`SeenStamped`).

## 6. What is only model-checked

Liveness (`WaiterServed`, `StopReturns`, `SessionEnds`, `ShutdownEnds`, `ReviewSettles`)
needs fairness and ENABLED, out of the prover's reach.  Three of the five have a safety
half that is proved: `NoOvertaking` and `NoStrandedPermit` of `WaiterServed`,
`DrainOnlyShrinks` of `StopReturns`, `SessionAdvances` of `SessionEnds`.

The five properties of the violation runs are false, and no theorem speaks of them.

## 7. Plan

Done: every component of section 1 that has control of its own; proofs of all
invariants, action properties and refinements.  Left, in this order:

1. The tracker's buffer of events and its windows of one and five minutes, with time.
2. The Redis checkpointer, if the graph is ever compiled with it; persona batches; the
   Markov and timing tables as pure functions.

## 8. Not modelled, and why

*Components.*  The Redis checkpointer: the default graph compiles without one.  The
personas' generator: sampling and text; here a persona is an arbitrary choice.
Metrics, logs, traces and hooks: nothing reads them back.  The read API, the
websocket, the UI and the infrastructure: presentation.  Configuration, database
connections, command lines, timing and Markov tables: I/O and data; a delay is the
interleaving it allows.  The stub client: it has no failures.

*Parts of modelled components.*  Prompts, JSON extraction, product parsing and the
sampling probabilities: data the control does not depend on beyond the outcomes
allowed here.  The corruption of form fields: the gateway's answer to it is an error
status, which is there.  The tracker's event buffer, windows and breakdown by outcome.
The stations, call counters and focus names of a seller.  Names in the backlog: the
model's own tags are taken to name no other item of it.

*Hazard without a property.*  A timeout at the second item of a cart raises out of
`pay` after the first was charged (`pay.py:71`): nothing in the code counts a crashed
session's charges, so there is no promise to check beyond the finding.

*What the properties excuse.*  `ReviewIsEvaluated` and `ReviewSettles` leave out the
`orphans`: a task whose evaluation died stays in review, and nothing in the code takes it
up.  `CatalogueKept` leaves out the users who are `blind`, and with them a product that a
retried POST made twice; `RowIsTrue` bounds the counters by what the gateway did, and so
does not see a product created twice and counted once.  `DuplicatesBounded` allows one
duplicate for each client that generates at the same time.  `CountersFollowSessions`
compares errors and decisions only while every update validates, and durations and
rows exactly only while no session was lost.

*Seen while modelling, of data the models leave out.*

* `live_tracker.py:560` reassigns `recent_errors` in the loop over the nodes, so that
  `errorsLast5Min` (line 586) is the last node's count of the last minute.
* `run_session` times a node from the update before it; since LangGraph's updates
  arrive after a node ran, its duration is booked on the node before.
* The floor's Qwen calls exceed the decisions: `runner.py:223` pushes a call, with the
  latency of the trace's last record, for a visit of `evaluate_item` or
  `checkout_decision` that asked nobody.  `EmitEvents` does the same.
* `isThinking` is set at every Qwen node, whether or not the node asks, and stays set
  after the answer until the next node.
* A producer whose worker is cancelled while it connects, or while the failed one is
  closed, is never stopped; `open` does not count it, since it never connected for anyone.
* `delete_product` is retried after a lost answer and then gets 404, which `suspend`
  takes as a refusal (`SuspendRefused` has it); `suspend` catches nothing, so that a
  request without any answer loses the session and its row (`SuspendLost`).
* A reply of the tech lead's model that does not validate was paid for, and the task
  made in its place is booked at no cost.
* The first docstring of `scheduler.py` has the session persisted before it is published;
  the code publishes first (`RowIsAnnounced` depends on it).
