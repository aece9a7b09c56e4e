--------------------------- MODULE KafkaPublisher ----------------------------
(***************************************************************************)
(* KafkaPublisher (execution/kafka_publisher.py), the process's one Kafka  *)
(* producer, as its callers see it: the orchestrator, which starts it      *)
(* before its pool and stops it after, and the workers, whose first event  *)
(* starts it when nobody did.                                              *)
(*                                                                         *)
(* Every action is a piece of a caller's turn, from one await that         *)
(* suspends to the next, and says nothing of the caller's own state.  The  *)
(* broker is external: an event whose send fails may have reached it.      *)
(***************************************************************************)
EXTENDS Naturals, FiniteSets

CONSTANTS Workers,  \* the tasks that publish
          Main      \* the task that starts and stops the publisher

ASSUME PublisherAssumption == Main \notin Workers

VARIABLES enabled,   \* settings.kafka_enabled
          producer,  \* _producer is not None
          degraded,  \* _degraded
          lock,      \* the tasks that hold _lock
          call,      \* call[t]: where task t is suspended in the publisher
          open,      \* producers that connected and were not stopped
          topics     \* the events the broker has

publisherVars == <<enabled, producer, degraded, lock, call, open, topics>>

Tasks == Workers \cup {Main}

PublisherTypeOK ==
    /\ enabled \in BOOLEAN /\ producer \in BOOLEAN /\ degraded \in BOOLEAN
    /\ lock \subseteq Tasks
    /\ call \in [Tasks -> {"out", "waiting", "starting", "closing",
                          "inFlight", "stopping"}]
    /\ open \in Nat

PublisherInit ==
    /\ enabled \in BOOLEAN
    /\ producer = FALSE /\ degraded = FALSE
    /\ lock = {} /\ call = [t \in Tasks |-> "out"]
    /\ open = 0 /\ topics = {}

Suspend(t, where) == call' = [call EXCEPT ![t] = where]

\* start() has returned to its caller: a worker goes on to send, unless there
\* is nothing to send with.
AfterStart(t) ==
    Suspend(t, IF t \in Workers /\ producer' /\ ~degraded' THEN "inFlight" ELSE "out")

Settled == producer \/ degraded

\* start(): nothing to do, Kafka switched off, the lock taken by another task,
\* or a producer that begins to connect.
EnterStart(t) ==
    \/ /\ Settled
       /\ UNCHANGED <<producer, degraded, lock>>
       /\ AfterStart(t)
    \/ /\ ~Settled /\ ~enabled
       /\ degraded' = TRUE
       /\ UNCHANGED <<producer, lock>>
       /\ AfterStart(t)
    \/ /\ ~Settled /\ enabled /\ lock # {}
       /\ Suspend(t, "waiting")
       /\ UNCHANGED <<producer, degraded, lock>>
    \/ /\ ~Settled /\ enabled /\ lock = {}
       /\ lock' = {t} /\ Suspend(t, "starting")
       /\ UNCHANGED <<producer, degraded>>

BeginStart(t) ==
    /\ call[t] = "out"
    /\ EnterStart(t)
    /\ UNCHANGED <<enabled, open, topics>>

\* _send: a no-op once degraded; the first one starts the producer.
BeginSend(t) ==
    /\ call[t] = "out"
    /\ \/ degraded /\ UNCHANGED <<producer, degraded, lock, call>>
       \/ ~degraded /\ EnterStart(t)
    /\ UNCHANGED <<enabled, open, topics>>

Unchecked == TRUE

\* The second check, under the lock.
Unsettled == ~Settled

TakeLock(t) ==
    /\ call[t] = "waiting" /\ lock = {}
    /\ \/ /\ ~Unsettled
          /\ UNCHANGED <<producer, degraded, lock>>
          /\ AfterStart(t)
       \/ /\ Unsettled
          /\ lock' = {t} /\ Suspend(t, "starting")
          /\ UNCHANGED <<producer, degraded>>
    /\ UNCHANGED <<enabled, open, topics>>

\* producer.start() returns, or fails, or wait_for runs out of time.
Connected(t) ==
    /\ call[t] = "starting"
    /\ producer' = TRUE /\ open' = open + 1
    /\ lock' = lock \ {t}
    /\ UNCHANGED <<enabled, degraded, topics>>
    /\ AfterStart(t)

Unreachable(t) ==
    /\ call[t] = "starting"
    /\ degraded' = TRUE
    /\ Suspend(t, "closing")
    /\ UNCHANGED <<enabled, producer, lock, open, topics>>

\* What did not connect is stopped while the lock is still held, and whatever
\* becomes of that, there is no producer.
Closed(t) ==
    /\ call[t] = "closing"
    /\ producer' = FALSE
    /\ lock' = lock \ {t}
    /\ UNCHANGED <<enabled, degraded, open, topics>>
    /\ AfterStart(t)

StaysUp == UNCHANGED degraded

\* send_and_wait is answered; or it raises, and the publisher is degraded for
\* every task, while sends already in flight go on.
Degrade == degraded' = TRUE

Acknowledged(t, event) ==
    /\ call[t] = "inFlight"
    /\ topics' = topics \cup {event}
    /\ Suspend(t, "out")
    /\ UNCHANGED <<enabled, producer, degraded, lock, open>>

Unanswered(t, event) ==
    /\ call[t] = "inFlight"
    /\ topics' \in {topics, topics \cup {event}}
    /\ Degrade
    /\ Suspend(t, "out")
    /\ UNCHANGED <<enabled, producer, lock, open>>

\* CancelledError in any of these awaits is no Exception: the lock is given
\* back, and the event in flight may still arrive.
Abort(t, event) ==
    /\ topics' \in {topics} \cup
           (IF call[t] = "inFlight" THEN {topics \cup {event}} ELSE {})
    /\ lock' = lock \ {t}
    /\ Suspend(t, "out")
    /\ UNCHANGED <<enabled, producer, degraded, open>>

AnyProducer == TRUE

HasProducer == producer

\* stop() takes no lock, and returns at once without a producer.
BeginStop(t) ==
    /\ call[t] = "out"
    /\ Suspend(t, IF HasProducer THEN "stopping" ELSE "out")
    /\ UNCHANGED <<enabled, producer, degraded, lock, open, topics>>

StopReturns(t) ==
    /\ call[t] = "stopping"
    /\ producer' = FALSE /\ open' = open - 1
    /\ Suspend(t, "out")
    /\ UNCHANGED <<enabled, degraded, lock, topics>>

\* A step of a send other than its first.
SendStep(t, event) ==
    \/ TakeLock(t) \/ Connected(t) \/ Unreachable(t) \/ Closed(t)
    \/ Acknowledged(t, event) \/ Unanswered(t, event)
==============================================================================
