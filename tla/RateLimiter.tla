----------------------------- MODULE RateLimiter -----------------------------
(***************************************************************************)
(* TokenBucket (execution/rate_limiter.py) and the requests it lets        *)
(* through, MelisimClient._request (execution/melisim_client.py).          *)
(*                                                                         *)
(* Time is in ticks and tokens in units: a request costs Cost units and    *)
(* Rate units come in per tick, so that the code's fractions are whole.    *)
(* The loop may resume a sleeper late, never early.                        *)
(***************************************************************************)
EXTENDS Integers, FiniteSetsExt

CONSTANTS Callers,      \* coroutines inside _request
          Capacity,     \* TokenBucket.capacity, in units
          Rate,         \* TokenBucket.refill_per_second, in units per tick
          Cost,         \* one token, in units
          MaxAttempts,  \* stop_after_attempt(4)
          MaxClock      \* the bound on time

ASSUME BucketAssumption ==
    /\ Capacity \in Nat /\ Rate \in Nat \ {0} /\ Cost \in Nat \ {0}
    /\ MaxAttempts \in Nat \ {0} /\ MaxClock \in Nat
    /\ IsFiniteSet(Callers)

VARIABLES clock,       \* loop.time()
          tokens,      \* TokenBucket._tokens
          lastRefill,  \* TokenBucket._last_refill
          stage,       \* where each caller is suspended
          wakeAt,      \* when its asyncio.sleep ends
          attempt,     \* attempts made by its request
          granted,     \* history: tokens handed out
          grantsAt,    \* history: tokens handed out at each tick
          sentAt       \* history: HTTP requests sent at each tick

vars == <<clock, tokens, lastRefill, stage, wakeAt, attempt, granted, grantsAt, sentAt>>

Time == 0 .. MaxClock

TypeOK ==
    /\ clock \in Time
    /\ tokens \in 0 .. Capacity
    /\ lastRefill \in 0 .. clock
    /\ stage \in [Callers -> {"idle", "sleeping", "requesting", "backoff"}]
    /\ wakeAt \in [Callers -> Nat]
    /\ attempt \in [Callers -> 0 .. MaxAttempts]
    /\ granted \in Nat
    /\ grantsAt \in [Time -> Nat]
    /\ sentAt \in [Time -> Nat]

Init ==
    /\ clock = 0
    /\ tokens = 0             \* the bucket starts empty
    /\ lastRefill = 0
    /\ stage = [c \in Callers |-> "idle"]
    /\ wakeAt = [c \in Callers |-> 0]
    /\ attempt = [c \in Callers |-> 0]
    /\ granted = 0
    /\ grantsAt = [t \in Time |-> 0]
    /\ sentAt = [t \in Time |-> 0]

\* _refill: the new balance, credited up to the present.
UncappedRefill == tokens + (clock - lastRefill) * Rate

WholeTokens ==
    IF UncappedRefill < Capacity THEN (UncappedRefill \div Cost) * Cost ELSE Capacity

Refilled ==
    IF UncappedRefill < Capacity THEN UncappedRefill ELSE Capacity

RefillStamp == clock

\* The seconds, rounded up to ticks, until `needed` units have come in.
WaitFor(needed) == (needed + Rate - 1) \div Rate

DebitUnchecked == TRUE

\* The re-check under the lock, after every sleep.
CanDebit == Refilled >= Cost

\* A caller looks at the bucket: on entry, or when its sleep is over.
AtBucket(c) ==
    \/ stage[c] = "idle"
    \/ stage[c] = "sleeping" /\ clock >= wakeAt[c]

\* An injected timeout ends the request before anything is sent: it is raised
\* outside the retries.
InjectedTimeout(c) ==
    /\ stage' = [stage EXCEPT ![c] = "idle"]
    /\ UNCHANGED <<attempt, sentAt>>

FirstAttempt(c) ==
    /\ stage' = [stage EXCEPT ![c] = "requesting"]
    /\ attempt' = [attempt EXCEPT ![c] = 1]
    /\ sentAt' = [sentAt EXCEPT ![clock] = @ + 1]

\* acquire() finds a token.
Debit(c) ==
    /\ AtBucket(c)
    /\ CanDebit
    /\ tokens' = Refilled - Cost
    /\ lastRefill' = RefillStamp
    /\ granted' = granted + 1
    /\ grantsAt' = [grantsAt EXCEPT ![clock] = @ + 1]
    /\ InjectedTimeout(c) \/ FirstAttempt(c)
    /\ UNCHANGED <<clock, wakeAt>>

\* acquire() finds too little and sleeps until the rest has come in.
Sleep(c) ==
    /\ AtBucket(c)
    /\ ~CanDebit
    /\ tokens' = Refilled
    /\ lastRefill' = RefillStamp
    /\ stage' = [stage EXCEPT ![c] = "sleeping"]
    /\ wakeAt' = [wakeAt EXCEPT ![c] = clock + WaitFor(Cost - Refilled)]
    /\ UNCHANGED <<clock, attempt, granted, grantsAt, sentAt>>

UnlimitedAttempts(c) == TRUE

CanRetry(c) == attempt[c] < MaxAttempts

\* The attempt ends: with an answer or an error that is not retried, or with
\* a timeout, 429 or 503 that is, while attempts are left.
Respond(c) ==
    /\ stage[c] = "requesting"
    /\ \/ /\ stage' = [stage EXCEPT ![c] = "idle"]
          /\ attempt' = [attempt EXCEPT ![c] = 0]
       \/ /\ CanRetry(c)
          /\ stage' = [stage EXCEPT ![c] = "backoff"]
          /\ UNCHANGED attempt
    /\ UNCHANGED <<clock, tokens, lastRefill, wakeAt, granted, grantsAt, sentAt>>

\* The next attempt goes out without going back to the bucket.
Resend(c) ==
    /\ stage[c] = "backoff"
    /\ stage' = [stage EXCEPT ![c] = "requesting"]
    /\ attempt' = [attempt EXCEPT ![c] = @ + 1]
    /\ sentAt' = [sentAt EXCEPT ![clock] = @ + 1]
    /\ UNCHANGED <<clock, tokens, lastRefill, wakeAt, granted, grantsAt>>

Tick ==
    /\ clock < MaxClock
    /\ clock' = clock + 1
    /\ UNCHANGED <<tokens, lastRefill, stage, wakeAt, attempt, granted, grantsAt, sentAt>>

Next == Tick \/ \E c \in Callers : Debit(c) \/ Sleep(c) \/ Respond(c) \/ Resend(c)

Spec == Init /\ [][Next]_vars

------------------------------------------------------------------------------
(* Properties *)

Within(f, s, t) == MapThenSumSet(LAMBDA u : f[u], s .. t)

\* rate_limiter.py:47-52: however many waiters wake together, the tokens
\* handed out and the ones left are never more than came in since the start.
GrantsWithinRefill == granted * Cost + tokens <= Rate * lastRefill

\* Between any two instants the bucket hands out at most a full bucket and
\* what comes in between them.
WindowBounded ==
    \A s, t \in Time : s <= t =>
        Within(grantsAt, s, t) * Cost <= Capacity + Rate * (t - s)

\* A token pays for the attempts of one request and no more: what reaches the
\* gateway is bounded by MaxAttempts times what the bucket let through.
SentPerGrant ==
    Within(sentAt, 0, MaxClock) <= MaxAttempts * granted

\* README.md:162, rate_limiter.py:1-6: the bucket keeps the crowd within the
\* gateway's limit, Capacity requests in the time Capacity takes to come in.
GatewayLimitRespected ==
    \A s \in Time :
        LET e == s + Capacity \div Rate - 1
        IN  e \in Time => Within(sentAt, s, e) * Cost <= Capacity

\* rate_limiter.py:47-69 settles the balance only when somebody looks: to the
\* callers it is a bucket that fills at every tick.  No sleep, however many
\* wake from it and however late, adds or loses a unit.
Stream == INSTANCE TokenStream WITH level <- Refilled, handed <- granted
ImplementsTokenStream == Stream!StreamSpec
==============================================================================
