-------------------------- MODULE RateLimiterProofs --------------------------
(***************************************************************************)
(* For every finite set of callers, capacity, rate, cost and bound on      *)
(* time: the types of RateLimiter, that the tokens handed out plus the     *)
(* ones left never exceed what came in since the start, that no window     *)
(* gets more than a full bucket and its refill, and that a token pays for  *)
(* the attempts of one request.                                            *)
(*                                                                         *)
(* The first invariant is TypeOK, GrantsWithinRefill and                   *)
(* BackoffHasAttempts: the attempts stay in range because a request only   *)
(* backs off when it has one left.  The debit and the sleep both settle    *)
(* the bucket first; Settled says what that does.  The sums over the       *)
(* history are two more inductions over it (Windows and Budget).  Last,    *)
(* the bucket implements TokenStream.                                      *)
(***************************************************************************)
EXTENDS RateLimiter, SumTheorems

BackoffHasAttempts == \A c \in Callers : stage[c] = "backoff" => attempt[c] < MaxAttempts

IInv == TypeOK /\ BackoffHasAttempts /\ GrantsWithinRefill

\* What has come in up to the present is what had come in at the last refill
\* and what came in since.
LEMMA RefillSplits ==
    ASSUME NEW r \in Int, NEW l \in Int, NEW t \in Int
    PROVE  r * l + (t - l) * r = r * t
OBVIOUS

\* Handing out one more token.
LEMMA OneMoreGrant ==
    ASSUME NEW g \in Int, NEW c \in Int
    PROVE  (g + 1) * c = g * c + c
OBVIOUS

\* Settling the bucket keeps the balance within the capacity and, with what
\* was handed out, within what came in.
LEMMA Settled ==
    ASSUME IInv
    PROVE  /\ Refilled \in 0 .. Capacity
           /\ granted * Cost + Refilled <= Rate * clock
<1>1. /\ clock \in Nat /\ lastRefill \in Nat /\ lastRefill <= clock
      /\ tokens \in Nat /\ tokens <= Capacity
      /\ granted \in Nat /\ Capacity \in Nat /\ Rate \in Nat /\ Cost \in Nat
      /\ granted * Cost + tokens <= Rate * lastRefill
    BY BucketAssumption DEF BucketAssumption, IInv, TypeOK, Time, GrantsWithinRefill
<1> DEFINE in == (clock - lastRefill) * Rate
           due == granted * Cost
<1>2. /\ in \in Nat /\ due \in Nat
      /\ Rate * lastRefill \in Nat /\ Rate * clock \in Nat
      /\ Rate * lastRefill + in = Rate * clock
    BY <1>1, RefillSplits
<1>3. Refilled = IF tokens + in < Capacity THEN tokens + in ELSE Capacity
    BY DEF Refilled, UncappedRefill
<1>4. due + tokens <= Rate * lastRefill
    BY <1>1
<1> HIDE DEF in, due
<1>5. due + Refilled <= Rate * clock
    BY <1>1, <1>2, <1>3, <1>4
<1>6. Refilled \in 0 .. Capacity
    BY <1>1, <1>2, <1>3
<1> QED
    BY <1>5, <1>6 DEF due

\* The time to sleep is a whole number of ticks.
LEMMA WaitIsNat ==
    ASSUME NEW n \in Nat, n > 0
    PROVE  WaitFor(n) \in Nat
<1>1. Rate \in Nat /\ Rate > 0
    BY BucketAssumption DEF BucketAssumption
<1>2. n + Rate - 1 \in Nat
    BY <1>1
<1>3. ASSUME NEW x \in Nat PROVE x \div Rate \in Nat
    BY <1>1
<1> QED
    BY <1>2, <1>3 DEF WaitFor

\* The inductive invariant holds at the start, and each action preserves it.
LEMMA InitIInv == Init => IInv
<1> SUFFICES ASSUME Init PROVE IInv
    OBVIOUS
<1>1. TypeOK
    BY BucketAssumption DEF BucketAssumption, Init, TypeOK, Time
<1>2. BackoffHasAttempts
    BY DEF Init, BackoffHasAttempts
<1>3. GrantsWithinRefill
  <2>1. Cost \in Nat /\ Rate \in Nat
      BY BucketAssumption DEF BucketAssumption
  <2>2. 0 * Cost = 0 /\ Rate * 0 = 0
      BY <2>1
  <2> QED
      BY <2>2 DEF Init, GrantsWithinRefill
<1> QED
    BY <1>1, <1>2, <1>3 DEF IInv

LEMMA TickIInv == ASSUME IInv, Tick PROVE IInv'
<1>1. TypeOK'
    BY BucketAssumption DEF BucketAssumption, Tick, IInv, TypeOK, Time
<1>2. BackoffHasAttempts' /\ GrantsWithinRefill'
    BY DEF Tick, IInv, BackoffHasAttempts, GrantsWithinRefill
<1> QED
    BY <1>1, <1>2 DEF IInv

LEMMA DebitIInv == ASSUME IInv, NEW c \in Callers, Debit(c) PROVE IInv'
<1>1. /\ clock \in Time /\ clock' = clock /\ granted \in Nat
      /\ tokens' = Refilled - Cost /\ lastRefill' = clock /\ granted' = granted + 1
      /\ Refilled >= Cost
    BY DEF Debit, InjectedTimeout, FirstAttempt, RefillStamp, CanDebit, IInv, TypeOK
<1>2. Capacity \in Nat /\ Cost \in Nat /\ Rate \in Nat /\ MaxClock \in Nat
      /\ MaxAttempts \in Nat /\ MaxAttempts >= 1
    BY BucketAssumption DEF BucketAssumption
<1>3. Refilled \in 0 .. Capacity /\ granted * Cost + Refilled <= Rate * clock
    BY Settled
<1>4. GrantsWithinRefill'
  <2>1. granted * Cost \in Nat /\ Rate * clock \in Nat
      BY <1>1, <1>2 DEF Time
  <2>2. granted' * Cost = granted * Cost + Cost
      BY <1>1, <1>2, OneMoreGrant
  <2>3. granted' * Cost + tokens' = granted * Cost + Refilled
      BY <1>1, <1>2, <1>3, <2>1, <2>2
  <2> QED
      BY <1>1, <1>3, <2>3 DEF GrantsWithinRefill
<1>5. tokens' \in 0 .. Capacity /\ lastRefill' \in 0 .. clock'
    BY <1>1, <1>2, <1>3 DEF Time
<1>6. BackoffHasAttempts'
    BY DEF Debit, InjectedTimeout, FirstAttempt, IInv, TypeOK, BackoffHasAttempts
<1>7. TypeOK'
    BY <1>1, <1>2, <1>5 DEF Debit, InjectedTimeout, FirstAttempt, IInv, TypeOK
<1> QED
    BY <1>4, <1>6, <1>7 DEF IInv

LEMMA SleepIInv == ASSUME IInv, NEW c \in Callers, Sleep(c) PROVE IInv'
<1>1. /\ clock \in Time /\ clock' = clock /\ granted' = granted
      /\ tokens' = Refilled /\ lastRefill' = clock
      /\ ~ (Refilled >= Cost)
    BY DEF Sleep, RefillStamp, CanDebit, IInv, TypeOK
<1>2. Capacity \in Nat /\ Cost \in Nat /\ MaxClock \in Nat
    BY BucketAssumption DEF BucketAssumption
<1>3. Refilled \in 0 .. Capacity /\ granted * Cost + Refilled <= Rate * clock
    BY Settled
<1>4. GrantsWithinRefill'
    BY <1>1, <1>3 DEF GrantsWithinRefill
<1>5. clock + WaitFor(Cost - Refilled) \in Nat
  <2>1. Cost - Refilled \in Nat /\ Cost - Refilled > 0
      BY <1>1, <1>2, <1>3
  <2> QED
      BY <1>1, <1>2, <2>1, WaitIsNat DEF Time
<1>6. lastRefill' \in 0 .. clock'
    BY <1>1, <1>2 DEF Time
<1>7. BackoffHasAttempts'
    BY DEF Sleep, IInv, TypeOK, BackoffHasAttempts
<1>8. TypeOK'
    BY <1>1, <1>3, <1>5, <1>6 DEF Sleep, IInv, TypeOK
<1> QED
    BY <1>4, <1>7, <1>8 DEF IInv

LEMMA RespondIInv == ASSUME IInv, NEW c \in Callers, Respond(c) PROVE IInv'
<1>1. TypeOK'
    BY BucketAssumption DEF BucketAssumption, Respond, IInv, TypeOK
<1>2. BackoffHasAttempts'
    BY DEF Respond, CanRetry, IInv, TypeOK, BackoffHasAttempts
<1>3. GrantsWithinRefill'
    BY DEF Respond, IInv, GrantsWithinRefill
<1> QED
    BY <1>1, <1>2, <1>3 DEF IInv

LEMMA ResendIInv == ASSUME IInv, NEW c \in Callers, Resend(c) PROVE IInv'
<1>1. attempt[c] \in Nat /\ attempt[c] < MaxAttempts /\ MaxAttempts \in Nat
    BY BucketAssumption DEF BucketAssumption, Resend, IInv, TypeOK, BackoffHasAttempts
<1>2. attempt' \in [Callers -> 0 .. MaxAttempts]
    BY <1>1 DEF Resend, IInv, TypeOK
<1>3. TypeOK'
    BY <1>2 DEF Resend, IInv, TypeOK
<1>4. BackoffHasAttempts'
    BY DEF Resend, IInv, TypeOK, BackoffHasAttempts
<1>5. GrantsWithinRefill'
    BY DEF Resend, IInv, GrantsWithinRefill
<1> QED
    BY <1>3, <1>4, <1>5 DEF IInv

LEMMA NextIInv == IInv /\ [Next]_vars => IInv'
<1> SUFFICES ASSUME IInv, [Next]_vars PROVE IInv'
    OBVIOUS
<1>1. CASE UNCHANGED vars
    BY <1>1 DEF vars, IInv, TypeOK, BackoffHasAttempts, GrantsWithinRefill
<1>2. CASE Tick
    BY <1>2, TickIInv
<1>3. ASSUME NEW c \in Callers, Debit(c) \/ Sleep(c) \/ Respond(c) \/ Resend(c)
      PROVE  IInv'
    BY <1>3, DebitIInv, SleepIInv, RespondIInv, ResendIInv
<1> QED
    BY <1>1, <1>2, <1>3 DEF Next

\* Every reachable state satisfies the inductive invariant.
THEOREM Inductive == Spec => []IInv
BY InitIInv, NextIInv, PTL DEF Spec

\* Every variable keeps its type: the balance stays between 0 and the capacity
\* although several waiters wake for the same tokens, and no request makes more
\* than MaxAttempts attempts.
THEOREM TypeCorrect == Spec => []TypeOK
<1>1. IInv => TypeOK
    BY DEF IInv
<1> QED
    BY <1>1, Inductive, PTL

\* execution/rate_limiter.py:47-52: no token is handed out twice.
THEOREM GrantsAlwaysWithinRefill == Spec => []GrantsWithinRefill
<1>1. IInv => GrantsWithinRefill
    BY DEF IInv
<1> QED
    BY <1>1, Inductive, PTL

------------------------------------------------------------------------------
(* Windows of the history *)

\* Nothing was handed out since the last refill.
Quiet == \A u \in Time : u > lastRefill => grantsAt[u] = 0

\* What a window that began before the last refill got and what is left of the
\* bucket are no more than a full bucket and what came in until that refill.
Credit ==
    \A s, t \in Time : s <= lastRefill /\ lastRefill <= t =>
        Within(grantsAt, s, t) * Cost + tokens <= Capacity + Rate * (lastRefill - s)

Windows == Quiet /\ Credit /\ WindowBounded

LEMMA WithinIsSum ==
    ASSUME NEW f, NEW s, NEW t
    PROVE  Within(f, s, t) = SumOf(f, s .. t)
BY DEF Within, SumOf, MapThenSumSet, MapThenFoldSet

LEMMA Interval ==
    ASSUME NEW s \in Time, NEW t \in Time
    PROVE  IsFiniteSet(s .. t) /\ s .. t \subseteq Time /\ \A u \in s .. t : u >= s
<1>1. s \in Int /\ t \in Int /\ MaxClock \in Nat
    BY BucketAssumption DEF BucketAssumption, Time
<1>2. IsFiniteSet(s .. t)
    BY <1>1, FS_Interval
<1>3. s .. t \subseteq Time /\ \A u \in s .. t : u >= s
    BY <1>1 DEF Time
<1> QED
    BY <1>2, <1>3

LEMMA WithinFacts ==
    ASSUME NEW f \in [Time -> Nat], NEW s \in Time, NEW t \in Time
    PROVE  /\ Within(f, s, t) \in Nat
           /\ (\A u \in Time : u >= s => f[u] = 0) => Within(f, s, t) = 0
<1>2. IsFiniteSet(s .. t) /\ s .. t \subseteq Time /\ \A u \in s .. t : u >= s
    BY Interval
<1>3. SumOf(f, s .. t) \in Nat
    BY <1>2, SumNat
<1>4. ASSUME \A u \in Time : u >= s => f[u] = 0
      PROVE  SumOf(f, s .. t) = 0
  <2>1. \A u \in s .. t : f[u] = 0
      BY <1>2, <1>4
  <2> QED
      BY <1>2, <2>1, SumZero
<1> QED
    BY <1>3, <1>4, WithinIsSum

\* One more at some tick.
LEMMA WithinOneMore ==
    ASSUME NEW f \in [Time -> Nat], NEW n \in Time, NEW s \in Time, NEW t \in Time
    PROVE  Within([f EXCEPT ![n] = @ + 1], s, t) =
               Within(f, s, t) + (IF s <= n /\ n <= t THEN 1 ELSE 0)
<1> DEFINE g == [f EXCEPT ![n] = @ + 1]
<1>1. MaxClock \in Nat
    BY BucketAssumption DEF BucketAssumption
<1>2. IsFiniteSet(s .. t) /\ s .. t \subseteq Time
    BY Interval
<1>3. \A u \in s .. t : f[u] \in Int /\ g[u] \in Int
    BY <1>2
<1>4. g[n] = f[n] + 1 /\ \A u \in Time \ {n} : f[u] = g[u]
    OBVIOUS
<1>5. SumOf(f, s .. t) \in Int
    BY <1>2, <1>3, SumInt
<1>6. CASE n \in s .. t
  <2>1. \A u \in (s .. t) \ {n} : f[u] = g[u]
      BY <1>2, <1>4
  <2> HIDE DEF g
  <2>2. SumOf(g, s .. t) = SumOf(f, s .. t) - f[n] + g[n]
      BY <1>2, <1>3, <1>6, <2>1, SumChange
  <2>3. SumOf(g, s .. t) = SumOf(f, s .. t) + 1
      BY <1>3, <1>4, <1>5, <1>6, <2>2
  <2>4. s <= n /\ n <= t
      BY <1>1, <1>6 DEF Time
  <2> QED
      BY <2>3, <2>4, WithinIsSum DEF g
<1>7. CASE n \notin s .. t
  <2>1. \A u \in s .. t : f[u] = g[u]
      BY <1>2, <1>4, <1>7
  <2> HIDE DEF g
  <2>2. SumOf(g, s .. t) = SumOf(f, s .. t)
      BY <1>2, <2>1, SumSame
  <2>3. ~ (s <= n /\ n <= t)
      BY <1>1, <1>7 DEF Time
  <2> QED
      BY <1>5, <2>2, <2>3, WithinIsSum DEF g
<1> QED
    BY <1>6, <1>7

\* The same as Credit once the bucket is settled: whether the window began
\* before the last refill, or after it and got nothing.
LEMMA CreditSettled ==
    ASSUME IInv, Windows, NEW s \in Time, NEW t \in Time, s <= clock, clock <= t
    PROVE  Within(grantsAt, s, t) * Cost + Refilled <= Capacity + Rate * (clock - s)
<1>1. /\ clock \in Nat /\ lastRefill \in Nat /\ lastRefill <= clock /\ s \in Nat /\ t \in Nat
      /\ tokens \in Nat /\ Capacity \in Nat /\ Rate \in Nat /\ Cost \in Nat
    BY BucketAssumption DEF BucketAssumption, IInv, TypeOK, Time
<1>2. Refilled \in Nat /\ Refilled <= Capacity
    BY <1>1, Settled
<1>3. Within(grantsAt, s, t) \in Nat
    BY WithinFacts DEF IInv, TypeOK
<1> DEFINE got == Within(grantsAt, s, t) * Cost
           in == (clock - lastRefill) * Rate
<1>4. got \in Nat /\ in \in Nat
    BY <1>1, <1>3
<1>5. CASE s <= lastRefill
  <2>1. Rate * (lastRefill - s) + in = Rate * (clock - s)
    <3>1. \A r, l, u, c \in Int : r * (l - u) + (c - l) * r = r * (c - u)
        OBVIOUS
    <3> QED
        BY <1>1, <3>1
  <2>2. got + tokens <= Capacity + Rate * (lastRefill - s)
      BY <1>1, <1>5 DEF Windows, Credit
  <2>3. Refilled <= tokens + in
    <3>1. tokens + in \in Nat
        BY <1>1, <1>4
    <3> QED
        BY <1>1, <3>1 DEF Refilled, UncappedRefill
  <2>4. Rate * (lastRefill - s) \in Int /\ Rate * (clock - s) \in Int
      BY <1>1
  <2> HIDE DEF got, in
  <2>5. got + Refilled <= Capacity + Rate * (clock - s)
      BY <1>1, <1>2, <1>4, <2>1, <2>2, <2>3, <2>4
  <2> QED
      BY <2>5 DEF got
<1>6. CASE s > lastRefill
  <2>1. Within(grantsAt, s, t) = 0
    <3>1. \A u \in Time : u >= s => grantsAt[u] = 0
        BY <1>1, <1>6 DEF Windows, Quiet, Time
    <3> QED
        BY <3>1, WithinFacts DEF IInv, TypeOK
  <2>2. 0 * Cost = 0 /\ Rate * (clock - s) \in Nat
      BY <1>1
  <2> QED
      BY <1>1, <1>2, <2>1, <2>2
<1> QED
    BY <1>1, <1>5, <1>6

LEMMA InitWindows == Init => Windows
<1> SUFFICES ASSUME Init PROVE Windows
    OBVIOUS
<1>1. Capacity \in Nat /\ Rate \in Nat /\ Cost \in Nat /\ MaxClock \in Nat
    BY BucketAssumption DEF BucketAssumption
<1>2. grantsAt \in [Time -> Nat] /\ \A u \in Time : grantsAt[u] = 0
    BY DEF Init
<1>3. \A s, t \in Time : Within(grantsAt, s, t) = 0
    BY <1>2, WithinFacts
<1>4. 0 * Cost = 0 /\ \A n \in Nat : Rate * n \in Nat
    BY <1>1
<1>5. Quiet
    BY <1>2 DEF Quiet
<1>6. Credit
    BY <1>1, <1>3, <1>4 DEF Init, Credit, Time
<1>7. WindowBounded
  <2> SUFFICES ASSUME NEW s \in Time, NEW t \in Time, s <= t
               PROVE  Within(grantsAt, s, t) * Cost <= Capacity + Rate * (t - s)
      BY DEF WindowBounded
  <2>1. t - s \in Nat
      BY <1>1 DEF Time
  <2> QED
      BY <1>1, <1>3, <1>4, <2>1
<1> QED
    BY <1>5, <1>6, <1>7 DEF Windows

\* Time passes, or a request goes on: neither touches the bucket.
LEMMA WindowsKept ==
    ASSUME Windows, UNCHANGED <<tokens, lastRefill, grantsAt>>
    PROVE  Windows'
BY DEF Windows, Quiet, Credit, WindowBounded

LEMMA SleepWindows == ASSUME IInv, Windows, NEW c \in Callers, Sleep(c) PROVE Windows'
<1>1. /\ tokens' = Refilled /\ lastRefill' = clock /\ clock \in Time
      /\ grantsAt' = grantsAt
    BY DEF Sleep, RefillStamp, IInv, TypeOK
<1>2. lastRefill \in Nat /\ lastRefill <= clock /\ clock \in Nat
    BY BucketAssumption DEF BucketAssumption, IInv, TypeOK, Time
<1>3. Quiet'
    BY <1>1, <1>2 DEF Windows, Quiet, Time
<1>4. Credit'
    BY <1>1, CreditSettled DEF Credit
<1>5. WindowBounded'
    BY <1>1 DEF Windows, WindowBounded
<1> QED
    BY <1>3, <1>4, <1>5 DEF Windows

LEMMA DebitWindows == ASSUME IInv, Windows, NEW c \in Callers, Debit(c) PROVE Windows'
<1>1. /\ tokens' = Refilled - Cost /\ lastRefill' = clock /\ clock \in Time
      /\ grantsAt' = [grantsAt EXCEPT ![clock] = @ + 1] /\ grantsAt \in [Time -> Nat]
    BY DEF Debit, RefillStamp, IInv, TypeOK
<1>2. /\ lastRefill \in Nat /\ lastRefill <= clock /\ clock \in Nat
      /\ Capacity \in Nat /\ Rate \in Nat /\ Cost \in Nat
    BY BucketAssumption DEF BucketAssumption, IInv, TypeOK, Time
<1>3. Refilled \in Nat /\ Refilled >= Cost
    BY <1>2, Settled DEF Debit, CanDebit
<1>4. Quiet'
    BY <1>1, <1>2 DEF Windows, Quiet, Time
<1>5. ASSUME NEW s \in Time, NEW t \in Time
      PROVE  /\ Within(grantsAt, s, t) \in Nat
             /\ Within(grantsAt', s, t) =
                   Within(grantsAt, s, t) + (IF s <= clock /\ clock <= t THEN 1 ELSE 0)
    BY <1>1, WithinFacts, WithinOneMore
\* A window around the present gets one token more, which it leaves less.
<1>6. ASSUME NEW s \in Time, NEW t \in Time, s <= clock, clock <= t
      PROVE  /\ Within(grantsAt', s, t) * Cost + tokens' <= Capacity + Rate * (clock - s)
             /\ Within(grantsAt', s, t) * Cost <= Capacity + Rate * (t - s)
  <2>1. Within(grantsAt, s, t) * Cost + Refilled <= Capacity + Rate * (clock - s)
      BY <1>6, CreditSettled
  <2>2. Within(grantsAt', s, t) * Cost = Within(grantsAt, s, t) * Cost + Cost
      BY <1>2, <1>5, <1>6, OneMoreGrant
  <2>3. Within(grantsAt, s, t) * Cost \in Nat
      BY <1>2, <1>5
  <2>4. s \in Nat /\ t \in Nat
      BY BucketAssumption DEF BucketAssumption, Time
  <2>5. Rate * (clock - s) \in Int /\ Rate * (t - s) \in Int
        /\ Rate * (clock - s) <= Rate * (t - s)
    <3>1. \A r, k \in Nat, m \in Int : r * (m + k) = r * m + r * k /\ r * k >= 0
        OBVIOUS
    <3>2. t - s = (clock - s) + (t - clock) /\ t - clock \in Nat /\ clock - s \in Int
        BY <1>2, <1>6, <2>4
    <3>3. Rate * (t - s) = Rate * (clock - s) + Rate * (t - clock) /\ Rate * (t - clock) >= 0
        BY <1>2, <3>1, <3>2
    <3> QED
        BY <1>2, <2>4, <3>3
  <2> QED
      BY <1>1, <1>2, <1>3, <2>1, <2>2, <2>3, <2>5
<1>7. Credit'
    BY <1>1, <1>6 DEF Credit
<1>8. WindowBounded'
  <2> SUFFICES ASSUME NEW s \in Time, NEW t \in Time, s <= t
               PROVE  Within(grantsAt', s, t) * Cost <= Capacity + Rate * (t - s)
      BY DEF WindowBounded
  <2>1. CASE s <= clock /\ clock <= t
      BY <1>6, <2>1
  <2>2. CASE ~ (s <= clock /\ clock <= t)
    <3>1. Within(grantsAt', s, t) = Within(grantsAt, s, t)
        BY <1>5, <2>2
    <3> QED
        BY <3>1 DEF Windows, WindowBounded
  <2> QED
      BY <2>1, <2>2
<1> QED
    BY <1>4, <1>7, <1>8 DEF Windows

LEMMA NextWindows == IInv /\ Windows /\ [Next]_vars => Windows'
<1> SUFFICES ASSUME IInv, Windows, [Next]_vars PROVE Windows'
    OBVIOUS
<1>1. CASE UNCHANGED vars \/ Tick \/ \E c \in Callers : Respond(c) \/ Resend(c)
  <2>1. UNCHANGED <<tokens, lastRefill, grantsAt>>
      BY <1>1 DEF vars, Tick, Respond, Resend
  <2> QED
      BY <2>1, WindowsKept
<1>2. CASE \E c \in Callers : Debit(c) \/ Sleep(c)
    BY <1>2, DebitWindows, SleepWindows
<1> QED
    BY <1>1, <1>2 DEF Next

\* execution/rate_limiter.py:57-72: between any two instants the bucket hands
\* out at most a full bucket and what comes in between them, however its waiters
\* sleep and wake.
THEOREM WindowsAreBounded == Spec => []WindowBounded
<1>1. Spec => []Windows
    BY InitWindows, NextWindows, Inductive, PTL DEF Spec
<1>2. Windows => WindowBounded
    BY DEF Windows
<1> QED
    BY <1>1, <1>2, PTL

------------------------------------------------------------------------------
(* Attempts *)

\* The attempts that the requests under way have left.
Left == [c \in Callers |->
            IF stage[c] \in {"requesting", "backoff"} THEN MaxAttempts - attempt[c] ELSE 0]

\* What was sent and what is still to be sent was paid for.
Budget == SumOf(sentAt, Time) + SumOf(Left, Callers) <= MaxAttempts * granted

LEMMA BudgetTypes ==
    ASSUME TypeOK
    PROVE  /\ IsFiniteSet(Time) /\ IsFiniteSet(Callers)
           /\ Left \in [Callers -> Nat]
           /\ SumOf(sentAt, Time) \in Nat /\ SumOf(Left, Callers) \in Nat
           /\ MaxAttempts \in Nat /\ MaxAttempts * granted \in Nat
<1>1. MaxAttempts \in Nat /\ MaxClock \in Nat /\ IsFiniteSet(Callers)
    BY BucketAssumption DEF BucketAssumption
<1>2. IsFiniteSet(Time)
    BY <1>1, FS_Interval DEF Time
<1>3. Left \in [Callers -> Nat]
    BY <1>1 DEF Left, TypeOK
<1>4. SumOf(Left, Callers) \in Nat
    BY <1>1, <1>3, SumNat
<1>5. SumOf(sentAt, Time) \in Nat
    BY <1>2, SumNat DEF TypeOK
<1>6. MaxAttempts * granted \in Nat
    BY <1>1 DEF TypeOK
<1> QED
    BY <1>1, <1>2, <1>3, <1>4, <1>5, <1>6

LEMMA ProductIsNat == \A m, n \in Nat : m * n \in Nat
OBVIOUS

LEMMA BudgetIsSent == ASSUME TypeOK, Budget PROVE SentPerGrant
<1>1. Within(sentAt, 0, MaxClock) = SumOf(sentAt, Time)
    BY WithinIsSum DEF Time
<1> QED
    BY <1>1, BudgetTypes DEF Budget, SentPerGrant

\* A step that leaves every caller but one alone, and sends one request if any.
LEMMA BudgetStep ==
    ASSUME TypeOK, TypeOK', Budget, NEW c \in Callers, NEW n \in {0, 1},
           \A d \in Callers \ {c} : stage'[d] = stage[d] /\ attempt'[d] = attempt[d],
           \/ n = 0 /\ sentAt' = sentAt
           \/ n = 1 /\ sentAt' = [sentAt EXCEPT ![clock] = @ + 1],
           Left'[c] + n + MaxAttempts * granted <= Left[c] + MaxAttempts * granted'
    PROVE  Budget'
<1>1. /\ IsFiniteSet(Time) /\ IsFiniteSet(Callers)
      /\ Left \in [Callers -> Nat] /\ Left' \in [Callers -> Nat]
      /\ SumOf(sentAt, Time) \in Nat /\ SumOf(Left, Callers) \in Nat
      /\ MaxAttempts * granted \in Nat /\ MaxAttempts * granted' \in Nat
  <2>1. MaxAttempts \in Nat
      BY BudgetTypes
  <2>2. Left' \in [Callers -> Nat]
      BY <2>1 DEF Left, TypeOK
  <2>3. MaxAttempts * granted' \in Nat
    <3>1. granted' \in Nat
        BY DEF TypeOK
    <3> QED
        BY <2>1, <3>1, ProductIsNat, Zenon
  <2> QED
      BY <2>2, <2>3, BudgetTypes
<1>2. \A d \in Callers \ {c} : Left'[d] = Left[d]
    BY DEF Left
<1>3. SumOf(Left', Callers) = SumOf(Left, Callers) - Left[c] + Left'[c]
  <2>1. \A d \in Callers : Left[d] \in Int /\ Left'[d] \in Int
      BY <1>1
  <2> QED
      BY <1>1, <1>2, <2>1, SumChange
<1>4. SumOf(sentAt', Time) = SumOf(sentAt, Time) + n
  <2>1. CASE sentAt' = sentAt /\ n = 0
      BY <1>1, <2>1
  <2>2. CASE sentAt' = [sentAt EXCEPT ![clock] = @ + 1] /\ n = 1
    <3>1. clock \in Time /\ sentAt \in [Time -> Nat] /\ sentAt' \in [Time -> Nat]
        BY DEF TypeOK
    <3>2. /\ \A u \in Time : sentAt[u] \in Int /\ sentAt'[u] \in Int
          /\ \A u \in Time \ {clock} : sentAt[u] = sentAt'[u]
          /\ sentAt'[clock] = sentAt[clock] + 1
        BY <2>2, <3>1
    <3>3. SumOf(sentAt', Time) = SumOf(sentAt, Time) - sentAt[clock] + sentAt'[clock]
        BY <1>1, <3>1, <3>2, SumChange
    <3> QED
        BY <1>1, <2>2, <3>1, <3>2, <3>3
  <2> QED
      BY <2>1, <2>2
<1>5. Left[c] \in Nat /\ Left'[c] \in Nat
    BY <1>1
<1>6. SumOf(sentAt', Time) + SumOf(Left', Callers) <= MaxAttempts * granted'
    BY <1>1, <1>3, <1>4, <1>5 DEF Budget
<1> QED
    BY <1>6 DEF Budget

LEMMA InitBudget == Init => Budget
<1> SUFFICES ASSUME Init PROVE Budget
    OBVIOUS
<1>1. TypeOK
    BY InitIInv DEF IInv
<1>2. SumOf(sentAt, Time) = 0
    BY <1>1, BudgetTypes, SumZero DEF Init
<1>3. SumOf(Left, Callers) = 0
  <2>1. \A c \in Callers : Left[c] = 0
      BY DEF Init, Left
  <2> QED
      BY <1>1, <2>1, BudgetTypes, SumZero
<1>4. MaxAttempts * granted = 0
    BY <1>1, BudgetTypes DEF Init
<1> QED
    BY <1>2, <1>3, <1>4 DEF Budget

LEMMA CallerBudget ==
    ASSUME IInv, IInv', Budget, NEW c \in Callers,
           Debit(c) \/ Sleep(c) \/ Respond(c) \/ Resend(c)
    PROVE  Budget'
<1>1. TypeOK /\ TypeOK' /\ MaxAttempts \in Nat /\ MaxAttempts * granted \in Nat
    BY BudgetTypes DEF IInv
<1>2. /\ attempt \in [Callers -> 0 .. MaxAttempts] /\ granted \in Nat
      /\ stage \in [Callers -> {"idle", "sleeping", "requesting", "backoff"}]
    BY DEF IInv, TypeOK
<1>3. CASE Debit(c)
  <2>1. MaxAttempts * granted' = MaxAttempts * granted + MaxAttempts
    <3>1. \A m, g \in Int : m * (g + 1) = m * g + m
        OBVIOUS
    <3> QED
        BY <1>1, <1>2, <1>3, <3>1 DEF Debit
  <2>2. stage[c] \in {"idle", "sleeping"}
      BY <1>3 DEF Debit, AtBucket
  <2>3. CASE InjectedTimeout(c)
    <3>1. Left[c] = 0 /\ Left'[c] = 0
        BY <1>2, <2>2, <2>3 DEF Left, InjectedTimeout
    <3>2. sentAt' = sentAt /\ \A d \in Callers \ {c} : stage'[d] = stage[d] /\ attempt'[d] = attempt[d]
        BY <1>2, <2>3 DEF InjectedTimeout
    <3>3. Left'[c] + 0 + MaxAttempts * granted <= Left[c] + MaxAttempts * granted'
        BY <1>1, <2>1, <3>1
    <3> QED
        BY <1>1, <3>2, <3>3, BudgetStep
  <2>4. CASE FirstAttempt(c)
    <3>1. Left[c] = 0 /\ Left'[c] = MaxAttempts - 1
        BY <1>2, <2>2, <2>4 DEF Left, FirstAttempt
    <3>2. /\ sentAt' = [sentAt EXCEPT ![clock] = @ + 1]
          /\ \A d \in Callers \ {c} : stage'[d] = stage[d] /\ attempt'[d] = attempt[d]
        BY <1>2, <2>4 DEF FirstAttempt
    <3>3. Left'[c] + 1 + MaxAttempts * granted <= Left[c] + MaxAttempts * granted'
        BY <1>1, <2>1, <3>1
    <3> QED
        BY <1>1, <3>2, <3>3, BudgetStep
  <2> QED
      BY <1>3, <2>3, <2>4 DEF Debit
<1>4. CASE Sleep(c)
  <2>1. Left[c] = 0 /\ Left'[c] = 0
      BY <1>2, <1>4 DEF Left, Sleep, AtBucket
  <2>2. /\ sentAt' = sentAt /\ granted' = granted
        /\ \A d \in Callers \ {c} : stage'[d] = stage[d] /\ attempt'[d] = attempt[d]
      BY <1>2, <1>4 DEF Sleep
  <2>3. Left'[c] + 0 + MaxAttempts * granted <= Left[c] + MaxAttempts * granted'
      BY <1>1, <2>1, <2>2
  <2> QED
      BY <1>1, <2>2, <2>3, BudgetStep
<1>5. CASE Respond(c)
  <2>1. Left'[c] <= Left[c] /\ Left[c] \in Nat /\ Left'[c] \in Nat
      BY <1>1, <1>2, <1>5 DEF Left, Respond
  <2>2. /\ sentAt' = sentAt /\ granted' = granted
        /\ \A d \in Callers \ {c} : stage'[d] = stage[d] /\ attempt'[d] = attempt[d]
      BY <1>2, <1>5 DEF Respond
  <2>3. Left'[c] + 0 + MaxAttempts * granted <= Left[c] + MaxAttempts * granted'
      BY <1>1, <2>1, <2>2
  <2> QED
      BY <1>1, <2>2, <2>3, BudgetStep
<1>6. CASE Resend(c)
  <2>1. Left'[c] + 1 = Left[c] /\ Left[c] \in Int /\ Left'[c] \in Int
      BY <1>1, <1>2, <1>6 DEF Left, Resend
  <2>2. /\ sentAt' = [sentAt EXCEPT ![clock] = @ + 1] /\ granted' = granted
        /\ \A d \in Callers \ {c} : stage'[d] = stage[d] /\ attempt'[d] = attempt[d]
      BY <1>2, <1>6 DEF Resend
  <2>3. Left'[c] + 1 + MaxAttempts * granted <= Left[c] + MaxAttempts * granted'
      BY <1>1, <2>1, <2>2
  <2> QED
      BY <1>1, <2>2, <2>3, BudgetStep
<1> QED
    BY <1>3, <1>4, <1>5, <1>6

LEMMA NextBudget == IInv /\ IInv' /\ Budget /\ [Next]_vars => Budget'
<1> SUFFICES ASSUME IInv, IInv', Budget, [Next]_vars PROVE Budget'
    OBVIOUS
<1>1. CASE UNCHANGED vars \/ Tick
  <2>1. UNCHANGED <<sentAt, granted, stage, attempt>>
      BY <1>1 DEF vars, Tick
  <2> QED
      BY <2>1 DEF Budget, Left, SumOf, MapThenSumSet, MapThenFoldSet
<1>2. CASE \E c \in Callers : Debit(c) \/ Sleep(c) \/ Respond(c) \/ Resend(c)
    BY <1>2, CallerBudget
<1> QED
    BY <1>1, <1>2 DEF Next

\* melisim_client.py:133-144: a token pays for the attempts of one request, and
\* what reaches the gateway is at most MaxAttempts for each token handed out.
THEOREM SentWithinGrants == Spec => []SentPerGrant
<1>1. Spec => []Budget
    BY InitBudget, NextBudget, Inductive, PTL DEF Spec
<1>2. IInv /\ Budget => SentPerGrant
    BY BudgetIsSent DEF IInv
<1> QED
    BY <1>1, <1>2, Inductive, PTL

------------------------------------------------------------------------------
(* The bucket implements TokenStream *)

\* A tick brings one tick's units to the balance as it would be settled.
LEMMA TickComesIn == ASSUME IInv, Tick PROVE Stream!ComeIn
<1>1. /\ clock \in Nat /\ lastRefill \in Nat /\ lastRefill <= clock
      /\ tokens \in Nat /\ Capacity \in Nat /\ Rate \in Nat
      /\ clock' = clock + 1 /\ tokens' = tokens /\ lastRefill' = lastRefill
      /\ granted' = granted
    BY BucketAssumption DEF BucketAssumption, IInv, TypeOK, Time, Tick
<1> DEFINE in == (clock - lastRefill) * Rate
           next == (clock' - lastRefill') * Rate
<1>2. next = in + Rate /\ in \in Nat
    BY <1>1
<1>3. /\ Refilled = IF tokens + in < Capacity THEN tokens + in ELSE Capacity
      /\ Refilled' = IF tokens + next < Capacity THEN tokens + next ELSE Capacity
    BY <1>1 DEF Refilled, UncappedRefill
<1> HIDE DEF in, next
<1>4. Refilled' = Stream!Lower(Refilled + Rate, Capacity)
    BY <1>1, <1>2, <1>3 DEF Stream!Lower
<1> QED
    BY <1>1, <1>4 DEF Stream!ComeIn

\* A balance that was settled now is what it would be settled to.
LEMMA SettledNow ==
    ASSUME IInv, clock' = clock, lastRefill' = clock, tokens' \in Int, tokens' <= Capacity
    PROVE  Refilled' = tokens'
<1>1. clock \in Nat /\ Capacity \in Nat /\ Rate \in Nat
    BY BucketAssumption DEF BucketAssumption, IInv, TypeOK, Time
<1> DEFINE in == (clock' - lastRefill') * Rate
<1>2. in = 0
    BY <1>1
<1>3. Refilled' = IF tokens' + in < Capacity THEN tokens' + in ELSE Capacity
    BY DEF Refilled, UncappedRefill
<1> HIDE DEF in
<1>4. PICK b \in Int : b = tokens' /\ b <= Capacity
    OBVIOUS
<1>5. b + in = b
    BY <1>2
<1>6. Refilled' = IF b < Capacity THEN b ELSE Capacity
    BY <1>3, <1>4, <1>5
<1> QED
    BY <1>1, <1>4, <1>6

\* Every step of the bucket is a step of the stream or leaves it alone.
LEMMA StepRefines == IInv /\ [Next]_vars => [Stream!StreamNext]_(Stream!streamVars)
<1> SUFFICES ASSUME IInv, [Next]_vars
             PROVE  Stream!StreamNext \/ UNCHANGED Stream!streamVars
    OBVIOUS
<1>1. ASSUME Tick PROVE Stream!StreamNext
    BY <1>1, TickComesIn DEF Stream!StreamNext
<1>2. ASSUME NEW c \in Callers, Debit(c) PROVE Stream!StreamNext
  <2>1. /\ clock' = clock /\ lastRefill' = clock /\ tokens' = Refilled - Cost
        /\ granted' = granted + 1 /\ Refilled >= Cost
      BY <1>2 DEF Debit, RefillStamp, CanDebit
  <2>2. Refilled' = Refilled - Cost
    <3>1. Refilled - Cost \in Int /\ Refilled - Cost <= Capacity
        BY Settled, BucketAssumption DEF BucketAssumption
    <3> QED
        BY <2>1, <3>1, SettledNow
  <2> QED
      BY <2>1, <2>2 DEF Stream!StreamNext, Stream!HandOut
<1>3. ASSUME NEW c \in Callers, Sleep(c) PROVE UNCHANGED Stream!streamVars
  <2>1. /\ clock' = clock /\ lastRefill' = clock /\ tokens' = Refilled
        /\ granted' = granted
      BY <1>3 DEF Sleep, RefillStamp
  <2>2. Refilled' = Refilled
    <3>1. Refilled \in Int /\ Refilled <= Capacity
        BY Settled, BucketAssumption DEF BucketAssumption
    <3> QED
        BY <2>1, <3>1, SettledNow
  <2> QED
      BY <2>1, <2>2 DEF Stream!streamVars
<1>4. ASSUME UNCHANGED <<clock, tokens, lastRefill, granted>>
      PROVE  UNCHANGED Stream!streamVars
    BY <1>4 DEF Stream!streamVars, Refilled, UncappedRefill
<1>5. ASSUME NEW c \in Callers, Respond(c) \/ Resend(c)
      PROVE  UNCHANGED <<clock, tokens, lastRefill, granted>>
    BY <1>5 DEF Respond, Resend
<1>6. ASSUME UNCHANGED vars PROVE UNCHANGED <<clock, tokens, lastRefill, granted>>
    BY <1>6 DEF vars
<1> QED
    BY <1>1, <1>2, <1>3, <1>4, <1>5, <1>6 DEF Next

\* The balance that is settled when somebody looks behaves as a bucket that
\* fills all the time (rate_limiter.py:47-69), for any callers, rates and
\* order of sleeps.
THEOREM Refinement == Spec => ImplementsTokenStream
<1>1. Init => Stream!StreamInit
  <2> SUFFICES ASSUME Init PROVE Stream!StreamInit
      OBVIOUS
  <2>1. Capacity \in Nat /\ Rate \in Nat /\ (0 - 0) * Rate = 0
      BY BucketAssumption DEF BucketAssumption
  <2> QED
      BY <2>1 DEF Init, Stream!StreamInit, Refilled, UncappedRefill
<1> QED
    BY <1>1, Inductive, StepRefines, PTL DEF Spec, ImplementsTokenStream, Stream!StreamSpec
==============================================================================
