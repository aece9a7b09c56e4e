-------------------------- MODULE SessionRunProofs ---------------------------
(***************************************************************************)
(* What the publisher and the scheduler promise together, for any number   *)
(* of workers, sessions and nodes, and what the live floor shows of it.    *)
(* The induction is in four layers: the publisher's lock and producer with *)
(* where each task is (Coherent), then what the topics hold of each        *)
(* session (Ordered), then the rows, and beside them what the tracker has  *)
(* been told of each run (Told) and what its counters add up to (Matched). *)
(***************************************************************************)
EXTENDS SessionRun, SumTheorems

\* One task connects at a time, and while it does there is nothing to send
\* with; who sends has a producer; the producer that is open is the one held.
PublisherCoherent ==
    /\ open = IF producer THEN 1 ELSE 0
    /\ \A t, u \in lock : t = u
    /\ \A t \in Tasks : call[t] \in {"starting", "closing"} <=> t \in lock
    /\ lock # {} => enabled /\ ~producer
    /\ \A t \in Tasks : call[t] = "starting" => ~degraded
    /\ \A t \in Tasks : call[t] = "closing" => degraded
    /\ \A t \in Tasks : call[t] = "waiting" => enabled
    /\ \A t \in Tasks : call[t] = "inFlight" => producer
    /\ \A t \in Tasks : call[t] = "stopping" => producer

\* A worker is in a call only where run_one publishes.
CallsCoherent ==
    /\ \A w \in Workers :
          /\ call[w] # "out" => at[w] \in Publishing
          /\ call[w] # "stopping"
          /\ at[w] \notin {"idle", "done"} => session[w] >= 1
    /\ call[Main] # "inFlight"

\* The process starts before its workers and stops after them.
PhaseCoherent ==
    /\ phase = "boot" => \A w \in Workers : at[w] = "idle" /\ w \notin cancelled
    /\ phase \in {"running", "draining", "cancelling"} => call[Main] = "out"
    /\ phase \in {"stopping", "down"} => \A w \in Workers : at[w] = "done"
    /\ phase = "stopping" => call[Main] = "stopping"
    /\ phase = "down" => call[Main] = "out" /\ ~producer
    /\ call[Main] = "stopping" => phase = "stopping"

Coherent == PublisherCoherent /\ CallsCoherent /\ PhaseCoherent

LEMMA MainIsATask == Main \in Tasks /\ Workers \subseteq Tasks
  BY DEF Tasks

LEMMA InitCoherent == Init => TypeOK /\ Coherent
<1> SUFFICES ASSUME Init PROVE TypeOK /\ Coherent
    OBVIOUS
<1>1. TypeOK
  <2>1. PublisherTypeOK
    BY DEF Init, PublisherInit, PublisherTypeOK
  <2>2. TrackerTypeOK
    BY DEF Init, TrackerInit, TrackerTypeOK, IdleSeat, Seat, Stations, Entrance
  <2> QED
    BY <2>1, <2>2, SessionAssumption DEF SessionAssumption, Init, TypeOK, Publishing, Live
<1>2. Coherent
    BY DEF Init, PublisherInit, Coherent, PublisherCoherent, CallsCoherent, PhaseCoherent, Tasks
<1> QED
    BY <1>1, <1>2

------------------------------------------------------------------------------
(* The publisher *)

PublisherOK == PublisherTypeOK /\ PublisherCoherent

\* What a step of one caller leaves the others.
Leaves(t) ==
    /\ \A u \in Tasks \ {t} : call'[u] = call[u]
    /\ degraded => degraded'
    /\ enabled' = enabled

\* start(), on its own or from a send.
LEMMA EnterStartOK ==
  ASSUME PublisherOK, NEW t \in Tasks, call[t] = "out", EnterStart(t),
         UNCHANGED <<enabled, open, topics>>
  PROVE  PublisherOK' /\ Leaves(t) /\ topics' = topics /\ producer' = producer
         /\ call'[t] \in {"out", "waiting", "starting", "inFlight"}
         /\ (t \notin Workers => call'[t] # "inFlight")
         /\ (call'[t] = "out" /\ t \in Workers => degraded')
         /\ (call'[t] = "inFlight" => ~degraded)
<1> USE DEF PublisherOK, PublisherTypeOK, PublisherCoherent, Leaves, Suspend, AfterStart, Settled
<1>1. CASE Settled /\ UNCHANGED <<producer, degraded, lock>> /\ AfterStart(t)
    BY <1>1
<1>2. CASE ~Settled /\ ~enabled /\ degraded' = TRUE /\ UNCHANGED <<producer, lock>> /\ AfterStart(t)
    BY <1>2
<1>3. CASE ~Settled /\ enabled /\ lock # {} /\ Suspend(t, "waiting")
           /\ UNCHANGED <<producer, degraded, lock>>
    BY <1>3
<1>4. CASE ~Settled /\ enabled /\ lock = {} /\ lock' = {t} /\ Suspend(t, "starting")
           /\ UNCHANGED <<producer, degraded>>
    BY <1>4
<1> QED
    BY <1>1, <1>2, <1>3, <1>4 DEF EnterStart

LEMMA BeginStartOK ==
  ASSUME PublisherOK, NEW t \in Tasks, BeginStart(t)
  PROVE  PublisherOK' /\ Leaves(t) /\ topics' = topics
         /\ (producer => producer')
         /\ call'[t] \in {"out", "waiting", "starting", "inFlight"}
         /\ (t \notin Workers => call'[t] # "inFlight")
    BY EnterStartOK DEF BeginStart

\* A send that is over has its event in the topics, or the publisher is
\* degraded; one that is under way began before it was.
SendOutcome(t, e) ==
    /\ topics' \in {topics, topics \cup {e}}
    /\ call'[t] \in {"out", "waiting", "starting", "closing", "inFlight"}
    /\ call'[t] = "out" => degraded' \/ e \in topics'
    /\ call'[t] # "out" => topics' = topics
    /\ call'[t] = "inFlight" => ~degraded
    /\ topics' # topics => call[t] = "inFlight"

LEMMA BeginSendOK ==
  ASSUME PublisherOK, NEW t \in Workers, NEW e, BeginSend(t)
  PROVE  PublisherOK' /\ Leaves(t) /\ SendOutcome(t, e)
<1>1. t \in Tasks /\ call[t] = "out" /\ UNCHANGED <<enabled, open, topics>>
    BY DEF BeginSend, Tasks
<1>2. CASE degraded /\ UNCHANGED <<producer, degraded, lock, call>>
    BY <1>1, <1>2 DEF PublisherOK, PublisherTypeOK, PublisherCoherent, Leaves, SendOutcome
<1>3. CASE ~degraded /\ EnterStart(t)
    BY <1>1, <1>3, EnterStartOK DEF SendOutcome
<1> QED
    BY <1>2, <1>3 DEF BeginSend

LEMMA SendStepOK ==
  ASSUME PublisherOK, NEW t \in Tasks, NEW e, SendStep(t, e)
  PROVE  /\ PublisherOK' /\ Leaves(t)
         /\ t \in Workers => SendOutcome(t, e)
         /\ t \notin Workers /\ call[t] # "inFlight" =>
                topics' = topics /\ call'[t] \in {"out", "waiting", "starting", "closing"}
<1> USE DEF PublisherOK, PublisherTypeOK, PublisherCoherent, Leaves, Suspend, AfterStart, Settled,
            SendOutcome
<1>1. CASE TakeLock(t)
  <2>1. CASE Unsettled
    BY <1>1, <2>1 DEF TakeLock, Unsettled
  <2>2. CASE ~Unsettled
    BY <1>1, <2>2 DEF TakeLock, Unsettled
  <2> QED
    BY <2>1, <2>2
<1>2. CASE Connected(t)
  <2>1. t \in lock /\ lock' = {} /\ ~producer /\ open = 0
    BY <1>2 DEF Connected
  <2> QED
    BY <1>2, <2>1 DEF Connected
<1>3. CASE Unreachable(t)
  <2>1. lock = {t} /\ ~producer /\ degraded'
    BY <1>3 DEF Unreachable
  <2> QED
    BY <1>3, <2>1 DEF Unreachable
<1>4. CASE Closed(t)
  <2>1. t \in lock /\ lock' = {} /\ ~producer /\ degraded
    BY <1>4 DEF Closed
  <2> QED
    BY <1>4, <2>1 DEF Closed
<1>5. CASE Acknowledged(t, e)
    BY <1>5 DEF Acknowledged
<1>6. CASE Unanswered(t, e)
    BY <1>6 DEF Unanswered, Degrade
<1> QED
    BY <1>1, <1>2, <1>3, <1>4, <1>5, <1>6 DEF SendStep

LEMMA AbortOK ==
  ASSUME PublisherOK, NEW t \in Tasks, NEW e, Abort(t, e), call[t] # "stopping"
  PROVE  PublisherOK' /\ Leaves(t) /\ call'[t] = "out"
         /\ topics' \in {topics, topics \cup {e}}
         /\ (topics' # topics => call[t] = "inFlight")
    BY DEF PublisherOK, PublisherTypeOK, PublisherCoherent, Leaves, Suspend, Abort

LEMMA BeginStopOK ==
  ASSUME PublisherOK, NEW t \in Tasks, BeginStop(t)
  PROVE  PublisherOK' /\ Leaves(t) /\ UNCHANGED <<topics, producer, degraded>>
         /\ call'[t] = (IF producer THEN "stopping" ELSE "out")
    BY DEF PublisherOK, PublisherTypeOK, PublisherCoherent, Leaves, Suspend, BeginStop, HasProducer

LEMMA StopReturnsOK ==
  ASSUME PublisherOK, NEW t \in Tasks, StopReturns(t),
         \A u \in Tasks \ {t} : call[u] = "out"
  PROVE  PublisherOK' /\ Leaves(t) /\ UNCHANGED <<topics, degraded>>
         /\ call'[t] = "out" /\ ~producer'
<1> USE DEF PublisherOK, PublisherTypeOK, PublisherCoherent, Leaves, Suspend, StopReturns
<1>1. producer /\ open = 1 /\ open' = 0 /\ producer' = FALSE
    OBVIOUS
<1>2. \A u \in Tasks : call'[u] = "out"
    OBVIOUS
<1>3. lock = {}
  <2>1. \A u \in Tasks : u \notin lock
    OBVIOUS
  <2> QED
    BY <2>1
<1>4. lock' = lock /\ degraded' = degraded /\ enabled' = enabled /\ topics' = topics
    OBVIOUS
<1>5. PublisherTypeOK'
  <2>1. lock' \subseteq Tasks /\ open' \in Nat
    BY <1>1, <1>4
  <2>2. call' \in [Tasks -> {"out", "waiting", "starting", "closing", "inFlight", "stopping"}]
    OBVIOUS
  <2>3. enabled' \in BOOLEAN /\ producer' \in BOOLEAN /\ degraded' \in BOOLEAN
    BY <1>1, <1>4, Zenon
  <2> QED
    BY <2>1, <2>2, <2>3
<1>6. PublisherCoherent'
    BY <1>1, <1>2, <1>3, <1>4
<1> QED
    BY <1>1, <1>2, <1>4, <1>5, <1>6

------------------------------------------------------------------------------
(* A worker's steps *)

LEMMA InSessionsWhenBusy ==
  ASSUME TypeOK, Coherent, NEW w \in Workers, at[w] \notin {"idle", "done"}
  PROVE  Session(w) \in Sessions
<1>1. session[w] \in 1 .. MaxSessions
    BY SessionAssumption DEF SessionAssumption, TypeOK, Coherent, CallsCoherent
<1> QED
    BY <1>1 DEF Session, Sessions

\* The stages run_one can be in; a worker in none of Publishing is in no call.
LEMMA Calls ==
  ASSUME TypeOK, Coherent, NEW w \in Workers
  PROVE  /\ w \in Tasks /\ w # Main
         /\ at[w] \notin Publishing => call[w] = "out"
         /\ call[w] # "stopping"
         /\ call[Main] = "stopping" <=> phase = "stopping"
    BY PublisherAssumption
    DEF PublisherAssumption, Tasks, TypeOK, Coherent, CallsCoherent, PhaseCoherent

\* What TypeOK says of the variables that are neither the publisher's nor the
\* tracker's, in the groups that a step keeps or changes together.
PlaceOK ==
    /\ at \in [Workers -> {"idle", "running", "persisting", "done"} \cup Publishing]
    /\ session \in [Workers -> 0 .. MaxSessions]
    /\ sent \in [Workers -> Nat]

LocalsOK ==
    /\ node \in [Workers -> Nodes \cup {NoNode}]
    /\ last \in [Workers -> Nodes \cup {NoNode}]
    /\ counted \in [Workers -> Nat] /\ steps \in [Workers -> Nat]
    /\ valid \in [Workers -> BOOLEAN]

StateOK == decisions \in [Sessions -> Nat] /\ errors \in [Sessions -> Nat]
DataOK == row \subseteq Sessions /\ faults \subseteq Sessions /\ unread \subseteq Sessions

ProcessOK ==
    /\ phase \in {"boot", "running", "draining", "cancelling", "stopping", "down"}
    /\ cancelled \subseteq Live

LEMMA TypeSplit ==
  TypeOK <=> /\ PublisherTypeOK /\ TrackerTypeOK
             /\ PlaceOK /\ LocalsOK /\ StateOK /\ DataOK /\ ProcessOK
  BY Zenon DEF TypeOK, PlaceOK, LocalsOK, StateOK, DataOK, ProcessOK

LEMMA TypeJoin ==
  ASSUME PublisherTypeOK', TrackerTypeOK', PlaceOK', LocalsOK', StateOK', DataOK',
         ProcessOK'
  PROVE  TypeOK'
  BY Zenon DEF TypeOK, PlaceOK, LocalsOK, StateOK, DataOK, ProcessOK

LEMMA RunFrames ==
  /\ UNCHANGED <<at, session, sent>> => PlaceOK' = PlaceOK
  /\ UNCHANGED locals => LocalsOK' = LocalsOK
  /\ UNCHANGED stateVars => StateOK' = StateOK
  /\ UNCHANGED dataVars => DataOK' = DataOK
<1>1. UNCHANGED <<at, session, sent>> => PlaceOK' = PlaceOK
    BY Zenon DEF PlaceOK
<1>2. UNCHANGED locals => LocalsOK' = LocalsOK
    BY Zenon DEF LocalsOK, locals
<1>3. UNCHANGED stateVars => StateOK' = StateOK
    BY Zenon DEF StateOK, stateVars
<1>4. UNCHANGED dataVars => DataOK' = DataOK
    BY Zenon DEF DataOK, dataVars
<1> QED
    BY <1>1, <1>2, <1>3, <1>4

\* A worker that moves, but to "done", stays among the live ones.
LEMMA LiveOK ==
  ASSUME PlaceOK, ProcessOK, NEW w \in Workers, NEW stage,
         at' = [at EXCEPT ![w] = stage], phase' = phase,
         \/ stage # "done" /\ cancelled' = cancelled
         \/ cancelled' = cancelled \ {w}
  PROVE  ProcessOK'
    BY DEF PlaceOK, ProcessOK, Live

LEMMA PublisherFrame ==
  ASSUME PublisherOK, UNCHANGED publisherVars
  PROVE  PublisherOK'
<1> USE DEF publisherVars, PublisherOK
<1>1. PublisherTypeOK'
    BY Zenon DEF PublisherTypeOK
<1>2. PublisherCoherent'
    BY DEF PublisherCoherent
<1> QED
    BY <1>1, <1>2

LEMMA TrackerFrame ==
  ASSUME TrackerTypeOK, UNCHANGED trackerVars
  PROVE  TrackerTypeOK'
    BY Zenon DEF trackerVars, countVars, TrackerTypeOK

SeatType == [status : {"absent", "idle", "in_session"}, station : Stations,
             thinking : BOOLEAN]

\* Every seat a worker is given is one.
LEMMA Seats ==
  /\ IdleSeat \in SeatType /\ NoSeat \in SeatType
  /\ \A n \in Stations, thinks \in BOOLEAN : Seat("in_session", n, thinks) \in SeatType
<1>1. Entrance \in Stations
    BY DEF Stations
<1> QED
    BY <1>1, Zenon DEF SeatType, Seat, IdleSeat, NoSeat

SeatsOK == floor \in [Workers -> SeatType]

CountsOK ==
    /\ visits \in [Nodes -> Nat] /\ durations \in [Nodes -> Nat]
    /\ nodeErrors \in [Nodes -> Nat]
    /\ qwenCalls \in Nat /\ finished \in Nat

LEMMA TrackerSplit == TrackerTypeOK => SeatsOK /\ CountsOK
  BY Zenon DEF TrackerTypeOK, SeatType, SeatsOK, CountsOK

LEMMA TrackerJoin ==
  ASSUME SeatsOK', CountsOK'
  PROVE  TrackerTypeOK'
  BY Zenon DEF TrackerTypeOK, SeatType, SeatsOK, CountsOK

LEMMA FloorOK ==
  ASSUME SeatsOK, NEW w \in Workers,
         \/ UNCHANGED floor
         \/ \E seat \in SeatType : floor' = [floor EXCEPT ![w] = seat]
  PROVE  SeatsOK'
  BY DEF SeatsOK

LEMMA CountsFrame == CountsOK /\ UNCHANGED countVars => CountsOK'
  BY Zenon DEF CountsOK, countVars

\* A worker that is in no call moves on.
LEMMA MoveOK ==
  ASSUME TypeOK, Coherent, NEW w \in Workers, NEW stage,
         at' = [at EXCEPT ![w] = stage], call[w] = "out",
         UNCHANGED publisherVars, UNCHANGED <<phase, cancelled>>,
         \A u \in Workers : u # w => session'[u] = session[u],
         stage \notin {"idle", "done"} => session'[w] >= 1,
         phase = "boot" => stage = "idle",
         phase \in {"stopping", "down"} => stage = "done"
  PROVE  Coherent'
<1>1. PublisherCoherent'
    BY PublisherFrame, TypeSplit DEF PublisherOK, Coherent
<1>2. /\ at \in [Workers -> {"idle", "running", "persisting", "done"} \cup Publishing]
      /\ UNCHANGED <<call, phase, producer>>
    BY DEF TypeOK, publisherVars
<1>3. CallsCoherent'
    BY <1>2 DEF Coherent, CallsCoherent
<1>4. PhaseCoherent'
    BY <1>2 DEF Coherent, PhaseCoherent
<1> QED
    BY <1>1, <1>3, <1>4 DEF Coherent

LEMMA PickPersonaOK ==
  ASSUME TypeOK, Coherent, NEW w \in Workers, PickPersona(w)
  PROVE  TypeOK' /\ Coherent'
<1>1. /\ at[w] = "idle" /\ phase = "running" /\ phase' = phase
      /\ session[w] < MaxSessions
      /\ session' = [session EXCEPT ![w] = @ + 1]
      /\ sent' = [sent EXCEPT ![w] = 0]
      /\ at' = [at EXCEPT ![w] = "started"]
      /\ UNCHANGED publisherVars /\ UNCHANGED trackerVars /\ UNCHANGED cancelled
      /\ UNCHANGED locals /\ UNCHANGED stateVars /\ UNCHANGED dataVars
    BY DEF PickPersona, Goto, processVars
<1>2. call[w] = "out"
    BY <1>1, Calls DEF Publishing
<1>3. PlaceOK'
    BY <1>1, TypeSplit, SessionAssumption DEF SessionAssumption, PlaceOK, Publishing
<1>4. Coherent'
  <2>1. session'[w] >= 1 /\ \A u \in Workers : u # w => session'[u] = session[u]
    BY <1>1 DEF TypeOK
  <2> QED
    BY <1>1, <1>2, <2>1, MoveOK
<1>5. PublisherTypeOK' /\ TrackerTypeOK'
    BY <1>1, TypeSplit, PublisherFrame, TrackerFrame DEF PublisherOK, Coherent
<1>6. ProcessOK'
    BY <1>1, TypeSplit, LiveOK
<1>7. LocalsOK' /\ StateOK' /\ DataOK'
    BY <1>1, TypeSplit, RunFrames
<1> QED
    BY <1>3, <1>4, <1>5, <1>6, <1>7, TypeJoin

LEMMA LeaveOK ==
  ASSUME TypeOK, Coherent, NEW w \in Workers, Leave(w)
  PROVE  TypeOK' /\ Coherent'
<1>1. /\ at[w] = "idle" /\ phase \notin {"running", "boot"} /\ phase' = phase
      /\ w \notin cancelled
      /\ at' = [at EXCEPT ![w] = "done"]
      /\ floor' = [floor EXCEPT ![w] = NoSeat]
      /\ UNCHANGED publisherVars /\ UNCHANGED countVars /\ UNCHANGED cancelled
      /\ UNCHANGED <<session, sent>>
      /\ UNCHANGED locals /\ UNCHANGED stateVars /\ UNCHANGED dataVars
    BY DEF Leave, Goto, Runs, Unregister, processVars, runVars
<1>2. call[w] = "out"
    BY <1>1, Calls DEF Publishing
<1>3. PlaceOK'
    BY <1>1, TypeSplit DEF PlaceOK
<1>4. Coherent'
    BY <1>1, <1>2, MoveOK
<1>5. PublisherTypeOK' /\ TrackerTypeOK'
  <2>1. PublisherTypeOK'
    BY <1>1, TypeSplit, PublisherFrame DEF PublisherOK, Coherent
  <2>2. SeatsOK'
    BY <1>1, TypeSplit, TrackerSplit, FloorOK, Seats
  <2>3. CountsOK'
    BY <1>1, TypeSplit, TrackerSplit, CountsFrame
  <2> QED
    BY <2>1, <2>2, <2>3, TrackerJoin
<1>6. ProcessOK'
    BY <1>1, TypeSplit, LiveOK
<1>7. LocalsOK' /\ StateOK' /\ DataOK'
    BY <1>1, TypeSplit, RunFrames
<1> QED
    BY <1>3, <1>4, <1>5, <1>6, <1>7, TypeJoin

\* A worker in a session is there while the process runs or drains.
LEMMA BusyPhase ==
  ASSUME TypeOK, Coherent, NEW w \in Workers, at[w] \notin {"idle", "done"}
  PROVE  phase \in {"running", "draining", "cancelling"}
    BY DEF TypeOK, Coherent, PhaseCoherent

\* A session that is over, whichever way.
LEMMA ReturnOK ==
  ASSUME TypeOK, Coherent, NEW w \in Workers, at[w] \in {"running", "persisting"}, Return(w),
         UNCHANGED publisherVars, UNCHANGED session, UNCHANGED <<sent, phase, cancelled>>,
         w \notin cancelled
  PROVE  Coherent' /\ PublisherTypeOK' /\ PlaceOK' /\ ProcessOK' /\ SeatsOK'
         /\ at' = [at EXCEPT ![w] = IF phase = "running" THEN "idle" ELSE "done"]
<1> DEFINE stage == IF phase = "running" THEN "idle" ELSE "done"
<1>1. /\ at' = [at EXCEPT ![w] = stage]
      /\ \E seat \in SeatType : floor' = [floor EXCEPT ![w] = seat]
    BY Seats DEF Return, Goto, LeaveFloor, MarkIdle, Unregister
<1>2. call[w] = "out"
    BY Calls DEF Publishing
<1>3. phase # "boot"
    BY BusyPhase
<1>4. Coherent'
    BY <1>1, <1>2, <1>3, MoveOK
<1>5. PublisherTypeOK'
    BY TypeSplit, PublisherFrame DEF PublisherOK, Coherent
<1>6. PlaceOK'
    BY <1>1, TypeSplit DEF PlaceOK
<1>7. ProcessOK'
  <2>1. cancelled' = cancelled \ {w} /\ phase' = phase
    OBVIOUS
  <2> QED
    BY <1>1, <2>1, TypeSplit, LiveOK
<1>8. SeatsOK'
    BY <1>1, TypeSplit, TrackerSplit, FloorOK
<1> QED
    BY <1>1, <1>4, <1>5, <1>6, <1>7, <1>8

\* Where a call that is over takes its worker.
LEMMA FollowingOK ==
  ASSUME NEW w \in Workers, at[w] \in Publishing
  PROVE  Following(w) \in {"running", "decisions", "ended", "persisting"}
    BY DEF Publishing, Following

LEMMA PublishOK ==
  ASSUME TypeOK, Coherent, NEW w \in Workers, Publish(w)
  PROVE  TypeOK' /\ Coherent' /\ Leaves(w) /\ SendOutcome(w, Event(w))
<1>1. /\ at[w] \in Publishing /\ w \notin cancelled
      /\ IF call'[w] = "out" THEN Published(w) ELSE UNCHANGED <<at, sent, floor>>
      /\ UNCHANGED countVars /\ UNCHANGED <<phase, cancelled, session>>
      /\ UNCHANGED locals /\ UNCHANGED stateVars /\ UNCHANGED dataVars
    BY DEF Publish, Runs, runVars, processVars
<1>2. PublisherOK' /\ Leaves(w) /\ SendOutcome(w, Event(w))
  <2>1. PublisherOK /\ w \in Tasks
    BY TypeSplit DEF PublisherOK, Coherent, Tasks
  <2>2. CASE BeginSend(w)
    BY <2>1, <2>2, BeginSendOK
  <2>3. CASE SendStep(w, Event(w))
    BY <2>1, <2>3, SendStepOK
  <2> QED
    BY <2>2, <2>3 DEF Publish
<1>3. /\ session[w] >= 1
      /\ phase \in {"running", "draining", "cancelling"}
      /\ call'[w] \in {"out", "waiting", "starting", "closing", "inFlight"}
      /\ \A u \in Tasks \ {w} : call'[u] = call[u]
      /\ Main \in Tasks \ {w} /\ Workers \subseteq Tasks
    BY <1>1, <1>2, BusyPhase, Calls, MainIsATask
    DEF Coherent, CallsCoherent, Publishing, Leaves, SendOutcome
<1>4. /\ at' = at \/ (call'[w] = "out" /\ at' = [at EXCEPT ![w] = Following(w)])
      /\ Following(w) \in {"running", "decisions", "ended", "persisting"}
      /\ sent' = sent \/ sent' = [sent EXCEPT ![w] = @ + 1]
      /\ \/ UNCHANGED floor
         \/ \E seat \in SeatType : floor' = [floor EXCEPT ![w] = seat]
  <2>1. Seat("in_session", Entrance, FALSE) \in SeatType
    BY Seats DEF Stations
  <2> QED
    BY <1>1, <2>1, FollowingOK DEF Published, Goto, Onward, Upsert
<1>5. PlaceOK'
    BY <1>1, <1>4, TypeSplit DEF PlaceOK, Publishing
<1>6. CallsCoherent' /\ PhaseCoherent'
  <2>1. \A u \in Workers : u # w => at'[u] = at[u]
    BY <1>4 DEF TypeOK
  <2>2. at'[w] = at[w] \/ (call'[w] = "out" /\ at'[w] = Following(w))
    BY <1>4 DEF TypeOK
  <2>3. CallsCoherent'
    BY <1>1, <1>3, <1>4, <2>1, <2>2 DEF Coherent, CallsCoherent
  <2>4. PhaseCoherent'
    BY <1>1, <1>3, <1>4, <2>1, <2>2 DEF Coherent, PhaseCoherent
  <2> QED
    BY <2>3, <2>4
<1>7. ProcessOK'
    BY <1>1, <1>4, TypeSplit DEF ProcessOK, Live, PlaceOK
<1>8. TrackerTypeOK'
  <2>1. SeatsOK'
    BY <1>4, TypeSplit, TrackerSplit, FloorOK
  <2>2. CountsOK'
    BY <1>1, TypeSplit, TrackerSplit, CountsFrame
  <2> QED
    BY <2>1, <2>2, TrackerJoin
<1>9. LocalsOK' /\ StateOK' /\ DataOK'
    BY <1>1, TypeSplit, RunFrames
<1> QED
    BY <1>2, <1>5, <1>6, <1>7, <1>8, <1>9, TypeJoin DEF Coherent, PublisherOK

------------------------------------------------------------------------------
(* The run *)

\* A step inside a session, which neither the publisher nor the process sees.
LEMMA StayOK ==
  ASSUME TypeOK, Coherent, UNCHANGED publisherVars,
         UNCHANGED <<at, session, phase, cancelled, sent>>
  PROVE  Coherent' /\ PublisherTypeOK' /\ PlaceOK' /\ ProcessOK'
<1>1. PublisherOK'
    BY TypeSplit, PublisherFrame DEF PublisherOK, Coherent
<1>2. CallsCoherent' /\ PhaseCoherent'
    BY DEF Coherent, CallsCoherent, PhaseCoherent, publisherVars
<1>3. PlaceOK'
    BY TypeSplit, RunFrames
<1>4. ProcessOK'
    BY TypeSplit DEF ProcessOK, Live
<1> QED
    BY <1>1, <1>2, <1>3, <1>4 DEF Coherent, PublisherOK

LEMMA ShowAtOK ==
  ASSUME SeatsOK, NEW w \in Workers, NEW n \in Nodes, ShowAt(w, n)
  PROVE  SeatsOK'
<1>1. QwenIn(n) \in BOOLEAN /\ n \in Stations
    BY DEF QwenIn, Stations
<1>2. Seat("in_session", n, QwenIn(n)) \in SeatType
    BY <1>1, Seats
<1> QED
    BY <1>2, FloorOK DEF ShowAt, Upsert

LEMMA EnterNodeOK ==
  ASSUME TypeOK, Coherent, NEW w \in Workers, NEW n \in Nodes, EnterNode(w, n)
  PROVE  TypeOK' /\ Coherent'
<1>1. /\ node' = [node EXCEPT ![w] = n] /\ ShowAt(w, n)
      /\ UNCHANGED publisherVars /\ UNCHANGED countVars
      /\ UNCHANGED <<at, session, phase, cancelled, sent>>
      /\ UNCHANGED <<last, counted, steps, valid>>
      /\ UNCHANGED stateVars /\ UNCHANGED dataVars
    BY DEF EnterNode, processVars
<1>2. Coherent' /\ PublisherTypeOK' /\ PlaceOK' /\ ProcessOK'
    BY <1>1, StayOK
<1>3. TrackerTypeOK'
    BY <1>1, TypeSplit, TrackerSplit, ShowAtOK, CountsFrame, TrackerJoin
<1>4. LocalsOK'
  <2>1. node' \in [Workers -> Nodes \cup {NoNode}]
    BY <1>1, TypeSplit DEF LocalsOK
  <2> QED
    BY <1>1, <2>1, TypeSplit, Zenon DEF LocalsOK
<1>5. StateOK' /\ DataOK'
    BY <1>1, TypeSplit, RunFrames
<1> QED
    BY <1>2, <1>3, <1>4, <1>5, TypeJoin

LEMMA DecideOK ==
  ASSUME StateOK, NEW w \in Workers, Session(w) \in Sessions, NEW asked, NEW k \in Nat,
         Decide(w, asked), errors' = [errors EXCEPT ![Session(w)] = @ + k]
  PROVE  StateOK' /\ errors'[Session(w)] \in Nat
         /\ \A s \in Sessions \ {Session(w)} : decisions'[s] = decisions[s]
    BY DEF StateOK, Decide

LEMMA StepOK ==
  ASSUME TypeOK, Coherent, NEW w \in Workers, NEW asked \in BOOLEAN,
         NEW raised \in {0, 1}, NEW validates \in BOOLEAN, Step(w, asked, raised, validates)
  PROVE  TypeOK' /\ Coherent'
<1>1. /\ at[w] = "running" /\ node[w] # NoNode
      /\ node' = [node EXCEPT ![w] = NoNode]
      /\ Decide(w, asked)
      /\ errors' = [errors EXCEPT ![Session(w)] = @ + raised]
      /\ ExitLast(w) /\ RecordEnter(node[w])
      /\ last' = [last EXCEPT ![w] = node[w]]
      /\ steps' = [steps EXCEPT ![w] = @ + 1]
      /\ valid' = [valid EXCEPT ![w] = validates]
      /\ IF validates THEN Tracked(w, node[w]) ELSE Untracked(w)
      /\ UNCHANGED publisherVars
      /\ UNCHANGED <<at, session, phase, cancelled, sent>>
      /\ UNCHANGED <<row, faults, finished>>
    BY DEF Step, processVars
<1>2. Coherent' /\ PublisherTypeOK' /\ PlaceOK' /\ ProcessOK'
    BY <1>1, StayOK
<1>3. Session(w) \in Sessions
    BY <1>1, InSessionsWhenBusy
<1>4. node[w] \in Nodes /\ last[w] \in Nodes \cup {NoNode}
    BY <1>1, TypeSplit DEF LocalsOK
<1>5. StateOK' /\ errors'[Session(w)] \in Nat
    BY <1>1, <1>3, TypeSplit, DecideOK
<1>6. SeatsOK'
  <2>1. CASE validates
    BY <1>1, <1>4, <2>1, TypeSplit, TrackerSplit, ShowAtOK DEF Tracked
  <2>2. CASE ~validates
    BY <1>1, <2>2, TypeSplit, TrackerSplit, FloorOK DEF Untracked
  <2> QED
    BY <2>1, <2>2
<1>7. CountsOK'
  <2>1. visits' \in [Nodes -> Nat] /\ durations' \in [Nodes -> Nat] /\ finished' \in Nat
    BY <1>1, <1>4, TypeSplit, TrackerSplit DEF CountsOK, RecordEnter, ExitLast, RecordExit
  <2>2. nodeErrors' \in [Nodes -> Nat] /\ qwenCalls' \in Nat
    <3>1. CASE validates
      BY <1>1, <1>4, <3>1, TypeSplit, TrackerSplit
      DEF CountsOK, Tracked, CountErrors, RecordError, EmitEvents, PushQwen
    <3>2. CASE ~validates
      BY <1>1, <3>2, TypeSplit, TrackerSplit DEF CountsOK, Untracked
    <3> QED
      BY <3>1, <3>2
  <2> QED
    BY <2>1, <2>2 DEF CountsOK
<1>8. LocalsOK'
  <2>1. /\ node' \in [Workers -> Nodes \cup {NoNode}]
        /\ last' \in [Workers -> Nodes \cup {NoNode}]
        /\ steps' \in [Workers -> Nat]
    BY <1>1, <1>4, TypeSplit DEF LocalsOK
  <2>2. counted' \in [Workers -> Nat]
    BY <1>1, <1>5, TypeSplit DEF LocalsOK, Tracked, CountErrors, Untracked
  <2>3. valid' \in [Workers -> BOOLEAN]
    BY <1>1, TypeSplit, Zenon DEF LocalsOK
  <2> QED
    BY <2>1, <2>2, <2>3 DEF LocalsOK
<1>9. DataOK'
    BY <1>1, <1>3, TypeSplit DEF DataOK, Tracked, Untracked
<1> QED
    BY <1>2, <1>5, <1>6, <1>7, <1>8, <1>9, TrackerJoin, TypeJoin

LEMMA ForgetOK ==
  ASSUME LocalsOK, NEW w \in Workers, Forget(w)
  PROVE  LocalsOK'
<1>1. /\ node' \in [Workers -> Nodes \cup {NoNode}]
      /\ last' \in [Workers -> Nodes \cup {NoNode}]
      /\ counted' \in [Workers -> Nat] /\ steps' \in [Workers -> Nat]
    BY DEF LocalsOK, Forget
<1>2. valid' \in [Workers -> BOOLEAN]
    BY Zenon DEF LocalsOK, Forget
<1> QED
    BY <1>1, <1>2 DEF LocalsOK

LEMMA RunEndsOK ==
  ASSUME TypeOK, Coherent, NEW w \in Workers, RunEnds(w)
  PROVE  TypeOK' /\ Coherent'
<1>1. /\ at[w] = "running" /\ w \notin cancelled
      /\ last[w] # NoNode /\ ExitLast(w)
      /\ FinalState(w) /\ Forget(w)
      /\ at' = [at EXCEPT ![w] = AfterRun(w)]
      /\ \E station \in Stations : floor' = [floor EXCEPT ![w] = Seat("in_session", station, FALSE)]
      /\ UNCHANGED publisherVars
      /\ UNCHANGED <<session, phase, cancelled, sent>>
      /\ UNCHANGED dataVars
      /\ UNCHANGED <<visits, nodeErrors, qwenCalls, finished>>
  <2>1. FinalStations(w) \subseteq Stations
    BY StationAssumption DEF StationAssumption, FinalStations, Stations
  <2> QED
    BY <2>1 DEF RunEnds, Goto, Flush, Upsert, Runs, processVars
<1>2. AfterRun(w) \in {"decisions", "ended"}
    BY DEF AfterRun
<1>3. call[w] = "out" /\ session[w] >= 1 /\ phase \in {"running", "draining", "cancelling"}
    BY <1>1, Calls, BusyPhase DEF Coherent, CallsCoherent, Publishing
<1>4. Coherent'
    BY <1>1, <1>2, <1>3, MoveOK
<1>5. PublisherTypeOK'
    BY <1>1, TypeSplit, PublisherFrame DEF PublisherOK, Coherent
<1>6. PlaceOK'
    BY <1>1, <1>2, TypeSplit DEF PlaceOK, Publishing
<1>7. ProcessOK'
    BY <1>1, <1>2, TypeSplit, LiveOK
<1>8. StateOK'
  <2>1. Session(w) \in Sessions
    BY <1>1, InSessionsWhenBusy
  <2> QED
    BY <1>1, <2>1, TypeSplit DEF StateOK, FinalState
<1>9. TrackerTypeOK'
  <2>1. SeatsOK'
    <3>1. \A station \in Stations : Seat("in_session", station, FALSE) \in SeatType
      BY Seats
    <3> QED
      BY <1>1, <3>1, TypeSplit, TrackerSplit, FloorOK
  <2>2. last[w] \in Nodes
    BY <1>1, TypeSplit DEF LocalsOK
  <2>3. CountsOK'
    BY <1>1, <2>2, TypeSplit, TrackerSplit DEF CountsOK, ExitLast, RecordExit
  <2> QED
    BY <2>1, <2>3, TrackerJoin
<1>10. LocalsOK' /\ DataOK'
    BY <1>1, TypeSplit, ForgetOK, RunFrames
<1> QED
    BY <1>4, <1>5, <1>6, <1>7, <1>8, <1>9, <1>10, TypeJoin

LEMMA RunFailsOK ==
  ASSUME TypeOK, Coherent, NEW w \in Workers, RunFails(w)
  PROVE  TypeOK' /\ Coherent'
<1>1. /\ at[w] = "running" /\ w \notin cancelled
      /\ Forget(w) /\ Return(w)
      /\ faults' = faults \cup {Session(w)} /\ UNCHANGED <<row, unread>>
      /\ UNCHANGED publisherVars /\ UNCHANGED countVars /\ UNCHANGED stateVars
      /\ UNCHANGED session /\ UNCHANGED <<sent, phase, cancelled>>
    BY DEF RunFails, Runs, processVars
<1>2. Coherent' /\ PublisherTypeOK' /\ PlaceOK' /\ ProcessOK' /\ SeatsOK'
    BY <1>1, ReturnOK
<1>3. TrackerTypeOK'
    BY <1>1, <1>2, TypeSplit, TrackerSplit, CountsFrame, TrackerJoin
<1>4. LocalsOK' /\ StateOK'
    BY <1>1, TypeSplit, ForgetOK, RunFrames
<1>5. DataOK'
    BY <1>1, TypeSplit, InSessionsWhenBusy DEF DataOK
<1> QED
    BY <1>2, <1>3, <1>4, <1>5, TypeJoin

LEMMA PersistOK ==
  ASSUME TypeOK, Coherent, NEW w \in Workers, Persist(w) \/ PersistFails(w)
  PROVE  TypeOK' /\ Coherent'
<1>1. /\ at[w] = "persisting" /\ w \notin cancelled /\ Return(w)
      /\ row' \in {row, row \cup {Session(w)}}
      /\ faults' \in {faults, faults \cup {Session(w)}} /\ UNCHANGED unread
      /\ UNCHANGED publisherVars /\ UNCHANGED stateVars /\ UNCHANGED locals
      /\ UNCHANGED session /\ UNCHANGED <<sent, phase, cancelled>>
      /\ UNCHANGED <<visits, durations, nodeErrors, qwenCalls>>
      /\ finished' \in {finished, finished + 1}
  <2>1. CASE Persist(w)
    BY <2>1 DEF Persist, Runs, processVars, runVars, RecordCompletion
  <2>2. CASE PersistFails(w)
    BY <2>2 DEF PersistFails, Runs, processVars, runVars, countVars
  <2> QED
    BY <2>1, <2>2
<1>2. Coherent' /\ PublisherTypeOK' /\ PlaceOK' /\ ProcessOK' /\ SeatsOK'
    BY <1>1, ReturnOK
<1>3. CountsOK'
    BY <1>1, TypeSplit, TrackerSplit DEF CountsOK
<1>4. LocalsOK' /\ StateOK'
    BY <1>1, TypeSplit, RunFrames
<1>5. DataOK'
    BY <1>1, TypeSplit, InSessionsWhenBusy DEF DataOK
<1> QED
    BY <1>2, <1>3, <1>4, <1>5, TrackerJoin, TypeJoin

LEMMA InterruptedOK ==
  ASSUME TypeOK, Coherent, NEW w \in Workers, Interrupted(w)
  PROVE  /\ TypeOK' /\ Coherent' /\ Leaves(w)
         /\ topics' \in {topics, topics \cup {Event(w)}}
         /\ topics' # topics => call[w] = "inFlight"
<1>1. /\ w \in cancelled /\ cancelled' = cancelled \ {w}
      /\ Abort(w, Event(w)) /\ Forget(w)
      /\ row' \in {row} \cup
             (IF at[w] = "persisting" THEN {row \cup {Session(w)}} ELSE {})
      /\ faults' = IF at[w] = "idle" THEN faults ELSE faults \cup {Session(w)}
      /\ at' = [at EXCEPT ![w] = "done"]
      /\ floor' = [floor EXCEPT ![w] = NoSeat]
      /\ UNCHANGED countVars /\ UNCHANGED stateVars
      /\ UNCHANGED <<session, sent, phase, unread>>
    BY DEF Interrupted, Goto, Unregister
<1>2. /\ at[w] # "done" /\ w \in Tasks /\ w # Main /\ call[w] # "stopping"
    BY <1>1, Calls, TypeSplit DEF ProcessOK, Live
<1>3. /\ PublisherOK' /\ Leaves(w) /\ call'[w] = "out"
      /\ topics' \in {topics, topics \cup {Event(w)}}
      /\ topics' # topics => call[w] = "inFlight"
    BY <1>1, <1>2, TypeSplit, AbortOK DEF PublisherOK, Coherent
<1>4. /\ \A u \in Tasks \ {w} : call'[u] = call[u]
      /\ producer' = producer
      /\ Main \in Tasks \ {w} /\ Workers \subseteq Tasks
    BY <1>1, <1>2, <1>3, MainIsATask DEF Leaves, Abort
<1>5. \A u \in Workers : at'[u] = IF u = w THEN "done" ELSE at[u]
    BY <1>1 DEF TypeOK
<1>6. CallsCoherent'
    BY <1>1, <1>3, <1>4, <1>5 DEF Coherent, CallsCoherent
<1>7. PhaseCoherent'
  <2>1. phase # "boot"
    BY <1>1 DEF Coherent, PhaseCoherent
  <2> QED
    BY <1>1, <1>3, <1>4, <1>5, <2>1 DEF Coherent, PhaseCoherent
<1>8. PlaceOK'
    BY <1>1, TypeSplit DEF PlaceOK
<1>9. ProcessOK'
    BY <1>1, TypeSplit, LiveOK
<1>10. TrackerTypeOK'
    BY <1>1, TypeSplit, TrackerSplit, FloorOK, Seats, CountsFrame, TrackerJoin
<1>11. LocalsOK' /\ StateOK'
    BY <1>1, TypeSplit, ForgetOK, RunFrames
<1>12. DataOK'
  <2>1. at[w] # "idle" => Session(w) \in Sessions
    BY <1>2, InSessionsWhenBusy
  <2>2. row' \subseteq Sessions
    BY <1>1, <2>1, TypeSplit DEF DataOK
  <2>3. faults' \subseteq Sessions
    BY <1>1, <2>1, TypeSplit DEF DataOK
  <2> QED
    BY <1>1, <2>2, <2>3, TypeSplit DEF DataOK
<1> QED
    BY <1>3, <1>6, <1>7, <1>8, <1>9, <1>10, <1>11, <1>12, TypeJoin DEF Coherent, PublisherOK

------------------------------------------------------------------------------
(* The process *)

\* What the process does of its own leaves every session alone.
ProcessStep == Boot \/ Shutdown \/ DrainTimeout \/ StopPublisher \/ Stopped

LEMMA ProcessLeaves ==
  ASSUME TypeOK, ProcessStep, PublisherTypeOK', ProcessOK'
  PROVE  TypeOK'
<1>1. /\ UNCHANGED trackerVars /\ UNCHANGED <<at, session, sent>>
      /\ UNCHANGED locals /\ UNCHANGED stateVars /\ UNCHANGED dataVars
    BY DEF ProcessStep, Boot, Shutdown, DrainTimeout, StopPublisher, Stopped, runVars
<1>2. TrackerTypeOK'
    BY <1>1, TypeSplit, TrackerFrame
<1>3. PlaceOK' /\ LocalsOK' /\ StateOK' /\ DataOK'
    BY <1>1, TypeSplit, RunFrames
<1> QED
    BY <1>2, <1>3, TypeJoin

LEMMA BootOK ==
  ASSUME TypeOK, Coherent, Boot
  PROVE  TypeOK' /\ Coherent' /\ Leaves(Main) /\ topics' = topics
<1>1. /\ phase = "boot" /\ phase' = IF call'[Main] = "out" THEN "running" ELSE phase
      /\ UNCHANGED <<at, session, cancelled>>
    BY DEF Boot, runVars
<1>2. Main \in Tasks /\ Main \notin Workers /\ PublisherOK /\ call[Main] # "inFlight"
    BY MainIsATask, PublisherAssumption, TypeSplit
    DEF PublisherAssumption, PublisherOK, Coherent, CallsCoherent
<1>3. /\ PublisherOK' /\ Leaves(Main) /\ topics' = topics
      /\ call'[Main] \in {"out", "waiting", "starting", "closing"}
  <2>1. CASE BeginStart(Main)
    BY <1>2, <2>1, BeginStartOK
  <2>2. CASE Connected(Main) \/ Unreachable(Main) \/ Closed(Main)
    BY <1>2, <2>2, SendStepOK DEF SendStep
  <2> QED
    BY <2>1, <2>2 DEF Boot
<1>4. \A w \in Workers : call'[w] = call[w]
    BY <1>2, <1>3, MainIsATask DEF Leaves
<1>5. CallsCoherent' /\ PhaseCoherent'
    BY <1>1, <1>3, <1>4 DEF Coherent, CallsCoherent, PhaseCoherent
<1>6. ProcessOK'
    BY <1>1, TypeSplit DEF ProcessOK, Live
<1> QED
    BY <1>3, <1>5, <1>6, ProcessLeaves DEF ProcessStep, Coherent, PublisherOK

LEMMA SignalOK ==
  ASSUME TypeOK, Coherent, Shutdown \/ DrainTimeout
  PROVE  TypeOK' /\ Coherent'
<1>1. /\ phase \in {"running", "draining"} /\ phase' \in {"draining", "cancelling"}
      /\ cancelled' \in {cancelled, Live}
      /\ UNCHANGED <<at, session>> /\ UNCHANGED publisherVars
    BY DEF Shutdown, DrainTimeout, runVars, Stragglers
<1>2. PublisherOK'
    BY <1>1, TypeSplit, PublisherFrame DEF PublisherOK, Coherent
<1>3. CallsCoherent' /\ PhaseCoherent'
    BY <1>1 DEF Coherent, CallsCoherent, PhaseCoherent, publisherVars
<1>4. ProcessOK'
    BY <1>1, TypeSplit DEF ProcessOK, Live
<1> QED
    BY <1>2, <1>3, <1>4, ProcessLeaves DEF ProcessStep, Coherent, PublisherOK

LEMMA StopOK ==
  ASSUME TypeOK, Coherent, StopPublisher \/ Stopped
  PROVE  TypeOK' /\ Coherent' /\ Leaves(Main) /\ topics' = topics
<1>1. Main \in Tasks /\ Main \notin Workers /\ PublisherOK
    BY MainIsATask, PublisherAssumption, TypeSplit
    DEF PublisherAssumption, PublisherOK, Coherent
<1>2. UNCHANGED <<at, session, cancelled>>
    BY DEF StopPublisher, Stopped, runVars
<1>3. \A w \in Workers : at[w] = "done" /\ call[w] = "out"
  <2>1. \A w \in Workers : at[w] = "done"
    BY DEF StopPublisher, Stopped, Drained, Live, Coherent, PhaseCoherent
  <2> QED
    BY <2>1, Calls DEF Publishing
<1>4. /\ PublisherOK' /\ Leaves(Main) /\ topics' = topics
      /\ phase' = (IF call'[Main] = "out" THEN "down" ELSE "stopping")
      /\ call'[Main] \in {"out", "stopping"}
      /\ call'[Main] = "out" => ~producer'
  <2>1. CASE StopPublisher
    BY <1>1, <2>1, BeginStopOK DEF StopPublisher
  <2>2. CASE Stopped
    <3>1. \A u \in Tasks \ {Main} : call[u] = "out"
      BY <1>3 DEF Tasks
    <3> QED
      BY <1>1, <2>2, <3>1, StopReturnsOK DEF Stopped
  <2> QED
    BY <2>1, <2>2
<1>5. \A w \in Workers : call'[w] = "out"
    BY <1>1, <1>3, <1>4, MainIsATask DEF Leaves
<1>6. CallsCoherent' /\ PhaseCoherent'
    BY <1>2, <1>3, <1>4, <1>5 DEF Coherent, CallsCoherent, PhaseCoherent
<1>7. ProcessOK'
    BY <1>2, <1>4, TypeSplit DEF ProcessOK, Live
<1> QED
    BY <1>4, <1>6, <1>7, ProcessLeaves DEF ProcessStep, Coherent, PublisherOK

LEMMA StutterOK ==
  ASSUME TypeOK, Coherent, UNCHANGED vars
  PROVE  TypeOK' /\ Coherent'
<1>1. /\ UNCHANGED publisherVars /\ UNCHANGED trackerVars
      /\ UNCHANGED <<at, session, phase, cancelled, sent>>
      /\ UNCHANGED locals /\ UNCHANGED stateVars /\ UNCHANGED dataVars
    BY DEF vars, runVars, processVars
<1>2. Coherent' /\ PublisherTypeOK' /\ PlaceOK' /\ ProcessOK'
    BY <1>1, StayOK
<1>3. TrackerTypeOK' /\ LocalsOK' /\ StateOK' /\ DataOK'
    BY <1>1, TypeSplit, TrackerFrame, RunFrames
<1> QED
    BY <1>2, <1>3, TypeJoin

LEMMA NextOK ==
  ASSUME TypeOK, Coherent, [Next]_vars
  PROVE  TypeOK' /\ Coherent'
<1>1. ASSUME NEW w \in Workers, Work(w) PROVE TypeOK' /\ Coherent'
    BY <1>1, PickPersonaOK, LeaveOK, PublishOK, EnterNodeOK, StepOK, RunEndsOK,
       RunFailsOK, PersistOK, InterruptedOK
    DEF Work
<1>2. CASE ProcessStep
    BY <1>2, BootOK, SignalOK, StopOK DEF ProcessStep
<1>3. CASE Down \/ UNCHANGED vars
    BY <1>3, StutterOK DEF Down
<1> QED
    BY <1>1, <1>2, <1>3 DEF Next, ProcessStep

\* kafka_publisher.py:86-130, scheduler.py:36-90, runner.py, main.py: every
\* variable keeps its type, with any number of workers, sessions and nodes;
\* and where a task is suspended agrees with the lock, the producer and the
\* phase of the process.
THEOREM Inductive == Spec => [](TypeOK /\ Coherent)
<1>1. Init => TypeOK /\ Coherent
    BY InitCoherent
<1>2. TypeOK /\ Coherent /\ [Next]_vars => (TypeOK /\ Coherent)'
    BY NextOK
<1> QED
    BY <1>1, <1>2, PTL DEF Spec

\* The same, for the types alone.
THEOREM TypeCorrect == Spec => []TypeOK
  BY Inductive, PTL

\* kafka_publisher.py:92-101, 133-160: however many workers find no producer
\* at once, and wherever they are cancelled, one is open at most, one task
\* connects at most, and once the process is down none is open and no send is
\* under way.
THEOREM OneProducerAlways == Spec => []OneProducer
<1>1. TypeOK /\ Coherent => OneProducer
  <2> SUFFICES ASSUME TypeOK, Coherent PROVE OneProducer
    OBVIOUS
  <2>1. Cardinality(lock) <= 1
    <3>1. CASE lock = {}
      BY <3>1, FS_EmptySet
    <3>2. CASE lock # {}
      <4>1. PICK t \in lock : TRUE
        BY <3>2
      <4>2. lock = {t}
        BY <4>1, TypeSplit DEF Coherent, PublisherCoherent, PublisherTypeOK
      <4>3. Cardinality({t}) = 1
        BY FS_Singleton
      <4> QED
        BY <4>2, <4>3
    <3> QED
      BY <3>1, <3>2
  <2>2. ASSUME phase = "down" PROVE open = 0 /\ \A t \in Tasks : call[t] = "out"
    <3>1. call[Main] = "out" /\ ~producer /\ \A w \in Workers : at[w] = "done"
      BY <2>2 DEF Coherent, PhaseCoherent
    <3>2. \A w \in Workers : call[w] = "out"
      BY <3>1, Calls DEF Publishing
    <3> QED
      BY <3>1, <3>2 DEF Coherent, PublisherCoherent, Tasks
  <2> QED
    BY <2>1, <2>2 DEF OneProducer, Coherent, PublisherCoherent
<1> QED
    BY <1>1, Inductive, PTL

------------------------------------------------------------------------------
(* The rows *)

Over(w, i) == i < session[w] \/ (i = session[w] /\ at[w] \in {"idle", "done"})

\* A session is over only by a step that writes its row or books its failure.
LEMMA OverIsBooked ==
  ASSUME TypeOK, Coherent, [Next]_vars, BrokerCostsNoSession
  PROVE  BrokerCostsNoSession'
<1> SUFFICES ASSUME NEW v \in Workers, NEW i \in 1 .. MaxSessions, Over(v, i)'
             PROVE  <<v, i>> \in row' \cup faults'
    BY DEF BrokerCostsNoSession, Over
<1> USE DEF Over
<1>1. Over(v, i) => <<v, i>> \in row \cup faults
    BY DEF BrokerCostsNoSession
<1>2. at \in [Workers -> {"idle", "running", "persisting", "done"} \cup Publishing]
      /\ session \in [Workers -> 0 .. MaxSessions] /\ MaxSessions \in Nat
    BY SessionAssumption DEF SessionAssumption, TypeOK
<1>3. CASE UNCHANGED <<at, session, row, faults>>
    BY <1>1, <1>3
<1>4. ASSUME NEW w \in Workers, Work(w) PROVE <<v, i>> \in row' \cup faults'
  <2>1. CASE PickPersona(w)
    BY <1>1, <1>2, <2>1 DEF PickPersona, Goto, dataVars
  <2>2. CASE Leave(w)
    BY <1>1, <1>2, <2>2 DEF Leave, Goto, dataVars, runVars
  <2>3. CASE Publish(w)
    <3>1. /\ at[w] \in Publishing
          /\ at' = at \/ at' = [at EXCEPT ![w] = Following(w)]
          /\ UNCHANGED <<session, row, faults>>
      BY <2>3 DEF Publish, Published, Goto, Onward, runVars, dataVars
    <3>2. Following(w) \notin {"idle", "done"}
      BY <3>1, FollowingOK
    <3> QED
      BY <1>1, <1>2, <3>1, <3>2
  <2>4. CASE \E n \in Nodes : EnterNode(w, n)
    BY <1>3, <2>4 DEF EnterNode, dataVars
  <2>5. CASE \E asked \in BOOLEAN, raised \in {0, 1}, validates \in BOOLEAN :
             Step(w, asked, raised, validates)
    BY <1>3, <2>5 DEF Step
  <2>6. CASE RunEnds(w)
    <3>1. at' = [at EXCEPT ![w] = AfterRun(w)] /\ UNCHANGED <<session, row, faults>>
      BY <2>6 DEF RunEnds, Goto, dataVars
    <3> QED
      BY <1>1, <1>2, <3>1 DEF AfterRun
  <2>7. CASE RunFails(w) \/ Persist(w) \/ PersistFails(w)
    <3>1. /\ \A u \in Workers : u # w => at'[u] = at[u]
          /\ session' = session
      BY <1>2, <2>7 DEF RunFails, Persist, PersistFails, Return, Goto, runVars
    <3>2. /\ Session(w) \in row' \cup faults'
          /\ row \subseteq row' /\ faults \subseteq faults'
      BY <2>7 DEF RunFails, Persist, PersistFails
    <3> QED
      BY <1>1, <1>2, <3>1, <3>2 DEF Session
  <2>8. CASE Interrupted(w)
    <3>1. /\ at' = [at EXCEPT ![w] = "done"] /\ session' = session
          /\ at[w] # "idle" => Session(w) \in faults'
          /\ row \subseteq row' /\ faults \subseteq faults'
      BY <2>8 DEF Interrupted, Goto
    <3> QED
      BY <1>1, <1>2, <3>1 DEF Session
  <2> QED
    BY <1>4, <2>1, <2>2, <2>3, <2>4, <2>5, <2>6, <2>7, <2>8 DEF Work
<1>5. CASE ProcessStep \/ Down \/ UNCHANGED vars
  <2>1. UNCHANGED <<at, session, row, faults>>
    BY <1>5 DEF ProcessStep, Boot, Shutdown, DrainTimeout, StopPublisher, Stopped, Down,
                vars, runVars, dataVars
  <2> QED
    BY <1>3, <2>1
<1> QED
    BY <1>4, <1>5 DEF Next, ProcessStep

\* kafka_publisher.py:40-41, 158-163, scheduler.py:59-75: with any number of
\* workers and sessions, and whatever the broker does, a session that is over
\* has its row, unless its graph, the database or the drain ended it.
THEOREM BrokerNeverCostsASession == Spec => []BrokerCostsNoSession
<1>1. Init => BrokerCostsNoSession
    BY DEF Init, BrokerCostsNoSession
<1>2. TypeOK /\ Coherent /\ [Next]_vars /\ BrokerCostsNoSession => BrokerCostsNoSession'
    BY OverIsBooked
<1> QED
    BY <1>1, <1>2, Inductive, PTL DEF Spec

------------------------------------------------------------------------------
(* The topics *)

\* The session's first events, with i of its decisions.
SoFar(s, i) == Has(s, Start) /\ \A j \in 1 .. i : Has(s, Decision(j))

InOrder(s) ==
    /\ \A i \in 1 .. decisions[s] : Has(s, Decision(i)) => SoFar(s, i)
    /\ Has(s, End) => SoFar(s, decisions[s])

\* What the topics have of a worker's session, by where the worker is.  What
\* it has sent is there as long as the publisher is not degraded, and for the
\* event that is in flight even after.
Position(w) ==
    LET s == Session(w)
    IN  /\ at[w] = "started" => sent[w] = 0 /\ \A e \in Nat : ~Has(s, e)
        /\ at[w] = "running" => sent[w] = 0 /\ \A e \in Nat \ {0} : ~Has(s, e)
        /\ at[w] = "decisions" => sent[w] < decisions[s]
        /\ at[w] = "ended" => sent[w] = decisions[s]
        /\ at[w] \in {"decisions", "ended"} =>
              \A e \in Nat : Has(s, e) => e # End /\ e <= sent[w] + 1
        /\ at[w] \in {"running", "decisions", "ended"} /\ (~degraded \/ call[w] = "inFlight")
              => SoFar(s, sent[w])
        /\ at[w] = "persisting" => Has(s, End) \/ degraded

\* Of the sessions to come the topics have nothing.
Unheard(w) == \A i \in 1 .. MaxSessions, e \in Nat : i > session[w] => ~Has(<<w, i>>, e)

Ordered ==
    /\ \A s \in Sessions : InOrder(s)
    /\ \A w \in Workers : Position(w) /\ Unheard(w)

LEMMA OrderedIsOrder == Ordered => PublishedInOrder
  BY DEF Ordered, InOrder, SoFar, PublishedInOrder

LEMMA InitOrdered == Init => Ordered
  BY DEF Init, PublisherInit, Ordered, InOrder, SoFar, Has, Position, Unheard

\* A session whose events and decisions stay keeps their order.
LEMMA OrderKept ==
  ASSUME NEW s, InOrder(s), decisions'[s] = decisions[s],
         \A e \in Nat : Has(s, e)' <=> Has(s, e), decisions[s] \in Nat
  PROVE  InOrder(s)'
<1>1. \A j \in 1 .. decisions[s] : Decision(j) \in Nat
    BY DEF Decision
<1>2. Start \in Nat /\ End \in Nat
    BY DEF Start, End
<1>3. \A i \in 1 .. decisions[s] : SoFar(s, i)' <=> SoFar(s, i)
    BY <1>1, <1>2 DEF SoFar
<1>4. SoFar(s, decisions[s])' <=> SoFar(s, decisions[s])
    BY <1>1, <1>2 DEF SoFar
<1> QED
    BY <1>1, <1>2, <1>3, <1>4 DEF InOrder

\* A worker whose session no event and no step touches keeps its position.
LEMMA PositionKept ==
  ASSUME TypeOK, Coherent, NEW v \in Workers, Position(v), Unheard(v),
         at'[v] = at[v], session'[v] = session[v], sent'[v] = sent[v], call'[v] = call[v],
         Session(v) \in Sessions => decisions'[Session(v)] = decisions[Session(v)],
         degraded => degraded',
         \A i \in 0 .. MaxSessions, e \in Nat : Has(<<v, i>>, e)' <=> Has(<<v, i>>, e)
  PROVE  Position(v)' /\ Unheard(v)'
<1>1. Unheard(v)'
    BY SessionAssumption DEF SessionAssumption, Unheard
<1>2. at[v] \notin {"idle", "done"} => Session(v) \in Sessions
    BY InSessionsWhenBusy
<1>3. Session(v)' = Session(v) /\ sent[v] \in Nat /\ session[v] \in 0 .. MaxSessions
    BY DEF Session, TypeOK
<1>4. \A e \in Nat : Has(Session(v), e)' <=> Has(Session(v), e)
    BY <1>3 DEF Session
<1>5. SoFar(Session(v), sent[v])' <=> SoFar(Session(v), sent[v])
  <2>1. Start \in Nat /\ \A j \in 1 .. sent[v] : Decision(j) \in Nat
    BY <1>3 DEF Start, Decision
  <2> QED
    BY <1>3, <1>4, <2>1 DEF SoFar
<1>6. End \in Nat
    BY DEF End
<1>7. Position(v)'
    BY <1>2, <1>3, <1>4, <1>5, <1>6 DEF Position
<1> QED
    BY <1>1, <1>7

\* A step of a worker that sends nothing.
LEMMA QuietOK ==
  ASSUME TypeOK, Coherent, Ordered, NEW w \in Workers,
         UNCHANGED publisherVars,
         \A v \in Workers \ {w} : at'[v] = at[v] /\ session'[v] = session[v]
                                  /\ sent'[v] = sent[v],
         session'[w] >= session[w], session'[w] \in Nat,
         \A s \in Sessions : s # Session(w) \/ at[w] # "running" =>
                                 decisions'[s] = decisions[s],
         Position(w)'
  PROVE  Ordered'
<1>1. UNCHANGED <<topics, degraded, call>>
    BY DEF publisherVars
<1>2. ASSUME NEW s, NEW e PROVE Has(s, e)' <=> Has(s, e)
    BY <1>1 DEF Has
<1>3. ASSUME NEW s \in Sessions PROVE InOrder(s)'
  <2>1. decisions[s] \in Nat
    BY DEF TypeOK
  <2>2. CASE decisions'[s] = decisions[s]
    BY <1>2, <2>1, <2>2, OrderKept DEF Ordered
  <2>3. CASE s = Session(w) /\ at[w] = "running"
    <3>1. \A e \in Nat \ {0} : ~Has(s, e)'
      BY <1>2, <2>3 DEF Ordered, Position
    <3>2. End \in Nat \ {0} /\ \A i \in 1 .. decisions'[s] : Decision(i) \in Nat \ {0}
      BY DEF End, Decision
    <3> QED
      BY <3>1, <3>2 DEF InOrder
  <2> QED
    BY <2>2, <2>3
<1>4. ASSUME NEW v \in Workers, v # w PROVE Position(v)' /\ Unheard(v)'
  <2>1. Session(v) \in Sessions => decisions'[Session(v)] = decisions[Session(v)]
    BY <1>4 DEF Session
  <2> QED
    BY <1>1, <1>2, <1>4, <2>1, PositionKept DEF Ordered
<1>5. Unheard(w)'
  <2>1. session[w] \in Nat
    BY DEF TypeOK
  <2> QED
    BY <1>2, <2>1, SessionAssumption DEF SessionAssumption, Ordered, Unheard
<1> QED
    BY <1>3, <1>4, <1>5 DEF Ordered

LEMMA QuietActions ==
  ASSUME TypeOK, Coherent, Ordered, NEW w \in Workers,
         \/ PickPersona(w) \/ Leave(w)
         \/ \E n \in Nodes : EnterNode(w, n)
         \/ \E asked \in BOOLEAN, raised \in {0, 1}, validates \in BOOLEAN :
                Step(w, asked, raised, validates)
         \/ RunEnds(w) \/ RunFails(w) \/ Persist(w) \/ PersistFails(w)
  PROVE  Ordered'
<1> USE DEF Goto
<1>1. /\ at \in [Workers -> {"idle", "running", "persisting", "done"} \cup Publishing]
      /\ session \in [Workers -> 0 .. MaxSessions] /\ MaxSessions \in Nat
      /\ sent \in [Workers -> Nat]
      /\ decisions \in [Sessions -> Nat]
    BY SessionAssumption DEF SessionAssumption, TypeOK
<1>2. Position(w) /\ Unheard(w) /\ session[w] \in Nat
    BY <1>1 DEF Ordered
<1>3. CASE PickPersona(w)
  <2>1. /\ session[w] < MaxSessions /\ session' = [session EXCEPT ![w] = @ + 1]
        /\ sent' = [sent EXCEPT ![w] = 0] /\ at' = [at EXCEPT ![w] = "started"]
        /\ UNCHANGED publisherVars /\ decisions' = decisions
    BY <1>3 DEF PickPersona, stateVars
  <2>2. \A e \in Nat : ~Has(Session(w), e)'
    BY <1>1, <1>2, <2>1 DEF Unheard, Has, Session, publisherVars
  <2>3. Position(w)'
    BY <1>1, <2>1, <2>2 DEF Position
  <2> QED
    BY <1>1, <2>1, <2>3, QuietOK
<1>4. CASE Leave(w)
  <2>1. /\ at' = [at EXCEPT ![w] = "done"]
        /\ UNCHANGED <<session, sent, decisions>> /\ UNCHANGED publisherVars
    BY <1>4 DEF Leave, runVars, stateVars
  <2>2. Position(w)'
    BY <1>1, <2>1 DEF Position
  <2> QED
    BY <1>1, <2>1, <2>2, QuietOK
<1>5. CASE \E n \in Nodes : EnterNode(w, n)
  <2>1. UNCHANGED <<at, session, sent, decisions>> /\ UNCHANGED publisherVars
    BY <1>5 DEF EnterNode, stateVars
  <2>2. Position(w)'
    BY <1>2, <2>1 DEF Position, Session, SoFar, Has, publisherVars
  <2> QED
    BY <1>1, <2>1, <2>2, QuietOK
<1>6. CASE \E asked \in BOOLEAN, raised \in {0, 1}, validates \in BOOLEAN :
             Step(w, asked, raised, validates)
  <2>1. /\ at[w] = "running" /\ UNCHANGED <<at, session, sent>> /\ UNCHANGED publisherVars
        /\ \E asked \in BOOLEAN : Decide(w, asked)
    BY <1>6 DEF Step, TypeOK
  <2>2. Position(w)'
    BY <1>2, <2>1 DEF Position, Session, SoFar, Has, publisherVars
  <2>3. \A s \in Sessions : s # Session(w) => decisions'[s] = decisions[s]
    BY <1>1, <2>1 DEF Decide
  <2> QED
    BY <1>1, <2>1, <2>2, <2>3, QuietOK
<1>7. CASE RunEnds(w)
  <2>1. /\ at[w] = "running" /\ at' = [at EXCEPT ![w] = AfterRun(w)]
        /\ UNCHANGED <<session, sent>> /\ UNCHANGED publisherVars
        /\ FinalState(w)
    BY <1>7 DEF RunEnds
  <2>2. Session(w) \in Sessions
    BY <2>1, InSessionsWhenBusy
  <2>3. \A s \in Sessions : s # Session(w) => decisions'[s] = decisions[s]
    BY <1>1, <2>1 DEF FinalState
  <2>4. decisions'[Session(w)] \in Nat
    BY <1>1, <2>1, <2>2 DEF FinalState
  <2>5. at'[w] = IF decisions'[Session(w)] > 0 THEN "decisions" ELSE "ended"
    BY <1>1, <2>1 DEF AfterRun
  <2>6. /\ sent[w] = 0 /\ \A e \in Nat \ {0} : ~Has(Session(w), e)
        /\ ~degraded \/ call[w] = "inFlight" => SoFar(Session(w), 0)
    BY <1>2, <2>1 DEF Position
  <2>7. Session(w)' = Session(w) /\ UNCHANGED <<topics, degraded, call>>
    BY <2>1 DEF Session, publisherVars
  <2>8. \A e \in Nat : Has(Session(w), e)' => e = 0
    BY <2>6, <2>7 DEF Has
  <2>9. ~degraded \/ call[w] = "inFlight" => SoFar(Session(w), 0)'
    BY <2>6, <2>7 DEF SoFar, Has
  <2>10. Position(w)'
    BY <2>1, <2>4, <2>5, <2>6, <2>7, <2>8, <2>9 DEF Position, End
  <2> QED
    BY <1>1, <2>1, <2>3, <2>10, QuietOK DEF AfterRun
<1>8. CASE RunFails(w) \/ Persist(w) \/ PersistFails(w)
  <2>1. /\ \A v \in Workers \ {w} : at'[v] = at[v]
        /\ at'[w] \in {"idle", "done"}
        /\ UNCHANGED <<session, sent, decisions>> /\ UNCHANGED publisherVars
    BY <1>1, <1>8 DEF RunFails, Persist, PersistFails, Return, runVars, stateVars
  <2>2. Position(w)'
    BY <2>1 DEF Position
  <2> QED
    BY <1>1, <2>1, <2>2, QuietOK
<1> QED
    BY <1>3, <1>4, <1>5, <1>6, <1>7, <1>8

\* The event that a worker's call is about.
EventNumber(w) ==
    CASE at[w] = "decisions" -> sent[w] + 2
      [] at[w] = "ended"     -> 1
      [] OTHER               -> 0

LEMMA EventIs ==
  ASSUME TypeOK, NEW w \in Workers
  PROVE  Event(w) = <<Session(w), EventNumber(w)>> /\ EventNumber(w) \in Nat
    BY DEF TypeOK, Event, EventNumber, Decision, Start, End

\* What a step of the call of w may do to what others see.
Sends(w) ==
    /\ topics' \in {topics, topics \cup {Event(w)}}
    /\ topics' # topics => call[w] = "inFlight"
    /\ Leaves(w)
    /\ \A v \in Workers \ {w} : at'[v] = at[v] /\ sent'[v] = sent[v]
    /\ UNCHANGED session
    /\ UNCHANGED decisions

LEMMA HeardOK ==
  ASSUME TypeOK, NEW w \in Workers, Sends(w), NEW s, NEW e
  PROVE  /\ Has(s, e) => Has(s, e)'
         /\ Has(s, e)' => Has(s, e) \/ (s = Session(w) /\ e = EventNumber(w)
                                        /\ call[w] = "inFlight")
    BY EventIs DEF Sends, Has

LEMMA OrderGrows ==
  ASSUME TypeOK, Coherent, Ordered, NEW w \in Workers, Sends(w)
  PROVE  \A s \in Sessions : InOrder(s)'
<1> SUFFICES ASSUME NEW s \in Sessions PROVE InOrder(s)'
    OBVIOUS
<1>1. decisions[s] \in Nat /\ decisions'[s] = decisions[s] /\ sent[w] \in Nat
    BY DEF TypeOK, Sends
<1>2. InOrder(s)
    BY DEF Ordered
<1>3. CASE \A e \in Nat : Has(s, e)' <=> Has(s, e)
    BY <1>1, <1>2, <1>3, OrderKept
<1>4. CASE s = Session(w) /\ call[w] = "inFlight"
  <2> DEFINE k == EventNumber(w)
  <2>1. at[w] \in Publishing /\ Position(w)
    BY <1>4 DEF Coherent, CallsCoherent, Ordered
  <2>2. /\ \A e : Has(s, e) => Has(s, e)'
        /\ \A e : Has(s, e)' => Has(s, e) \/ e = k
    BY <1>4, HeardOK
  <2>3. CASE at[w] = "started"
    <3>1. k = 0 /\ \A e \in Nat : ~Has(s, e)
      BY <1>4, <2>1, <2>3 DEF Position, EventNumber
    <3>2. \A e \in Nat \ {0} : ~Has(s, e)'
      BY <2>2, <3>1
    <3> QED
      BY <1>1, <3>2 DEF InOrder, Decision, End
  <2>4. CASE at[w] = "decisions"
    <3>1. /\ k = sent[w] + 2 /\ SoFar(s, sent[w])
          /\ \A e \in Nat : Has(s, e) => e # 1 /\ e <= sent[w] + 1
      BY <1>4, <2>1, <2>4 DEF Position, EventNumber, End
    <3>2. \A e \in Nat : Has(s, e)' => e # 1 /\ e <= sent[w] + 2
      BY <1>1, <2>2, <3>1
    <3>3. Has(s, Start)' /\ \A j \in 1 .. sent[w] : Has(s, Decision(j))'
      BY <2>2, <3>1 DEF SoFar
    <3>4. ASSUME NEW i \in 1 .. decisions'[s], Has(s, Decision(i))' PROVE SoFar(s, i)'
      <4>1. i \in Nat /\ Decision(i) = i + 1 /\ i <= sent[w] + 1
        BY <1>1, <3>2, <3>4 DEF Decision
      <4>2. \A j \in 1 .. i : j \in 1 .. sent[w] \/ j = i
        BY <1>1, <4>1
      <4> QED
        BY <3>3, <3>4, <4>1, <4>2 DEF SoFar
    <3>5. ~Has(s, End)'
      BY <3>2 DEF End
    <3> QED
      BY <3>4, <3>5 DEF InOrder
  <2>5. CASE at[w] = "ended"
    <3>1. SoFar(s, decisions[s])
      BY <1>4, <2>1, <2>5 DEF Position
    <3>2. Has(s, Start)' /\ \A j \in 1 .. decisions[s] : Has(s, Decision(j))'
      BY <2>2, <3>1 DEF SoFar
    <3> QED
      BY <1>1, <3>2 DEF InOrder, SoFar
  <2> QED
    BY <2>1, <2>3, <2>4, <2>5 DEF Publishing
<1> QED
    BY <1>3, <1>4, HeardOK

\* The other workers do not notice, and the sessions to come stay unheard of.
LEMMA OthersKept ==
  ASSUME TypeOK, Coherent, Ordered, NEW w \in Workers, Sends(w)
  PROVE  /\ \A v \in Workers \ {w} : Position(v)' /\ Unheard(v)'
         /\ Unheard(w)'
<1>1. ASSUME NEW v \in Workers \ {w} PROVE Position(v)' /\ Unheard(v)'
  <2>1. ASSUME NEW i \in 0 .. MaxSessions, NEW e \in Nat
        PROVE  Has(<<v, i>>, e)' <=> Has(<<v, i>>, e)
      BY HeardOK DEF Session
  <2>2. /\ at'[v] = at[v] /\ session'[v] = session[v] /\ sent'[v] = sent[v]
        /\ call'[v] = call[v] /\ (degraded => degraded')
        /\ decisions'[Session(v)] = decisions[Session(v)]
    BY MainIsATask DEF Sends, Leaves
  <2> QED
    BY <2>1, <2>2, PositionKept DEF Ordered
<1>2. Unheard(w)'
  <2>1. session[w] \in Nat /\ session'[w] = session[w]
    BY DEF TypeOK, Sends
  <2> QED
    BY <2>1, HeardOK, SessionAssumption DEF SessionAssumption, Ordered, Unheard, Session
<1> QED
    BY <1>1, <1>2

LEMMA PublishOrdered ==
  ASSUME TypeOK, Coherent, Ordered, NEW w \in Workers, Publish(w)
  PROVE  Ordered'
<1>1. /\ at[w] \in Publishing
      /\ IF call'[w] = "out" THEN Published(w) ELSE UNCHANGED <<at, sent>>
      /\ UNCHANGED session /\ UNCHANGED decisions
    BY DEF Publish, runVars, stateVars
<1>2. PICK S \in Sessions : S = Session(w)
    BY <1>1, InSessionsWhenBusy DEF Publishing
<1>3. PICK k \in Nat, n \in Nat : k = EventNumber(w) /\ n = sent[w]
    BY EventIs DEF TypeOK
<1>4. Leaves(w) /\ SendOutcome(w, Event(w))
    BY PublishOK
<1>5. /\ at \in [Workers -> {"idle", "running", "persisting", "done"} \cup Publishing]
      /\ sent \in [Workers -> Nat] /\ sent[w] \in Nat
    BY DEF TypeOK
<1>6. Sends(w)
    BY <1>1, <1>4, <1>5 DEF Sends, SendOutcome, Published, Goto
<1>7. /\ Position(w) /\ S = Session(w) /\ S = Session(w)'
      /\ decisions[S] \in Nat /\ decisions'[S] = decisions[S]
    BY <1>1, <1>2 DEF Ordered, Session, TypeOK
<1>8. /\ \A e : Has(S, e) => Has(S, e)'
      /\ \A e : Has(S, e)' => Has(S, e) \/ (e = k /\ call[w] = "inFlight")
    BY <1>6, <1>7, <1>3, HeardOK
<1>9. \A i \in Nat : SoFar(S, i) => SoFar(S, i)'
    BY <1>7, <1>8 DEF SoFar
<1>10. Position(w)'
  <2>1. CASE call'[w] # "out"
    <3>1. UNCHANGED <<at, sent, topics>> /\ (call'[w] = "inFlight" => ~degraded)
      BY <1>1, <1>4, <2>1 DEF SendOutcome
    <3>2. \A e : Has(S, e)' <=> Has(S, e)
      BY <1>7, <3>1 DEF Has
    <3> QED
      BY <1>1, <1>4, <1>5, <1>7, <1>9, <3>1, <3>2 DEF Position, Leaves, Publishing
  <2>2. CASE call'[w] = "out"
    <3>1. /\ at'[w] = Following(w)
          /\ sent'[w] = IF at[w] = "decisions" THEN n + 1 ELSE n
      BY <1>3, <1>1, <1>5, <2>2 DEF Published, Goto, Onward
    <3>2. degraded' \/ Has(S, k)'
      BY <1>3, <1>4, <1>7, <2>2, EventIs DEF SendOutcome, Has
    <3>3. degraded => degraded'
      BY <1>4 DEF Leaves
    <3>4. CASE at[w] = "started"
      <4>1. n = 0 /\ \A e \in Nat : ~Has(S, e)
        BY <1>3, <1>7, <3>4 DEF Position
      <4>2. k = 0 /\ at'[w] = "running" /\ sent'[w] = 0
        BY <1>3, <3>1, <3>4, <4>1 DEF EventNumber, Following
      <4>3. \A e \in Nat \ {0} : ~Has(S, e)'
        BY <1>8, <4>1, <4>2
      <4>4. ~degraded' => SoFar(S, 0)'
        BY <3>2, <4>2 DEF SoFar, Start
      <4> QED
        BY <1>7, <2>2, <4>2, <4>3, <4>4 DEF Position
    <3>5. CASE at[w] = "decisions"
      <4>1. /\ n < decisions[S]
            /\ \A e \in Nat : Has(S, e) => e # 1 /\ e <= n + 1
            /\ ~degraded => SoFar(S, n)
        BY <1>3, <1>7, <3>5 DEF Position, End
      <4>2. /\ k = n + 2 /\ sent'[w] = n + 1
            /\ at'[w] = IF n + 1 < decisions[S] THEN "decisions" ELSE "ended"
        BY <1>3, <1>7, <3>1, <3>5 DEF EventNumber, Following
      <4>3. \A e \in Nat : Has(S, e)' => e # 1 /\ e <= n + 2
        BY <1>8, <4>1, <4>2
      <4>4. ~degraded' => SoFar(S, n + 1)'
        <5>1. SUFFICES ASSUME ~degraded' PROVE SoFar(S, n + 1)'
          OBVIOUS
        <5>2. Has(S, Start)' /\ \A j \in 1 .. n : Has(S, Decision(j))'
          BY <1>9, <3>3, <4>1, <5>1 DEF SoFar
        <5>3. Has(S, Decision(n + 1))'
          <6>1. Decision(n + 1) = k
            BY <4>2 DEF Decision
          <6> QED
            BY <3>2, <5>1, <6>1
        <5>4. \A j \in 1 .. n + 1 : j \in 1 .. n \/ j = n + 1
          OBVIOUS
        <5>5. \A j \in 1 .. n + 1 : Has(S, Decision(j))'
          BY <5>2, <5>3, <5>4
        <5> QED
          BY <5>2, <5>5 DEF SoFar
      <4> QED
        BY <1>1, <1>5, <1>7, <2>2, <4>1, <4>2, <4>3, <4>4 DEF Position, End
    <3>6. CASE at[w] = "ended"
      <4>1. at'[w] = "persisting" /\ k = 1
        BY <1>3, <3>1, <3>6 DEF EventNumber, Following
      <4> QED
        BY <1>7, <3>2, <4>1 DEF Position, End
    <3> QED
      BY <1>1, <3>4, <3>5, <3>6 DEF Publishing
  <2> QED
    BY <2>1, <2>2
<1> QED
    BY <1>6, <1>10, OrderGrows, OthersKept DEF Ordered

LEMMA InterruptedOrdered ==
  ASSUME TypeOK, Coherent, Ordered, NEW w \in Workers, Interrupted(w)
  PROVE  Ordered'
<1>1. at' = [at EXCEPT ![w] = "done"] /\ UNCHANGED <<session, sent, decisions>>
    BY DEF Interrupted, Goto, stateVars
<1>2. /\ \A v \in Workers \ {w} : at'[v] = at[v]
      /\ at'[w] = "done"
    BY <1>1 DEF TypeOK
<1>3. Sends(w)
    BY <1>1, <1>2, InterruptedOK DEF Sends
<1>4. Position(w)'
    BY <1>2 DEF Position
<1> QED
    BY <1>3, <1>4, OrderGrows, OthersKept DEF Ordered

LEMMA ProcessOrdered ==
  ASSUME TypeOK, Coherent, Ordered, ProcessStep \/ Down \/ UNCHANGED vars
  PROVE  Ordered'
<1>1. UNCHANGED <<at, session, sent, decisions>>
    BY DEF ProcessStep, Boot, Shutdown, DrainTimeout, StopPublisher, Stopped, Down,
           vars, runVars, stateVars
<1>2. /\ topics' = topics /\ (degraded => degraded')
      /\ \A v \in Workers : call'[v] = call[v]
  <2>1. CASE Boot \/ StopPublisher \/ Stopped
    BY <2>1, BootOK, StopOK, MainIsATask, PublisherAssumption
    DEF PublisherAssumption, Leaves
  <2>2. CASE Shutdown \/ DrainTimeout \/ Down \/ UNCHANGED vars
    BY <2>2 DEF Shutdown, DrainTimeout, Down, vars, publisherVars
  <2> QED
    BY <2>1, <2>2 DEF ProcessStep
<1>3. ASSUME NEW s, NEW e PROVE Has(s, e)' <=> Has(s, e)
    BY <1>2 DEF Has
<1>4. ASSUME NEW s \in Sessions PROVE InOrder(s)'
  <2>1. decisions[s] \in Nat
    BY DEF TypeOK
  <2> QED
    BY <1>1, <1>3, <2>1, OrderKept DEF Ordered
<1>5. ASSUME NEW v \in Workers PROVE Position(v)' /\ Unheard(v)'
    BY <1>1, <1>2, <1>3, PositionKept DEF Ordered
<1> QED
    BY <1>4, <1>5 DEF Ordered

LEMMA OrderedStep ==
  ASSUME TypeOK, Coherent, Ordered, [Next]_vars
  PROVE  Ordered'
<1>1. ASSUME NEW w \in Workers, Work(w) PROVE Ordered'
    BY <1>1, QuietActions, PublishOrdered, InterruptedOrdered DEF Work
<1> QED
    BY <1>1, ProcessOrdered DEF Next, ProcessStep

\* scheduler.py:50-58, kafka_publisher.py:33, 171-196: with any number of
\* workers, sessions and decisions, and with the broker failing whenever it
\* does, the lake has of every session a beginning of it.
THEOREM AlwaysPublishedInOrder == Spec => []PublishedInOrder
<1>1. Init => Ordered
    BY InitOrdered
<1>2. TypeOK /\ Coherent /\ Ordered /\ [Next]_vars => Ordered'
    BY OrderedStep
<1>3. Ordered => PublishedInOrder
    BY OrderedIsOrder
<1> QED
    BY <1>1, <1>2, <1>3, Inductive, PTL DEF Spec

\* What is published stays so, and a degraded publisher does.
LEMMA NothingIsTakenBack ==
  ASSUME TypeOK, Coherent, [Next]_vars
  PROVE  topics \subseteq topics' /\ (degraded => degraded')
<1>1. ASSUME NEW w \in Workers, Work(w) PROVE topics \subseteq topics' /\ (degraded => degraded')
  <2>1. CASE Publish(w)
    BY <2>1, PublishOK DEF SendOutcome, Leaves
  <2>2. CASE Interrupted(w)
    BY <2>2, InterruptedOK DEF Leaves
  <2>3. CASE ~Publish(w) /\ ~Interrupted(w)
    <3>1. UNCHANGED publisherVars
      BY <1>1, <2>3 DEF Work, PickPersona, Leave, EnterNode, Step, RunEnds, RunFails,
                        Persist, PersistFails
    <3> QED
      BY <3>1 DEF publisherVars
  <2> QED
    BY <2>1, <2>2, <2>3
<1>2. CASE Boot \/ StopPublisher \/ Stopped
    BY <1>2, BootOK, StopOK DEF Leaves
<1>3. CASE Shutdown \/ DrainTimeout \/ Down \/ UNCHANGED vars
    BY <1>3 DEF Shutdown, DrainTimeout, Down, vars, publisherVars
<1> QED
    BY <1>1, <1>2, <1>3 DEF Next

\* A row is written only at the end of run_one.
LEMMA NewRows ==
  ASSUME TypeOK, [Next]_vars, NEW s \in row', s \notin row
  PROVE  \E w \in Workers : at[w] = "persisting" /\ s = Session(w)
<1>1. ASSUME NEW w \in Workers, Work(w) PROVE at[w] = "persisting" /\ s = Session(w)
  <2>1. CASE Persist(w) \/ PersistFails(w) \/ Interrupted(w)
    BY <2>1 DEF Persist, PersistFails, Interrupted
  <2>2. CASE ~Persist(w) /\ ~PersistFails(w) /\ ~Interrupted(w)
    <3>1. row' = row
      BY <1>1, <2>2 DEF Work, PickPersona, Leave, Publish, EnterNode, Step, RunEnds, RunFails,
                        dataVars
    <3> QED
      BY <3>1
  <2> QED
    BY <2>1, <2>2
<1>2. CASE ProcessStep \/ Down \/ UNCHANGED vars
    BY <1>2 DEF ProcessStep, Boot, Shutdown, DrainTimeout, StopPublisher, Stopped, Down,
                vars, dataVars
<1> QED
    BY <1>1, <1>2 DEF Next, ProcessStep

\* scheduler.py:59-75: a session that has its row has its end in the lake, or
\* the publisher is degraded.
THEOREM RowsAreAnnounced == Spec => []RowIsAnnounced
<1>1. Init => Ordered /\ RowIsAnnounced
    BY InitOrdered DEF Init, RowIsAnnounced
<1>2. TypeOK /\ Coherent /\ Ordered /\ RowIsAnnounced /\ [Next]_vars
          => Ordered' /\ RowIsAnnounced'
  <2> SUFFICES ASSUME TypeOK, Coherent, Ordered, RowIsAnnounced, [Next]_vars
               PROVE  Ordered' /\ RowIsAnnounced'
    OBVIOUS
  <2>1. ASSUME NEW s \in row' PROVE Has(s, End) \/ degraded
    <3>1. CASE s \in row
      BY <3>1 DEF RowIsAnnounced
    <3>2. CASE s \notin row
      <4>1. PICK w \in Workers : at[w] = "persisting" /\ s = Session(w)
        BY <2>1, <3>2, NewRows
      <4> QED
        BY <4>1 DEF Ordered, Position
    <3> QED
      BY <3>1, <3>2
  <2>2. RowIsAnnounced'
    BY <2>1, NothingIsTakenBack DEF RowIsAnnounced, Has
  <2> QED
    BY <2>2, OrderedStep
<1> QED
    BY <1>1, <1>2, Inductive, PTL DEF Spec

------------------------------------------------------------------------------
(* The live floor *)

\* A worker's seat is where its session is.  At abandon and at purchased sits
\* a session that is over.
SeatIsTrue(w) ==
    /\ at[w] \in {"idle", "started"} => floor[w] = IdleSeat
    /\ at[w] = "done" => floor[w] = NoSeat
    /\ w \in InSession => floor[w].status = "in_session"
    /\ at[w] = "running" =>
          floor[w].station = IF Where(w) = NoNode THEN Entrance ELSE Where(w)
    /\ w \in InSession \ Running => floor[w].station \in {Abandon, Purchased}

\* Between two runs there is nothing left of the run before.
Forgotten(w) ==
    at[w] # "running" =>
        node[w] = NoNode /\ last[w] = NoNode /\ counted[w] = 0 /\ valid[w] = TRUE

\* A session has no errors before it runs.
Unharmed(w) ==
    \A i \in 1 .. MaxSessions :
        i > session[w] \/ (i = session[w] /\ at[w] = "started") => errors[<<w, i>>] = 0

\* As long as every update validated, run_session has counted what there is.
AllRead(w) ==
    unread = {} => /\ valid[w] = TRUE
                   /\ at[w] = "running" => counted[w] = errors[Session(w)]

\* Only a session that is over has a row.
RowIsOver(w) == \A i \in 1 .. MaxSessions : <<w, i>> \in row => Over(w, i)

Told(w) == SeatIsTrue(w) /\ Forgotten(w) /\ Unharmed(w) /\ AllRead(w) /\ RowIsOver(w)

\* A step of w leaves what is told of the others alone.
Aside(w) ==
    /\ \A u \in Workers \ {w} :
          /\ at'[u] = at[u] /\ session'[u] = session[u] /\ floor'[u] = floor[u]
          /\ node'[u] = node[u] /\ last'[u] = last[u]
          /\ counted'[u] = counted[u] /\ valid'[u] = valid[u]
    /\ \A u \in Workers \ {w}, i \in 1 .. MaxSessions :
          /\ errors'[<<u, i>>] = errors[<<u, i>>]
          /\ <<u, i>> \in row' => <<u, i>> \in row
    /\ unread \subseteq unread'

LEMMA OthersTold ==
  ASSUME TypeOK, Coherent, NEW w \in Workers, Aside(w), NEW u \in Workers, u # w, Told(u)
  PROVE  Told(u)'
<1>1. /\ at'[u] = at[u] /\ session'[u] = session[u] /\ floor'[u] = floor[u]
      /\ node'[u] = node[u] /\ last'[u] = last[u]
      /\ counted'[u] = counted[u] /\ valid'[u] = valid[u]
      /\ \A i \in 1 .. MaxSessions : /\ errors'[<<u, i>>] = errors[<<u, i>>]
                                     /\ <<u, i>> \in row' => <<u, i>> \in row
      /\ unread \subseteq unread'
    BY DEF Aside
<1>2. SeatIsTrue(u)'
    BY <1>1 DEF Told, SeatIsTrue, InSession, Running, Where
<1>3. Forgotten(u)' /\ Unharmed(u)' /\ RowIsOver(u)'
    BY <1>1 DEF Told, Forgotten, Unharmed, RowIsOver, Over
<1>4. AllRead(u)'
  <2>1. at[u] = "running" => session[u] \in 1 .. MaxSessions
    BY InSessionsWhenBusy DEF Session, Sessions
  <2> QED
    BY <1>1, <2>1 DEF Told, AllRead, Session
<1> QED
    BY <1>2, <1>3, <1>4 DEF Told

LEMMA InitTold == ASSUME Init, NEW w \in Workers PROVE Told(w)
  BY DEF Init, TrackerInit, Told, SeatIsTrue, InSession, Running, Forgotten, Unharmed,
         AllRead, RowIsOver, Sessions

LEMMA PickPersonaTold ==
  ASSUME TypeOK, Coherent, NEW w \in Workers, Told(w), PickPersona(w)
  PROVE  Told(w)' /\ Aside(w)
<1>1. /\ at[w] = "idle" /\ at' = [at EXCEPT ![w] = "started"]
      /\ session' = [session EXCEPT ![w] = @ + 1]
      /\ UNCHANGED <<floor, node, last, counted, valid, errors, row, unread>>
    BY DEF PickPersona, Goto, trackerVars, locals, stateVars, dataVars
<1>2. at \in [Workers -> {"idle", "running", "persisting", "done"} \cup Publishing]
      /\ session \in [Workers -> 0 .. MaxSessions] /\ MaxSessions \in Nat
    BY SessionAssumption DEF SessionAssumption, TypeOK
<1>3. at'[w] = "started" /\ session'[w] = session[w] + 1 /\ session[w] \in Nat
    BY <1>1, <1>2
<1>4. SeatIsTrue(w)' /\ Forgotten(w)' /\ AllRead(w)'
    BY <1>1, <1>3 DEF Told, SeatIsTrue, InSession, Running, Forgotten, AllRead
<1>5. Unharmed(w)' /\ RowIsOver(w)'
    BY <1>1, <1>2, <1>3 DEF Told, Unharmed, RowIsOver, Over
<1>6. Aside(w)
    BY <1>1, <1>2 DEF Aside
<1> QED
    BY <1>4, <1>5, <1>6 DEF Told

LEMMA LeaveTold ==
  ASSUME TypeOK, Coherent, NEW w \in Workers, Told(w), Leave(w)
  PROVE  Told(w)' /\ Aside(w)
<1>1. /\ at[w] = "idle" /\ at' = [at EXCEPT ![w] = "done"]
      /\ floor' = [floor EXCEPT ![w] = NoSeat]
      /\ UNCHANGED <<session, node, last, counted, valid, errors, row, unread>>
    BY DEF Leave, Goto, Unregister, runVars, locals, stateVars, dataVars
<1>2. at'[w] = "done" /\ floor'[w] = NoSeat
    BY <1>1, TypeSplit, TrackerSplit DEF PlaceOK, SeatsOK
<1>3. SeatIsTrue(w)' /\ Forgotten(w)' /\ AllRead(w)'
    BY <1>1, <1>2 DEF Told, SeatIsTrue, InSession, Running, Forgotten, AllRead
<1>4. Unharmed(w)' /\ RowIsOver(w)'
    BY <1>1, <1>2 DEF Told, Unharmed, RowIsOver, Over
<1>5. Aside(w)
    BY <1>1 DEF Aside
<1> QED
    BY <1>3, <1>4, <1>5 DEF Told

LEMMA PublishTold ==
  ASSUME TypeOK, Coherent, NEW w \in Workers, Told(w), Publish(w)
  PROVE  Told(w)' /\ Aside(w)
<1>1. /\ at[w] \in Publishing
      /\ IF call'[w] = "out" THEN Published(w) ELSE UNCHANGED <<at, sent, floor>>
      /\ UNCHANGED <<session, node, last, counted, valid, errors, row, unread>>
    BY DEF Publish, runVars, locals, stateVars, dataVars
<1>2. /\ at \in [Workers -> {"idle", "running", "persisting", "done"} \cup Publishing]
      /\ floor \in [Workers -> SeatType]
    BY TypeSplit, TrackerSplit DEF PlaceOK, SeatsOK
<1>3. CASE call'[w] # "out"
  <2>1. UNCHANGED <<at, floor>>
    BY <1>1, <1>3
  <2>2. SeatIsTrue(w)' /\ Forgotten(w)' /\ AllRead(w)'
    BY <1>1, <2>1 DEF Told, SeatIsTrue, InSession, Running, Where, Forgotten, AllRead, Session
  <2>3. Unharmed(w)' /\ RowIsOver(w)' /\ Aside(w)
    BY <1>1, <2>1 DEF Told, Unharmed, RowIsOver, Over, Aside
  <2> QED
    BY <2>2, <2>3 DEF Told
<1>4. CASE call'[w] = "out"
  <2>1. /\ at'[w] = Following(w)
        /\ \A u \in Workers \ {w} : at'[u] = at[u] /\ floor'[u] = floor[u]
        /\ IF at[w] = "started" THEN floor'[w] = Seat("in_session", Entrance, FALSE)
                                ELSE floor'[w] = floor[w]
    BY <1>1, <1>2, <1>4 DEF Published, Goto, Onward, Upsert
  <2>2. Aside(w)
    BY <1>1, <2>1 DEF Aside
  <2>3. CASE at[w] = "started"
    <3>1. at'[w] = "running" /\ node[w] = NoNode /\ last[w] = NoNode /\ counted[w] = 0
      BY <2>1, <2>3 DEF Following, Told, Forgotten
    <3>2. SeatIsTrue(w)'
      <4>1. floor'[w].status = "in_session" /\ floor'[w].station = Entrance
        <5>1. floor'[w] = Seat("in_session", Entrance, FALSE)
          BY <2>1, <2>3
        <5> QED
          BY <5>1 DEF Seat
      <4>2. node'[w] = NoNode /\ last'[w] = NoNode
        BY <1>1, <3>1
      <4> QED
        BY <3>1, <4>1, <4>2 DEF SeatIsTrue, InSession, Running, Where
    <3>3. AllRead(w)'
      <4>1. session[w] \in 1 .. MaxSessions
        BY <2>3, InSessionsWhenBusy DEF Session, Sessions
      <4>2. errors[Session(w)] = 0
        BY <2>3, <4>1 DEF Told, Unharmed, Session
      <4> QED
        BY <1>1, <3>1, <4>2 DEF Told, AllRead, Session
    <3>4. Forgotten(w)' /\ Unharmed(w)' /\ RowIsOver(w)'
      BY <1>1, <2>3, <3>1 DEF Told, Forgotten, Unharmed, RowIsOver, Over
    <3> QED
      BY <2>2, <3>2, <3>3, <3>4 DEF Told
  <2>4. CASE at[w] \in {"decisions", "ended"}
    <3>1. at'[w] \in {"decisions", "ended", "persisting"}
      BY <2>1, <2>4 DEF Following
    <3>2. floor'[w] = floor[w]
      BY <2>1, <2>4
    <3>3. SeatIsTrue(w)'
      BY <2>4, <3>1, <3>2 DEF Told, SeatIsTrue, InSession, Running
    <3>4. AllRead(w)' /\ Forgotten(w)'
      BY <1>1, <2>4, <3>1 DEF Told, AllRead, Forgotten
    <3>5. Unharmed(w)' /\ RowIsOver(w)'
      BY <1>1, <2>4, <3>1 DEF Told, Unharmed, RowIsOver, Over
    <3> QED
      BY <2>2, <3>3, <3>4, <3>5 DEF Told
  <2> QED
    BY <1>1, <2>3, <2>4 DEF Publishing
<1> QED
    BY <1>3, <1>4

LEMMA EnterNodeTold ==
  ASSUME TypeOK, Coherent, NEW w \in Workers, Told(w), NEW n \in Nodes, EnterNode(w, n)
  PROVE  Told(w)' /\ Aside(w)
<1>1. /\ at[w] = "running" /\ node' = [node EXCEPT ![w] = n]
      /\ floor' = [floor EXCEPT ![w] = Seat("in_session", n, QwenIn(n))]
      /\ UNCHANGED <<at, session, last, counted, valid, errors, row, unread>>
    BY DEF EnterNode, ShowAt, Upsert, stateVars, dataVars
<1>2. node'[w] = n /\ floor'[w] = Seat("in_session", n, QwenIn(n)) /\ n # NoNode
    BY <1>1, TypeSplit, TrackerSplit, StationAssumption
    DEF LocalsOK, SeatsOK, StationAssumption
<1>3. SeatIsTrue(w)'
    BY <1>1, <1>2 DEF SeatIsTrue, InSession, Running, Where, Seat
<1>4. Forgotten(w)' /\ AllRead(w)'
    BY <1>1 DEF Told, Forgotten, AllRead, Session
<1>5. Unharmed(w)' /\ RowIsOver(w)' /\ Aside(w)
    BY <1>1 DEF Told, Unharmed, RowIsOver, Over, Aside
<1> QED
    BY <1>3, <1>4, <1>5 DEF Told

\* What Step does, in its two cases.
LEMMA StepFacts ==
  ASSUME TypeOK, Coherent, NEW w \in Workers, NEW asked \in BOOLEAN,
         NEW raised \in {0, 1}, NEW validates \in BOOLEAN, Step(w, asked, raised, validates)
  PROVE  /\ at[w] = "running" /\ node[w] \in Nodes /\ Session(w) \in Sessions
         /\ node' = [node EXCEPT ![w] = NoNode] /\ last' = [last EXCEPT ![w] = node[w]]
         /\ valid' = [valid EXCEPT ![w] = validates]
         /\ errors' = [errors EXCEPT ![Session(w)] = @ + raised]
         /\ UNCHANGED <<at, session, row, faults, finished>>
         /\ MayAsk(node[w], asked) /\ Decide(w, asked) /\ ExitLast(w) /\ RecordEnter(node[w])
         /\ validates => /\ counted' = [counted EXCEPT ![w] = errors'[Session(w)]]
                         /\ floor' = [floor EXCEPT ![w] = Seat("in_session", node[w], QwenIn(node[w]))]
                         /\ unread' = unread
                         /\ Tracked(w, node[w])
         /\ ~validates => /\ UNCHANGED <<counted, floor, nodeErrors, qwenCalls>>
                          /\ unread' = unread \cup {Session(w)}
<1>1. at[w] = "running" /\ node[w] # NoNode
    BY DEF Step
<1>2. Session(w) \in Sessions /\ node[w] \in Nodes
    BY <1>1, InSessionsWhenBusy DEF TypeOK
<1> QED
    BY <1>1, <1>2 DEF Step, Tracked, Untracked, CountErrors, ShowAt, Upsert

LEMMA StepTold ==
  ASSUME TypeOK, Coherent, NEW w \in Workers, Told(w), NEW asked \in BOOLEAN,
         NEW raised \in {0, 1}, NEW validates \in BOOLEAN, Step(w, asked, raised, validates)
  PROVE  Told(w)' /\ Aside(w)
<1>1. /\ at[w] = "running" /\ node[w] \in Nodes /\ Session(w) \in Sessions
      /\ UNCHANGED <<at, session, row>>
      /\ node' = [node EXCEPT ![w] = NoNode] /\ last' = [last EXCEPT ![w] = node[w]]
      /\ valid' = [valid EXCEPT ![w] = validates]
      /\ errors' = [errors EXCEPT ![Session(w)] = @ + raised]
    BY StepFacts
<1>2. \/ /\ validates /\ unread' = unread
         /\ counted' = [counted EXCEPT ![w] = errors'[Session(w)]]
         /\ floor' = [floor EXCEPT ![w] = Seat("in_session", node[w], QwenIn(node[w]))]
      \/ UNCHANGED <<counted, floor>> /\ unread' = unread \cup {Session(w)}
    BY StepFacts
<1>3. /\ last \in [Workers -> Nodes \cup {NoNode}] /\ node \in [Workers -> Nodes \cup {NoNode}]
      /\ counted \in [Workers -> Nat] /\ valid \in [Workers -> BOOLEAN]
      /\ floor \in [Workers -> SeatType] /\ errors \in [Sessions -> Nat]
    BY TypeSplit, TrackerSplit DEF LocalsOK, SeatsOK, StateOK
<1>4. node'[w] = NoNode /\ last'[w] = node[w] /\ node[w] # NoNode
    BY <1>1, <1>3, StationAssumption DEF StationAssumption
<1>5. floor'[w].status = "in_session" /\ floor'[w].station = node[w]
  <2>1. CASE floor' = [floor EXCEPT ![w] = Seat("in_session", node[w], QwenIn(node[w]))]
    <3>1. floor'[w] = Seat("in_session", node[w], QwenIn(node[w]))
      BY <1>3, <2>1
    <3> QED
      BY <3>1 DEF Seat
  <2>2. CASE floor' = floor
    BY <1>1, <1>4, <2>2 DEF Told, SeatIsTrue, InSession, Where
  <2> QED
    BY <1>2, <2>1, <2>2
<1>6. SeatIsTrue(w)'
    BY <1>1, <1>4, <1>5 DEF SeatIsTrue, InSession, Running, Where
<1>7. AllRead(w)'
  <2>1. Session(w)' = Session(w)
    BY <1>1 DEF Session
  <2>2. CASE /\ validates /\ unread' = unread
             /\ counted' = [counted EXCEPT ![w] = errors'[Session(w)]]
    <3>1. counted'[w] = errors'[Session(w)] /\ valid'[w] = TRUE
      BY <1>1, <1>3, <2>2
    <3> QED
      BY <2>1, <3>1 DEF AllRead
  <2>3. CASE unread' = unread \cup {Session(w)}
    BY <2>3 DEF AllRead
  <2> QED
    BY <1>2, <2>2, <2>3
<1>8. Forgotten(w)'
    BY <1>1 DEF Forgotten
<1>9. Unharmed(w)'
  <2>1. session[w] \in 1 .. MaxSessions /\ MaxSessions \in Nat
    BY <1>1, SessionAssumption DEF SessionAssumption, Session, Sessions
  <2>2. \A i \in 1 .. MaxSessions : i > session[w] => errors'[<<w, i>>] = errors[<<w, i>>]
    BY <1>1, <2>1 DEF Session
  <2> QED
    BY <1>1, <2>2 DEF Told, Unharmed
<1>10. RowIsOver(w)'
    BY <1>1 DEF Told, RowIsOver, Over
<1>11. Aside(w)
  <2>1. \A u \in Workers \ {w}, i \in 1 .. MaxSessions : errors'[<<u, i>>] = errors[<<u, i>>]
    BY <1>1 DEF Session
  <2>2. \A u \in Workers \ {w} : /\ node'[u] = node[u] /\ last'[u] = last[u]
                                 /\ valid'[u] = valid[u]
    BY <1>1, <1>3
  <2>3. /\ unread \subseteq unread'
        /\ \A u \in Workers \ {w} : counted'[u] = counted[u] /\ floor'[u] = floor[u]
    BY <1>2, <1>3
  <2> QED
    BY <1>1, <2>1, <2>2, <2>3 DEF Aside
<1> QED
    BY <1>6, <1>7, <1>8, <1>9, <1>10, <1>11 DEF Told

LEMMA RunEndsTold ==
  ASSUME TypeOK, Coherent, NEW w \in Workers, Told(w), RunEnds(w)
  PROVE  Told(w)' /\ Aside(w)
<1>1. /\ at[w] = "running" /\ at' = [at EXCEPT ![w] = AfterRun(w)]
      /\ \E station \in {Abandon, Purchased} :
            floor' = [floor EXCEPT ![w] = Seat("in_session", station, FALSE)]
      /\ FinalState(w) /\ Forget(w)
      /\ UNCHANGED <<session, row, unread>>
    BY DEF RunEnds, Goto, FinalStations, Upsert, dataVars
<1>2. /\ at \in [Workers -> {"idle", "running", "persisting", "done"} \cup Publishing]
      /\ session[w] \in 1 .. MaxSessions /\ MaxSessions \in Nat /\ errors \in [Sessions -> Nat]
      /\ floor \in [Workers -> SeatType]
    BY <1>1, InSessionsWhenBusy, TypeSplit, TrackerSplit, SessionAssumption
    DEF Session, Sessions, PlaceOK, SeatsOK, StateOK, SessionAssumption
<1>3. at'[w] \in {"decisions", "ended"}
    BY <1>1, <1>2 DEF AfterRun
<1>4. floor'[w].status = "in_session" /\ floor'[w].station \in {Abandon, Purchased}
  <2>1. \E station \in {Abandon, Purchased} : floor'[w] = Seat("in_session", station, FALSE)
    BY <1>1, <1>2
  <2> QED
    BY <2>1 DEF Seat
<1>5. SeatIsTrue(w)'
    BY <1>3, <1>4 DEF SeatIsTrue, InSession, Running
<1>6. Forgotten(w)' /\ AllRead(w)' /\ \A u \in Workers \ {w} : valid'[u] = valid[u]
  <2>1. /\ node'[w] = NoNode /\ last'[w] = NoNode /\ counted'[w] = 0 /\ valid'[w] = TRUE
        /\ \A u \in Workers \ {w} : valid'[u] = valid[u]
    BY <1>1 DEF Forget, TypeOK
  <2> QED
    BY <1>3, <2>1 DEF Forgotten, AllRead
<1>7. Unharmed(w)'
  <2>1. \A i \in 1 .. MaxSessions : i > session[w] => errors'[<<w, i>>] = errors[<<w, i>>]
    BY <1>1, <1>2 DEF FinalState, Session
  <2> QED
    BY <1>1, <1>3, <2>1 DEF Told, Unharmed
<1>8. RowIsOver(w)'
    BY <1>1, <1>3 DEF Told, RowIsOver, Over
<1>9. Aside(w)
  <2>1. \A u \in Workers \ {w}, i \in 1 .. MaxSessions : errors'[<<u, i>>] = errors[<<u, i>>]
    BY <1>1 DEF FinalState, Session
  <2>2. \A u \in Workers \ {w} : /\ node'[u] = node[u] /\ last'[u] = last[u]
                                 /\ counted'[u] = counted[u]
    BY <1>1 DEF Forget
  <2> QED
    BY <1>1, <1>6, <2>1, <2>2 DEF Aside
<1> QED
    BY <1>5, <1>6, <1>7, <1>8, <1>9 DEF Told

\* A worker comes back from a session, or is cancelled: whatever it was at, the
\* session is over.
LEMMA OverTold ==
  ASSUME TypeOK, Coherent, NEW w \in Workers, Told(w), UNCHANGED <<session, errors, unread>>,
         \/ at' = [at EXCEPT ![w] = "idle"] /\ floor' = [floor EXCEPT ![w] = IdleSeat]
         \/ at' = [at EXCEPT ![w] = "done"] /\ floor' = [floor EXCEPT ![w] = NoSeat],
         \/ Forget(w)
         \/ at[w] # "running" /\ UNCHANGED <<node, last, counted, valid>>,
         row' \in {row, row \cup {Session(w)}}
  PROVE  Told(w)' /\ Aside(w)
<1>1. /\ at \in [Workers -> {"idle", "running", "persisting", "done"} \cup Publishing]
      /\ floor \in [Workers -> SeatType]
    BY TypeSplit, TrackerSplit DEF PlaceOK, SeatsOK
<1>2. /\ \/ at'[w] = "idle" /\ floor'[w] = IdleSeat
         \/ at'[w] = "done" /\ floor'[w] = NoSeat
      /\ \A u \in Workers \ {w} : at'[u] = at[u] /\ floor'[u] = floor[u]
    BY <1>1
<1>3. SeatIsTrue(w)'
    BY <1>2 DEF SeatIsTrue, InSession, Running
<1>4. /\ node'[w] = NoNode /\ last'[w] = NoNode /\ counted'[w] = 0 /\ valid'[w] = TRUE
      /\ \A u \in Workers \ {w} : /\ node'[u] = node[u] /\ last'[u] = last[u]
                                  /\ counted'[u] = counted[u] /\ valid'[u] = valid[u]
  <2>1. CASE Forget(w)
    <3>1. /\ valid'[w] = TRUE
          /\ \A u \in Workers \ {w} : valid'[u] = valid[u]
      BY <2>1, Zenon DEF Forget, TypeOK
    <3> QED
      BY <2>1, <3>1 DEF Forget, TypeOK
  <2>2. CASE at[w] # "running" /\ UNCHANGED <<node, last, counted, valid>>
    BY <2>2 DEF Told, Forgotten
  <2> QED
    BY <2>1, <2>2
<1>5. Forgotten(w)' /\ AllRead(w)'
    BY <1>2, <1>4 DEF Forgotten, AllRead
<1>6. Unharmed(w)' /\ RowIsOver(w)'
  <2>1. Unharmed(w)'
    BY <1>2 DEF Told, Unharmed
  <2>2. \A i \in 1 .. MaxSessions : <<w, i>> \in row' => <<w, i>> \in row \/ i = session[w]
    BY DEF Session
  <2>3. RowIsOver(w)'
    BY <1>2, <2>2 DEF Told, RowIsOver, Over
  <2> QED
    BY <2>1, <2>3
<1>7. Aside(w)
  <2>1. \A u \in Workers \ {w}, i \in 1 .. MaxSessions : <<u, i>> \in row' => <<u, i>> \in row
    BY DEF Session
  <2> QED
    BY <1>2, <1>4, <2>1 DEF Aside
<1> QED
    BY <1>3, <1>5, <1>6, <1>7 DEF Told

LEMMA WorkAside ==
  ASSUME TypeOK, Coherent, NEW w \in Workers, Told(w), Work(w)
  PROVE  Told(w)' /\ Aside(w)
<1>1. CASE RunFails(w) \/ Persist(w) \/ PersistFails(w)
  <2>1. /\ UNCHANGED <<session, errors, unread>> /\ Return(w)
        /\ row' \in {row, row \cup {Session(w)}}
        /\ \/ Forget(w)
           \/ at[w] = "persisting" /\ UNCHANGED <<node, last, counted, valid>>
    BY <1>1 DEF RunFails, Persist, PersistFails, runVars, locals, stateVars
  <2> QED
    BY <2>1, OverTold DEF Return, Goto, LeaveFloor, MarkIdle, Unregister
<1>2. CASE Interrupted(w)
  <2>1. /\ UNCHANGED <<session, errors, unread>> /\ Forget(w)
        /\ row' \in {row, row \cup {Session(w)}}
        /\ at' = [at EXCEPT ![w] = "done"] /\ floor' = [floor EXCEPT ![w] = NoSeat]
    BY <1>2 DEF Interrupted, Goto, Unregister, stateVars
  <2> QED
    BY <2>1, OverTold
<1> QED
  BY <1>1, <1>2, PickPersonaTold, LeaveTold, PublishTold, EnterNodeTold, StepTold, RunEndsTold
  DEF Work

LEMMA WorkTold ==
  ASSUME TypeOK, Coherent, NEW w \in Workers, \A u \in Workers : Told(u), Work(w)
  PROVE  \A u \in Workers : Told(u)'
  BY WorkAside, OthersTold

LEMMA ProcessTold ==
  ASSUME TypeOK, Coherent, \A u \in Workers : Told(u), ProcessStep \/ Down \/ UNCHANGED vars
  PROVE  \A u \in Workers : Told(u)'
<1>1. UNCHANGED <<at, session, floor, node, last, counted, valid, errors, row, unread>>
    BY DEF ProcessStep, Boot, Shutdown, DrainTimeout, StopPublisher, Stopped, Down, vars,
           runVars, locals, stateVars, trackerVars, dataVars
<1> SUFFICES ASSUME NEW u \in Workers PROVE Told(u)'
    OBVIOUS
<1>2. SeatIsTrue(u)' /\ Forgotten(u)' /\ Unharmed(u)'
    BY <1>1 DEF Told, SeatIsTrue, InSession, Running, Where, Forgotten, Unharmed
<1>3. AllRead(u)' /\ RowIsOver(u)'
    BY <1>1 DEF Told, AllRead, Session, RowIsOver, Over
<1> QED
    BY <1>2, <1>3 DEF Told

LEMMA SnapshotFields ==
  /\ Snapshot.busy = Cardinality(Busy)
  /\ \A n \in Nodes : Snapshot.nodeStats[n].occupancy = Load(n)
  BY DEF Snapshot

LEMMA ToldIsFloor ==
  ASSUME TypeOK, \A w \in Workers : Told(w)
  PROVE  FloorFollowsSessions
<1>1. \A w \in Workers : at[w] \in {"idle", "started", "running", "decisions", "ended",
                                     "persisting", "done"}
    BY DEF TypeOK, Publishing
<1>2. \A w \in Workers : w \notin InSession <=> at[w] \in {"idle", "started", "done"}
    BY <1>1 DEF InSession
<1>3. ASSUME NEW w \in Workers, w \notin InSession
      PROVE  floor[w].status # "in_session" /\ floor[w].station = Entrance
    BY <1>2, <1>3 DEF Told, SeatIsTrue, IdleSeat, NoSeat, Seat
<1>4. ASSUME NEW w \in Workers, w \in InSession
      PROVE  floor[w].status = "in_session" /\ w \in Shown
    BY <1>4 DEF Told, SeatIsTrue, Shown
<1>5. Busy = InSession
    BY <1>3, <1>4 DEF Busy, Shown, InSession
<1>6. Running \subseteq InSession /\ InSession \subseteq Workers
    BY DEF Running, InSession
<1>7. ASSUME NEW w \in Running
      PROVE  /\ floor[w].station = IF Where(w) = NoNode THEN Entrance ELSE Where(w)
             /\ w \in Shown /\ w \in Workers
    BY <1>4, <1>6 DEF Running, Told, SeatIsTrue
<1>8. ASSUME NEW n \in Nodes, NEW w \in Shown, floor[w].station = n
      PROVE  w \in Occupants(n) \/ (n = Abandon /\ w \in InSession \ Running)
  <2>1. w \in Workers /\ n \notin {Entrance, Purchased}
    BY StationAssumption DEF StationAssumption, Shown
  <2>2. w \in InSession
    BY <1>3, <1>8, <2>1
  <2>3. CASE w \in Running
    BY <1>7, <1>8, <2>1, <2>3 DEF Occupants
  <2>4. CASE w \notin Running
    BY <1>8, <2>1, <2>2, <2>4 DEF Told, SeatIsTrue
  <2> QED
    BY <2>3, <2>4
<1>9. ASSUME NEW n \in Nodes, NEW w \in Occupants(n)
      PROVE  w \in Shown /\ floor[w].station = n
    BY <1>7, StationAssumption DEF StationAssumption, Occupants
<1>10. \A n \in Nodes \ {Abandon} : Load(n) = Cardinality(Occupants(n))
  <2> SUFFICES ASSUME NEW n \in Nodes \ {Abandon} PROVE Load(n) = Cardinality(Occupants(n))
    OBVIOUS
  <2>1. {w \in Shown : floor[w].station = n} = Occupants(n)
    BY <1>8, <1>9
  <2> QED
    BY <2>1 DEF Load
<1>11. Load(Abandon) \in Cardinality(Occupants(Abandon)) ..
                             Cardinality(Occupants(Abandon) \cup (InSession \ Running))
  <2> DEFINE seated == {w \in Shown : floor[w].station = Abandon}
             most == Occupants(Abandon) \cup (InSession \ Running)
  <2>1. Abandon \in Nodes
    BY StationAssumption DEF StationAssumption
  <2>2. Occupants(Abandon) \subseteq seated /\ seated \subseteq most
    BY <1>8, <1>9, <2>1
  <2>3. IsFiniteSet(most)
    <3>1. most \subseteq Workers
      BY <1>6, <1>7 DEF Occupants
    <3> QED
      BY <3>1, FS_Subset, SessionAssumption DEF SessionAssumption
  <2> HIDE DEF most
  <2>4. IsFiniteSet(seated) /\ Cardinality(seated) <= Cardinality(most)
    BY <2>2, <2>3, FS_Subset
  <2>5. IsFiniteSet(Occupants(Abandon)) /\ Cardinality(Occupants(Abandon)) <= Cardinality(seated)
    BY <2>2, <2>4, FS_Subset
  <2>6. Cardinality(most) \in Nat /\ Cardinality(seated) \in Nat
        /\ Cardinality(Occupants(Abandon)) \in Nat
    BY <2>3, <2>4, <2>5, FS_CardinalityType
  <2> QED
    BY <2>4, <2>5, <2>6 DEF Load, most
<1>12. Abandon \in Nodes
    BY StationAssumption DEF StationAssumption
<1> QED
    BY <1>5, <1>10, <1>11, <1>12, SnapshotFields DEF FloorFollowsSessions

------------------------------------------------------------------------------
(* The counters of the floor *)

Inside(n) == {w \in Running : last[w] = n}

\* 1 if w's last node is n, 0 if not.
Weight(w, n) == IF w \in Inside(n) THEN 1 ELSE 0

VisitsMatch ==
    \A n \in Nodes :
        /\ visits[n] - durations[n] >= Cardinality(Inside(n))
        /\ faults = {} => visits[n] - durations[n] = Cardinality(Inside(n))

TraceMatches ==
    unread = {} => /\ SumOf(nodeErrors, Nodes) = SumOf(errors, Sessions)
                   /\ SumOf(decisions, Sessions) <= qwenCalls

CallsMatch == qwenCalls <= SumOf(visits, QwenNodes)

RowsMatch ==
    /\ finished <= Cardinality(row)
    /\ faults = {} => finished = Cardinality(row)

Matched == VisitsMatch /\ TraceMatches /\ CallsMatch /\ RowsMatch

LEMMA TotalIsSum == ASSUME NEW f, NEW S PROVE Total(f, S) = SumOf(f, S)
  BY DEF Total, SumOf, MapThenSumSet, MapThenFoldSet

LEMMA MatchedIsCounters == Matched <=> CountersFollowSessions
  BY TotalIsSum
  DEF Matched, VisitsMatch, TraceMatches, CallsMatch, RowsMatch, Inside, CountersFollowSessions

LEMMA FiniteParts ==
  /\ IsFiniteSet(Sessions) /\ IsFiniteSet(Nodes) /\ IsFiniteSet(QwenNodes)
  /\ \A S \in SUBSET Sessions : IsFiniteSet(S) /\ Cardinality(S) \in Nat
<1>1. IsFiniteSet(1 .. MaxSessions)
    BY FS_Interval, SessionAssumption DEF SessionAssumption
<1>2. IsFiniteSet(Sessions)
    BY <1>1, FS_Product, SessionAssumption DEF SessionAssumption, Sessions
<1> QED
    BY <1>2, FS_Subset, FS_CardinalityType, SessionAssumption DEF SessionAssumption

LEMMA InitMatched == Init => Matched
<1> SUFFICES ASSUME Init PROVE Matched
    OBVIOUS
<1>1. \A n \in Nodes : visits[n] - durations[n] = 0
    BY DEF Init, TrackerInit
<1>2. \A n \in Nodes : Inside(n) = {}
    BY DEF Init, Inside, Running
<1>3. Cardinality({}) = 0
    BY FS_EmptySet
<1>4. VisitsMatch
    BY <1>1, <1>2, <1>3 DEF VisitsMatch
<1>5. SumOf(nodeErrors, Nodes) = 0
  <2>1. \A n \in Nodes : nodeErrors[n] = 0
    BY DEF Init, TrackerInit
  <2> QED
    BY <2>1, FiniteParts, SumZero
<1>6. SumOf(errors, Sessions) = 0 /\ SumOf(decisions, Sessions) = 0
  <2>1. \A s \in Sessions : errors[s] = 0 /\ decisions[s] = 0
    BY DEF Init
  <2> QED
    BY <2>1, FiniteParts, SumZero
<1>7. TraceMatches
    BY <1>5, <1>6 DEF TraceMatches, Init, TrackerInit
<1>8. CallsMatch
  <2>1. \A n \in QwenNodes : visits[n] = 0
    BY SessionAssumption DEF SessionAssumption, Init, TrackerInit
  <2>2. SumOf(visits, QwenNodes) = 0
    BY <2>1, FiniteParts, SumZero
  <2> QED
    BY <2>2 DEF CallsMatch, Init, TrackerInit
<1>9. RowsMatch
    BY <1>3 DEF RowsMatch, Init, TrackerInit
<1> QED
    BY <1>4, <1>7, <1>8, <1>9 DEF Matched

\* A set with and without one element.
LEMMA Without ==
  ASSUME NEW S, IsFiniteSet(S), NEW x
  PROVE  /\ Cardinality(S \ {x}) \in Nat
         /\ Cardinality(S) = Cardinality(S \ {x}) + (IF x \in S THEN 1 ELSE 0)
<1>1. IsFiniteSet(S \ {x})
    BY FS_Subset
<1>2. Cardinality(S \ {x}) \in Nat
    BY <1>1, FS_CardinalityType
<1>3. CASE x \in S
  <2>1. S = (S \ {x}) \cup {x} /\ x \notin S \ {x}
    BY <1>3
  <2>2. Cardinality((S \ {x}) \cup {x}) = Cardinality(S \ {x}) + 1
    BY <1>1, <2>1, FS_AddElement
  <2> QED
    BY <1>2, <1>3, <2>1, <2>2
<1>4. CASE x \notin S
  <2>1. S \ {x} = S
    BY <1>4
  <2>2. Cardinality(S) = Cardinality(S \ {x})
    BY <2>1, Zenon
  <2>3. Cardinality(S) + 0 = Cardinality(S)
    BY <1>2, <2>2
  <2> QED
    BY <1>2, <1>4, <2>2, <2>3
<1> QED
    BY <1>2, <1>3, <1>4

\* A node's visits and durations move with the worker that enters or leaves.
LEMMA VisitsStep ==
  ASSUME TypeOK, CountsOK', VisitsMatch, NEW w \in Workers, Aside(w), faults \subseteq faults',
         \A n \in Nodes :
             /\ visits[n] - durations[n] - Weight(w, n)
                    <= visits'[n] - durations'[n] - Weight(w, n)'
             /\ faults' = {} => visits[n] - durations[n] - Weight(w, n)
                                    = visits'[n] - durations'[n] - Weight(w, n)'
  PROVE  VisitsMatch'
<1> SUFFICES ASSUME NEW n \in Nodes
             PROVE  /\ visits'[n] - durations'[n] >= Cardinality(Inside(n)')
                    /\ faults' = {} => visits'[n] - durations'[n] = Cardinality(Inside(n)')
    BY DEF VisitsMatch
<1>1. IsFiniteSet(Inside(n)) /\ IsFiniteSet(Inside(n)')
  <2>1. Inside(n) \subseteq Workers /\ Inside(n)' \subseteq Workers
    BY DEF Inside, Running
  <2> QED
    BY <2>1, FS_Subset, SessionAssumption DEF SessionAssumption
<1>2. Inside(n)' \ {w} = Inside(n) \ {w}
    BY DEF Aside, Inside, Running
<1> DEFINE k == Cardinality(Inside(n) \ {w})
<1>3. k \in Nat /\ Cardinality(Inside(n)) = k + Weight(w, n)
    BY <1>1, Without DEF Weight
<1>4. Cardinality(Inside(n)') = k + Weight(w, n)'
    BY <1>1, <1>2, Without DEF Weight
<1>5. Weight(w, n) \in Int /\ Weight(w, n)' \in Int
    BY DEF Weight
<1>6. visits[n] - durations[n] \in Int /\ visits'[n] - durations'[n] \in Int
    BY TypeSplit, TrackerSplit DEF CountsOK
<1>7. /\ visits[n] - durations[n] >= Cardinality(Inside(n))
      /\ faults = {} => visits[n] - durations[n] = Cardinality(Inside(n))
    BY DEF VisitsMatch
<1>8. faults' = {} => faults = {}
    OBVIOUS
<1> HIDE DEF k
<1> QED
    BY <1>3, <1>4, <1>5, <1>6, <1>7, <1>8

LEMMA RowsStep ==
  ASSUME TypeOK, TypeOK', RowsMatch, faults \subseteq faults',
         \/ UNCHANGED <<row, finished>>
         \/ row \subseteq row' /\ finished' = finished /\ faults' # {}
         \/ \E s \in Sessions \ row : row' = row \cup {s} /\ finished' = finished + 1
  PROVE  RowsMatch'
<1>1. row \subseteq Sessions /\ row' \subseteq Sessions /\ finished \in Nat
    BY TypeSplit, TrackerSplit DEF TypeOK, DataOK, CountsOK
<1>2. /\ IsFiniteSet(row) /\ IsFiniteSet(row')
      /\ Cardinality(row) \in Nat /\ Cardinality(row') \in Nat
    BY <1>1, FiniteParts
<1>3. faults' = {} => faults = {}
    OBVIOUS
<1>4. CASE UNCHANGED <<row, finished>>
    BY <1>3, <1>4 DEF RowsMatch
<1>5. CASE row \subseteq row' /\ finished' = finished /\ faults' # {}
  <2>1. Cardinality(row) <= Cardinality(row')
    BY <1>2, <1>5, FS_Subset
  <2> QED
    BY <1>1, <1>2, <1>5, <2>1 DEF RowsMatch
<1>6. CASE \E s \in Sessions \ row : row' = row \cup {s} /\ finished' = finished + 1
  <2>1. Cardinality(row') = Cardinality(row) + 1
    BY <1>2, <1>6, FS_AddElement
  <2> QED
    BY <1>1, <1>2, <1>3, <1>6, <2>1 DEF RowsMatch
<1> QED
    BY <1>4, <1>5, <1>6

\* The sums move together: neither does, or a session no longer reads true.
LEMMA TraceKept ==
  ASSUME TraceMatches, unread \subseteq unread',
         unread' = {} => UNCHANGED <<nodeErrors, qwenCalls, errors, decisions>>
  PROVE  TraceMatches'
<1> SUFFICES ASSUME unread' = {}
             PROVE  /\ SumOf(nodeErrors', Nodes) = SumOf(errors', Sessions)
                    /\ SumOf(decisions', Sessions) <= qwenCalls'
    BY DEF TraceMatches
<1>1. unread = {}
    OBVIOUS
<1> QED
    BY <1>1 DEF TraceMatches

\* A node's update adds to both sides: an error to the session and to the node,
\* a decision to the trace and to the calls, which a visit that asks nobody may
\* add to as well.
LEMMA StepTrace ==
  ASSUME TypeOK, TypeOK', Coherent, NEW w \in Workers, Told(w), TraceMatches,
         NEW asked \in BOOLEAN, NEW raised \in {0, 1}, Step(w, asked, raised, TRUE)
  PROVE  TraceMatches'
<1> SUFFICES ASSUME unread' = {}
             PROVE  /\ SumOf(nodeErrors', Nodes) = SumOf(errors', Sessions)
                    /\ SumOf(decisions', Sessions) <= qwenCalls'
    BY DEF TraceMatches
<1> DEFINE n == node[w]
           s == Session(w)
<1>1. /\ at[w] = "running" /\ n \in Nodes /\ s \in Sessions
      /\ errors' = [errors EXCEPT ![s] = @ + raised]
      /\ unread' = unread /\ MayAsk(n, asked) /\ Decide(w, asked) /\ Tracked(w, n)
    BY StepFacts
<1>2. /\ nodeErrors \in [Nodes -> Nat] /\ nodeErrors' \in [Nodes -> Nat]
      /\ errors \in [Sessions -> Nat] /\ errors' \in [Sessions -> Nat]
      /\ decisions \in [Sessions -> Nat] /\ decisions' \in [Sessions -> Nat]
      /\ qwenCalls \in Nat /\ IsFiniteSet(Nodes) /\ IsFiniteSet(Sessions)
    BY FiniteParts DEF TypeOK, TrackerTypeOK
<1>3. /\ counted[w] = errors[s] /\ SumOf(decisions, Sessions) <= qwenCalls
      /\ SumOf(nodeErrors, Nodes) = SumOf(errors, Sessions)
    BY <1>1 DEF Told, AllRead, TraceMatches
<1> HIDE DEF n, s
<1>4. SumOf(errors', Sessions) = SumOf(errors, Sessions) + raised
  <2>1. errors'[s] = errors[s] + raised /\ \A x \in Sessions \ {s} : errors[x] = errors'[x]
    BY <1>1, <1>2
  <2>2. s \in Sessions /\ \A x \in Sessions : errors[x] \in Int /\ errors'[x] \in Int
    BY <1>1, <1>2
  <2>3. SumOf(errors', Sessions) = SumOf(errors, Sessions) - errors[s] + errors'[s]
    BY <1>2, <2>1, <2>2, SumChange
  <2>4. SumOf(errors, Sessions) \in Int /\ errors[s] \in Int
    BY <1>2, <2>2, SumInt
  <2> QED
    BY <2>1, <2>3, <2>4
<1>5. SumOf(nodeErrors', Nodes) = SumOf(nodeErrors, Nodes) + raised
  <2>1. errors'[s] = counted[w] + raised /\ counted[w] \in Nat
    BY <1>1, <1>2, <1>3
  <2>2. IF raised = 1 THEN nodeErrors' = [nodeErrors EXCEPT ![n] = @ + 1]
                      ELSE nodeErrors' = nodeErrors
    BY <1>1, <2>1 DEF Tracked, CountErrors, HasNew, RecordError, s
  <2>3. /\ nodeErrors'[n] = nodeErrors[n] + raised
        /\ \A x \in Nodes \ {n} : nodeErrors[x] = nodeErrors'[x]
    BY <1>1, <1>2, <2>2
  <2>4. SumOf(nodeErrors', Nodes) = SumOf(nodeErrors, Nodes) - nodeErrors[n] + nodeErrors'[n]
    BY <1>1, <1>2, <2>3, SumChange
  <2>5. SumOf(nodeErrors, Nodes) \in Int /\ nodeErrors[n] \in Int
    BY <1>1, <1>2, SumInt
  <2> QED
    BY <2>3, <2>4, <2>5
<1>6. SumOf(decisions', Sessions) <= qwenCalls'
  <2> DEFINE new == IF asked THEN 1 ELSE 0
  <2>1. decisions'[s] = decisions[s] + new
        /\ \A x \in Sessions \ {s} : decisions[x] = decisions'[x]
    BY <1>1, <1>2 DEF Decide, s
  <2>2. qwenCalls' >= qwenCalls + new
    <3>1. asked => QwenIn(n) /\ decisions'[s] > 0
      BY <1>1, <1>2, <2>1 DEF MayAsk
    <3> QED
      BY <1>1, <1>2, <3>1 DEF Tracked, EmitEvents, PushQwen, s
  <2>3. SumOf(decisions', Sessions) = SumOf(decisions, Sessions) - decisions[s] + decisions'[s]
    BY <1>1, <1>2, <2>1, SumChange
  <2>4. /\ SumOf(decisions, Sessions) \in Int /\ decisions[s] \in Int /\ new \in Int
        /\ qwenCalls' \in Int
    BY <1>1, <1>2, SumInt DEF TypeOK, TrackerTypeOK
  <2> QED
    BY <1>2, <1>3, <2>1, <2>2, <2>3, <2>4
<1> QED
    BY <1>3, <1>4, <1>5, <1>6

\* A call is counted only with the visit of a Qwen node, which is counted first,
\* whether or not the node's update validates.
LEMMA StepCalls ==
  ASSUME TypeOK, TypeOK', Coherent, CallsMatch, NEW w \in Workers, NEW asked \in BOOLEAN,
         NEW raised \in {0, 1}, NEW validates \in BOOLEAN, Step(w, asked, raised, validates)
  PROVE  CallsMatch'
<1> DEFINE n == node[w]
<1>1. /\ n \in Nodes /\ RecordEnter(n)
      /\ qwenCalls' = qwenCalls \/ (QwenIn(n) /\ qwenCalls' = qwenCalls + 1)
  <2>1. CASE validates
    BY <2>1, StepFacts DEF Tracked, EmitEvents, PushQwen
  <2>2. CASE ~validates
    BY <2>2, StepFacts
  <2> QED
    BY <2>1, <2>2, StepFacts
<1>2. /\ visits \in [Nodes -> Nat] /\ visits' \in [Nodes -> Nat] /\ qwenCalls \in Nat
      /\ QwenNodes \subseteq Nodes /\ IsFiniteSet(QwenNodes)
    BY FiniteParts, SessionAssumption DEF SessionAssumption, TypeOK, TrackerTypeOK
<1> HIDE DEF n
<1>3. SumOf(visits, QwenNodes) \in Int /\ qwenCalls <= SumOf(visits, QwenNodes)
    BY <1>2, SumInt DEF CallsMatch
<1>4. CASE n \in QwenNodes
  <2>1. visits'[n] = visits[n] + 1 /\ \A x \in QwenNodes \ {n} : visits[x] = visits'[x]
    BY <1>1, <1>2 DEF RecordEnter
  <2>2. SumOf(visits', QwenNodes) = SumOf(visits, QwenNodes) - visits[n] + visits'[n]
    BY <1>2, <1>4, <2>1, SumChange
  <2>3. SumOf(visits', QwenNodes) = SumOf(visits, QwenNodes) + 1
    BY <1>1, <1>2, <1>3, <2>1, <2>2
  <2> QED
    BY <1>1, <1>2, <1>3, <2>3 DEF CallsMatch
<1>5. CASE n \notin QwenNodes
  <2>1. \A x \in QwenNodes : visits[x] = visits'[x]
    BY <1>1, <1>2, <1>5 DEF RecordEnter
  <2>2. SumOf(visits', QwenNodes) = SumOf(visits, QwenNodes)
    BY <1>2, <2>1, SumSame
  <2> QED
    BY <1>1, <1>3, <1>5, <2>2 DEF CallsMatch, QwenIn
<1> QED
    BY <1>4, <1>5

\* The steps that tell the tracker nothing of a node.
LEMMA SilentVisits ==
  ASSUME TypeOK, TypeOK', VisitsMatch, NEW w \in Workers, Aside(w), faults \subseteq faults',
         UNCHANGED <<visits, durations>>,
         \A n \in Nodes : Weight(w, n)' <= Weight(w, n),
         \A n \in Nodes : Weight(w, n)' # Weight(w, n) => faults' # {}
  PROVE  VisitsMatch'
<1>1. ASSUME NEW n \in Nodes
      PROVE  /\ visits[n] - durations[n] - Weight(w, n)
                    <= visits'[n] - durations'[n] - Weight(w, n)'
             /\ faults' = {} => visits[n] - durations[n] - Weight(w, n)
                                    = visits'[n] - durations'[n] - Weight(w, n)'
  <2>1. visits[n] \in Int /\ durations[n] \in Int
    BY DEF TypeOK, TrackerTypeOK
  <2>2. Weight(w, n) \in Int /\ Weight(w, n)' \in Int
    BY DEF Weight
  <2> QED
    BY <2>1, <2>2
<1>2. CountsOK'
    BY DEF TypeOK, TrackerTypeOK, CountsOK
<1> QED
    BY <1>1, <1>2, VisitsStep

\* The update of a node, and the end of the run.
LEMMA TrackedVisits ==
  ASSUME TypeOK, TypeOK', Coherent, VisitsMatch, NEW w \in Workers, Aside(w),
         \/ \E asked \in BOOLEAN, raised \in {0, 1}, validates \in BOOLEAN :
                Step(w, asked, raised, validates)
         \/ RunEnds(w)
  PROVE  VisitsMatch'
<1>1. CountsOK'
    BY DEF TypeOK, TrackerTypeOK, CountsOK
<1>2. /\ at \in [Workers -> {"idle", "running", "persisting", "done"} \cup Publishing]
      /\ last \in [Workers -> Nodes \cup {NoNode}] /\ NoNode \notin Nodes
      /\ visits \in [Nodes -> Nat] /\ durations \in [Nodes -> Nat]
    BY StationAssumption DEF StationAssumption, TypeOK, TrackerTypeOK
<1>3. CASE \E asked \in BOOLEAN, raised \in {0, 1}, validates \in BOOLEAN :
             Step(w, asked, raised, validates)
  <2>1. /\ at[w] = "running" /\ at' = at /\ faults' = faults /\ node[w] \in Nodes
        /\ last' = [last EXCEPT ![w] = node[w]]
        /\ ExitLast(w) /\ RecordEnter(node[w])
    BY <1>3, StepFacts
  <2>2. \A n \in Nodes : /\ Weight(w, n) = IF last[w] = n THEN 1 ELSE 0
                         /\ Weight(w, n)' = IF node[w] = n THEN 1 ELSE 0
    BY <1>2, <2>1 DEF Weight, Inside, Running
  <2>3. \A n \in Nodes :
            /\ visits'[n] = visits[n] + (IF node[w] = n THEN 1 ELSE 0)
            /\ durations'[n] = durations[n] + (IF last[w] = n THEN 1 ELSE 0)
    BY <1>2, <2>1 DEF ExitLast, RecordEnter, RecordExit
  <2>4. \A n \in Nodes : visits[n] - durations[n] - Weight(w, n)
                             = visits'[n] - durations'[n] - Weight(w, n)'
                         /\ visits[n] - durations[n] - Weight(w, n) \in Int
    BY <1>2, <2>2, <2>3
  <2> QED
    BY <1>1, <2>1, <2>4, VisitsStep
<1>4. CASE RunEnds(w)
  <2>1. /\ at[w] = "running" /\ at' = [at EXCEPT ![w] = AfterRun(w)] /\ faults' = faults
        /\ last[w] \in Nodes /\ ExitLast(w) /\ visits' = visits
    BY <1>2, <1>4 DEF RunEnds, Goto, Flush, dataVars
  <2>2. at'[w] # "running"
    BY <1>2, <2>1 DEF AfterRun
  <2>3. \A n \in Nodes : /\ Weight(w, n) = IF last[w] = n THEN 1 ELSE 0
                         /\ Weight(w, n)' = 0
    BY <1>2, <2>1, <2>2 DEF Weight, Inside, Running
  <2>4. \A n \in Nodes : durations'[n] = durations[n] + (IF last[w] = n THEN 1 ELSE 0)
    BY <1>2, <2>1 DEF ExitLast, RecordExit
  <2>5. \A n \in Nodes : visits[n] - durations[n] - Weight(w, n)
                             = visits'[n] - durations'[n] - Weight(w, n)'
                         /\ visits[n] - durations[n] - Weight(w, n) \in Int
    BY <1>2, <2>1, <2>3, <2>4
  <2> QED
    BY <1>1, <2>1, <2>5, VisitsStep
<1> QED
    BY <1>3, <1>4

\* Before and after a run, a worker is inside no node.
LEMMA Outside ==
  ASSUME TypeOK, NEW w \in Workers, Told(w), at[w] # "running" \/ last[w] = NoNode,
         NEW n \in Nodes
  PROVE  Weight(w, n) = 0
  BY StationAssumption DEF StationAssumption, Weight, Inside, Running

\* The steps outside the run's stream, and those that only show the worker.
LEMMA SilentMatched ==
  ASSUME TypeOK, TypeOK', Coherent, Matched, NEW w \in Workers, Told(w), Aside(w),
         PickPersona(w) \/ Leave(w) \/ Publish(w) \/ \E n \in Nodes : EnterNode(w, n)
  PROVE  Matched'
<1>1. UNCHANGED <<visits, durations, nodeErrors, qwenCalls, finished, errors, decisions,
                  row, faults, unread, last>>
    BY DEF PickPersona, Leave, Publish, EnterNode, runVars, trackerVars, countVars, locals,
           stateVars, dataVars
<1>2. at \in [Workers -> {"idle", "running", "persisting", "done"} \cup Publishing]
    BY DEF TypeOK
<1>3. ASSUME NEW n \in Nodes PROVE Weight(w, n)' = Weight(w, n)
  <2>1. CASE at' = at
    BY <1>1, <2>1 DEF Weight, Inside, Running
  <2>2. CASE PickPersona(w) \/ Leave(w) \/ Publish(w)
    <3>1. last[w] = NoNode
      BY <2>2 DEF PickPersona, Leave, Publish, Publishing, Told, Forgotten
    <3> QED
      BY <1>1, <3>1, StationAssumption DEF StationAssumption, Weight, Inside, Running
  <2> QED
    BY <2>1, <2>2 DEF EnterNode
<1>4. VisitsMatch'
  <2>1. \A n \in Nodes : Weight(w, n)' <= Weight(w, n)
    BY <1>3 DEF Weight
  <2> QED
    BY <1>1, <1>3, <2>1, SilentVisits DEF Matched
<1>5. TraceMatches' /\ CallsMatch' /\ RowsMatch'
    BY <1>1, TraceKept, RowsStep DEF Matched, CallsMatch
<1> QED
    BY <1>4, <1>5 DEF Matched

LEMMA RunMatched ==
  ASSUME TypeOK, TypeOK', Coherent, Matched, NEW w \in Workers, Told(w), Aside(w),
         \/ \E asked \in BOOLEAN, raised \in {0, 1}, validates \in BOOLEAN :
                Step(w, asked, raised, validates)
         \/ RunEnds(w)
  PROVE  Matched'
<1>1. VisitsMatch'
    BY TrackedVisits, StepFacts DEF Matched, RunEnds, dataVars
<1>2. CASE RunEnds(w)
  <2>1. FinalState(w) /\ UNCHANGED <<nodeErrors, qwenCalls, unread, row, faults, finished>>
    BY <1>2 DEF RunEnds, dataVars
  <2>2. unread' = {} => UNCHANGED <<errors, decisions>>
    BY <2>1 DEF Told, AllRead, FinalState, TypeOK
  <2>3. TraceMatches' /\ RowsMatch'
    BY <2>1, <2>2, TraceKept, RowsStep DEF Matched
  <2>4. CallsMatch'
    BY <1>2 DEF Matched, CallsMatch, RunEnds
  <2> QED
    BY <1>1, <2>3, <2>4 DEF Matched
<1>3. ASSUME NEW asked \in BOOLEAN, NEW raised \in {0, 1}, NEW validates \in BOOLEAN,
             Step(w, asked, raised, validates)
      PROVE  Matched'
  <2>1. RowsMatch'
    BY <1>3, StepFacts, RowsStep DEF Matched
  <2>2. TraceMatches'
    <3>1. CASE validates = TRUE
      BY <1>3, <3>1, StepTrace DEF Matched
    <3>2. CASE validates = FALSE
      BY <1>3, <3>2, StepFacts, TraceKept DEF Matched
    <3> QED
      BY <3>1, <3>2
  <2>3. CallsMatch'
    BY <1>3, StepCalls DEF Matched
  <2> QED
    BY <1>1, <2>1, <2>2, <2>3 DEF Matched
<1> QED
    BY <1>2, <1>3

\* A session that is over: a row with its count, or a fault.
LEMMA OverMatched ==
  ASSUME TypeOK, TypeOK', Coherent, Matched, NEW w \in Workers, Told(w), Aside(w),
         RunFails(w) \/ Persist(w) \/ PersistFails(w) \/ Interrupted(w)
  PROVE  Matched'
<1>1. /\ UNCHANGED <<visits, durations, nodeErrors, qwenCalls, errors, decisions, unread>>
      /\ faults \subseteq faults' /\ row \subseteq row'
      /\ at[w] = "running" => faults' # {}
    BY DEF RunFails, Persist, PersistFails, Interrupted, runVars, countVars, stateVars
<1>2. at'[w] \in {"idle", "done"}
    BY DEF TypeOK, RunFails, Persist, PersistFails, Interrupted, Return, Goto
<1>3. VisitsMatch'
  <2>1. \A n \in Nodes : Weight(w, n)' = 0
    BY <1>2 DEF Weight, Inside, Running
  <2>2. \A n \in Nodes : Weight(w, n)' <= Weight(w, n)
    BY <2>1 DEF Weight
  <2>3. \A n \in Nodes : Weight(w, n)' # Weight(w, n) => faults' # {}
    BY <1>1, <2>1, Outside
  <2> QED
    BY <1>1, <2>2, <2>3, SilentVisits DEF Matched
<1>4. TraceMatches' /\ CallsMatch'
    BY <1>1, TraceKept DEF Matched, CallsMatch
<1>5. RowsMatch'
  <2>1. CASE Persist(w)
    <3>1. /\ at[w] = "persisting" /\ row' = row \cup {Session(w)} /\ finished' = finished + 1
          /\ Session(w) \in Sessions
      BY <2>1, InSessionsWhenBusy DEF Persist, RecordCompletion
    <3>2. Session(w) \notin row
      BY <3>1 DEF Told, RowIsOver, Over, Session, Sessions, TypeOK
    <3> QED
      BY <1>1, <3>1, <3>2, RowsStep DEF Matched
  <2>2. CASE RunFails(w) \/ PersistFails(w) \/ Interrupted(w)
    <3>1. finished' = finished /\ (row' = row \/ faults' # {})
      BY <2>2 DEF RunFails, PersistFails, Interrupted, countVars
    <3> QED
      BY <1>1, <3>1, RowsStep DEF Matched
  <2> QED
    BY <2>1, <2>2
<1> QED
    BY <1>3, <1>4, <1>5 DEF Matched

LEMMA NextMatched ==
  ASSUME TypeOK, TypeOK', Coherent, \A u \in Workers : Told(u), Matched, [Next]_vars
  PROVE  Matched' /\ \A u \in Workers : Told(u)'
<1>1. CASE \E w \in Workers : Work(w)
  <2> SUFFICES ASSUME NEW w \in Workers, Work(w)
               PROVE  Matched' /\ \A u \in Workers : Told(u)'
    BY <1>1
  <2>1. Aside(w)
    BY WorkAside
  <2> QED
    BY <2>1, WorkTold, SilentMatched, RunMatched, OverMatched DEF Work
<1>2. CASE ProcessStep \/ Down \/ UNCHANGED vars
  <2>1. UNCHANGED <<visits, durations, nodeErrors, qwenCalls, finished, errors, decisions,
                    row, faults, unread, last, at>>
    BY <1>2 DEF ProcessStep, Boot, Shutdown, DrainTimeout, StopPublisher, Stopped, Down, vars,
                runVars, locals, stateVars, trackerVars, countVars, dataVars
  <2>2. VisitsMatch'
    BY <2>1 DEF Matched, VisitsMatch, Inside, Running
  <2>3. TraceMatches' /\ CallsMatch' /\ RowsMatch'
    BY <2>1, TraceKept, RowsStep DEF Matched, CallsMatch
  <2> QED
    BY <1>2, <2>2, <2>3, ProcessTold DEF Matched
<1> QED
    BY <1>1, <1>2 DEF Next, ProcessStep

\* runner.py:71-145, graph.py:64-75, live_tracker.py:313-487: with any number of
\* workers and nodes, every worker is shown where its session is, and busy for
\* as long as it has one; what the counters say of visits, durations, errors
\* and completions is what the sessions did, but for those that were lost; and
\* the Qwen calls miss no decision of a session that was read, and are at most
\* the visits of the Qwen nodes.
THEOREM FloorIsAlwaysTrue == Spec => []LiveFloorIsTrue
<1> DEFINE LiveInv == Matched /\ \A u \in Workers : Told(u)
<1>1. Init => LiveInv
    BY InitMatched, InitTold
<1>2. (TypeOK /\ Coherent) /\ (TypeOK /\ Coherent)' /\ LiveInv /\ [Next]_vars => LiveInv'
    BY NextMatched
<1>3. TypeOK /\ LiveInv => LiveFloorIsTrue
    BY ToldIsFloor, MatchedIsCounters DEF LiveFloorIsTrue
<1> HIDE DEF LiveInv
<1> QED
    BY <1>1, <1>2, <1>3, Inductive, PTL DEF Spec
==============================================================================
