----------------------------- MODULE SessionRun ------------------------------
(***************************************************************************)
(* One orchestrator process at work: SessionScheduler.run_one              *)
(* (orchestrator/scheduler.py), the run of the graph it calls              *)
(* (agents/runner.py, the wrapper of agents/graph.py, the calls of         *)
(* agents/qwen_runner.py), what they tell the live tracker and the         *)
(* publisher, the session's row (sessions/repository.py), and the process  *)
(* around the workers (orchestrator/main.py, or the API's start route and  *)
(* lifespan).                                                              *)
(*                                                                         *)
(* The pool itself is WorkerPool's: here it is a set of workers that end   *)
(* after their current session once the shutdown event is set, and are     *)
(* cancelled when the drain times out.                                     *)
(***************************************************************************)
EXTENDS KafkaPublisher, FiniteSetsExt

CONSTANTS MaxSessions,  \* sessions each worker runs (a bound)
          MaxSteps,     \* nodes each worker's sessions go through (a bound)
          MaxTroubles,  \* errors of nodes and updates that do not validate (a bound)
          Nodes,        \* the nodes of the graph
          Abandon,      \* the one of that name
          QwenNodes,    \* QWEN_NODES
          MustAsk       \* those that ask Qwen at every visit

ASSUME SessionAssumption ==
    /\ MaxSessions \in Nat /\ MaxSteps \in [Workers -> Nat] /\ MaxTroubles \in Nat
    /\ QwenNodes \subseteq Nodes /\ MustAsk \subseteq QwenNodes
    /\ IsFiniteSet(Nodes) /\ IsFiniteSet(Workers)

VARIABLES at,         \* at[w]: where run_one is suspended
          session,    \* session[w]: the worker's current session, 0 before the first
          node,       \* the node that runs, and NoNode between two
          last,       \* last_node_name, and NoNode before the first update
          counted,    \* prev_error_count
          steps,      \* nodes the session went through
          valid,      \* final_state_dict makes an AgentState
          decisions,  \* decision_trace of each session: how many records
          errors,     \* errors_encountered of each session: how many
          sent,       \* how many decisions decision_made has dealt with
          row,        \* the sessions table
          faults,     \* sessions whose graph or persist failed, or cancelled
          unread,     \* sessions with an update that did not validate
          phase,      \* where the process is
          cancelled   \* workers that resume with CancelledError

VARIABLES floor, visits, durations, nodeErrors, qwenCalls, finished
INSTANCE LiveTracker

locals == <<node, last, counted, steps, valid>>
stateVars == <<decisions, errors>>
runVars == <<session, locals, stateVars>>
countVars == <<visits, durations, nodeErrors, qwenCalls, finished>>
trackerVars == <<floor, countVars>>
processVars == <<phase, cancelled>>
dataVars == <<row, faults, unread>>
vars == <<publisherVars, runVars, trackerVars, processVars, at, sent, dataVars>>

Sessions == Workers \X (1 .. MaxSessions)
Session(w) == <<w, session[w]>>

NoNode == "none"

\* The stations of the floor that are no nodes are named otherwise.
ASSUME StationAssumption ==
    Abandon \in Nodes /\ Nodes \cap {Entrance, Purchased, NoNode} = {}

\* The stages of run_one that publish.
Publishing == {"started", "decisions", "ended"}

\* A worker that ran its sessions leaves; a drained one does too.
Live == {w \in Workers : at[w] # "done"}

TypeOK ==
    /\ PublisherTypeOK
    /\ at \in [Workers -> {"idle", "running", "persisting", "done"} \cup Publishing]
    /\ session \in [Workers -> 0 .. MaxSessions]
    /\ node \in [Workers -> Nodes \cup {NoNode}]
    /\ last \in [Workers -> Nodes \cup {NoNode}]
    /\ counted \in [Workers -> Nat] /\ steps \in [Workers -> Nat]
    /\ valid \in [Workers -> BOOLEAN]
    /\ decisions \in [Sessions -> Nat] /\ sent \in [Workers -> Nat]
    /\ errors \in [Sessions -> Nat]
    /\ TrackerTypeOK
    /\ row \subseteq Sessions /\ faults \subseteq Sessions /\ unread \subseteq Sessions
    /\ phase \in {"boot", "running", "draining", "cancelling", "stopping", "down"}
    /\ cancelled \subseteq Live

Init ==
    /\ PublisherInit
    /\ at = [w \in Workers |-> "idle"]
    /\ session = [w \in Workers |-> 0]
    /\ node = [w \in Workers |-> NoNode] /\ last = [w \in Workers |-> NoNode]
    /\ counted = [w \in Workers |-> 0] /\ steps = [w \in Workers |-> 0]
    /\ valid = [w \in Workers |-> TRUE]
    /\ decisions = [s \in Sessions |-> 0] /\ errors = [s \in Sessions |-> 0]
    /\ sent = [w \in Workers |-> 0]
    /\ TrackerInit
    /\ row = {} /\ faults = {} /\ unread = {}
    /\ phase \in {"boot", "running"}
    /\ cancelled = {}

------------------------------------------------------------------------------
(* run_one *)

Goto(w, stage) == at' = [at EXCEPT ![w] = stage]

Runs(w) == w \notin cancelled

\* The pool's loop takes the worker back to the waiting room.
LeaveFloor(w) == MarkIdle(w)

\* Back in that loop, which ends once the shutdown event is set.
Return(w) ==
    \/ phase = "running" /\ Goto(w, "idle") /\ LeaveFloor(w)
    \/ phase # "running" /\ Goto(w, "done") /\ Unregister(w)

\* A persona is picked and session_started is next; with no persona, or a
\* database that fails to answer, the worker only waits and asks again.
PickPersona(w) ==
    /\ at[w] = "idle" /\ Runs(w)
    /\ phase = "running"
    /\ session[w] < MaxSessions                               \* bound
    /\ session' = [session EXCEPT ![w] = @ + 1]
    /\ sent' = [sent EXCEPT ![w] = 0]
    /\ Goto(w, "started")
    /\ UNCHANGED <<publisherVars, trackerVars, processVars, locals, stateVars,
                   dataVars>>

\* A wait of the pool's loop ends because of the shutdown event.
Leave(w) ==
    /\ at[w] = "idle" /\ Runs(w)
    /\ phase # "running" /\ phase # "boot"
    /\ Goto(w, "done") /\ Unregister(w)
    /\ UNCHANGED <<publisherVars, runVars, countVars, processVars, sent, dataVars>>

\* A session's events: session_started, session_ended and its decisions.
Start == 0
End == 1
Decision(i) == i + 1

Event(w) ==
    <<Session(w), CASE at[w] = "decisions" -> Decision(sent[w] + 1)
                    [] at[w] = "ended"     -> End
                    [] OTHER               -> Start>>

AfterRunQuiet(w) == IF decisions'[Session(w)] > 0 THEN "decisions" ELSE "persisting"

\* The first event comes before the run; the others follow the final state.
AfterRun(w) == IF decisions'[Session(w)] > 0 THEN "decisions" ELSE "ended"

Following(w) ==
    CASE at[w] = "started"   -> "running"
      [] at[w] = "decisions" -> IF sent[w] + 1 < decisions[Session(w)]
                                THEN "decisions" ELSE "ended"
      [] at[w] = "ended"     -> "persisting"

NextIfUp(w) == IF degraded' # degraded THEN "idle" ELSE Following(w)

\* _send swallows what the broker does: the session goes on all the same.
Onward(w) == Following(w)

Published(w) ==
    /\ sent' = IF at[w] = "decisions" THEN [sent EXCEPT ![w] = @ + 1] ELSE sent
    /\ Goto(w, Onward(w))
    /\ IF at[w] = "started" THEN Upsert(w, Entrance, FALSE) ELSE UNCHANGED floor

\* An event goes through _send; the worker is past it when the call is over.
\* run_session begins by putting it on the floor.
Publish(w) ==
    /\ at[w] \in Publishing /\ Runs(w)
    /\ BeginSend(w) \/ SendStep(w, Event(w))
    /\ IF call'[w] = "out" THEN Published(w) ELSE UNCHANGED <<at, sent, floor>>
    /\ UNCHANGED <<runVars, countVars, processVars, dataVars>>

------------------------------------------------------------------------------
(* run_session *)

QwenIn(n) == n \in QwenNodes

\* The wrapper of every node: the worker is shown there before it runs, and at
\* a Qwen node as thinking, whether or not the node will ask.
ShowAt(w, n) == Upsert(w, n, QwenIn(n))

\* The graph goes on to a node; behind abandon there is none.
EnterNode(w, n) ==
    /\ at[w] = "running" /\ Runs(w) /\ node[w] = NoNode
    /\ last[w] # Abandon
    /\ steps[w] < MaxSteps[w]                                 \* bound
    /\ node' = [node EXCEPT ![w] = n]
    /\ ShowAt(w, n)
    /\ UNCHANGED <<publisherVars, countVars, processVars, stateVars, dataVars,
                   session, last, counted, steps, valid, at, sent>>

\* evaluate_item asks about few products and for few intents, and
\* checkout_decision only where the setting is on: they may ask nobody.
MayAsk(n, asked) == IF asked THEN QwenIn(n) ELSE n \notin MustAsk

\* run_qwen_node: Qwen's answer or, if the call fails or does not validate,
\* the fallback's; either is a decision of the trace.
Decide(w, asked) ==
    decisions' = [decisions EXCEPT ![Session(w)] = IF asked THEN @ + 1 ELSE @]

\* A node's duration is observed when the next update shows up.
ExitLast(w) == IF last[w] = NoNode THEN UNCHANGED durations ELSE RecordExit(last[w])

HasAny(w, total) == total > 0

\* errors_encountered is cumulative: only what is new is the node's.
HasNew(w, total) == total > counted[w]

CountErrors(w, n) ==
    LET total == errors'[Session(w)]
    IN  /\ counted' = [counted EXCEPT ![w] = total]
        /\ IF HasNew(w, total) THEN RecordError(n) ELSE UNCHANGED nodeErrors

Troubles == MapThenSumSet(LAMBDA s : errors[s], Sessions) + Cardinality(unread)

\* _emit_events_for_step: a Qwen node is an event for the floor once the trace
\* has a decision, of this visit or of an earlier one; the other events leave no
\* trace in the counters.
EmitEvents(w, n) ==
    IF QwenIn(n) /\ decisions'[Session(w)] > 0 THEN PushQwen ELSE UNCHANGED qwenCalls

\* The update of the node validates: its errors are counted, and the worker is
\* shown as the update has it.
Tracked(w, n) ==
    /\ CountErrors(w, n)
    /\ ShowAt(w, n)
    /\ EmitEvents(w, n)
    /\ UNCHANGED unread

Untracked(w) ==
    /\ unread' = unread \cup {Session(w)}
    /\ UNCHANGED <<counted, nodeErrors, floor, qwenCalls>>

\* The graph yields the update of a node, with at most one error more.
Step(w, asked, raised, validates) ==
    /\ at[w] = "running" /\ Runs(w) /\ node[w] # NoNode
    /\ MayAsk(node[w], asked)
    /\ Troubles + raised + (IF validates THEN 0 ELSE 1) <= MaxTroubles  \* bound
    /\ node' = [node EXCEPT ![w] = NoNode]
    /\ Decide(w, asked)
    /\ errors' = [errors EXCEPT ![Session(w)] = @ + raised]
    /\ ExitLast(w) /\ RecordEnter(node[w])
    /\ last' = [last EXCEPT ![w] = node[w]]
    /\ steps' = [steps EXCEPT ![w] = @ + 1]
    /\ valid' = [valid EXCEPT ![w] = validates]
    /\ IF validates THEN Tracked(w, node[w]) ELSE Untracked(w)
    /\ UNCHANGED <<publisherVars, processVars, session, at, sent,
                   row, faults, finished>>

\* The variables of run_session go with it.
Forget(w) ==
    /\ node' = [node EXCEPT ![w] = NoNode]
    /\ last' = [last EXCEPT ![w] = NoNode]
    /\ counted' = [counted EXCEPT ![w] = 0]
    /\ steps' = [steps EXCEPT ![w] = 0]
    /\ valid' = [valid EXCEPT ![w] = TRUE]

\* The final state; if it cannot be rebuilt the initial one stands in for it.
FinalState(w) ==
    /\ decisions' = [decisions EXCEPT ![Session(w)] = IF valid[w] THEN @ ELSE 0]
    /\ errors' = [errors EXCEPT ![Session(w)] = IF valid[w] THEN @ ELSE 0]

\* A run that is over stays on the floor where its outcome has it; with none,
\* or any but a purchase, at the node abandon, whether or not it went there.
FinalStations(w) == {Abandon} \cup (IF valid[w] THEN {Purchased} ELSE {})

NoFlush(w) == UNCHANGED durations

\* The stream ends: the last node is left.
Flush(w) == ExitLast(w)

\* Every run goes through load_persona, if through nothing else.
RunEnds(w) ==
    /\ at[w] = "running" /\ Runs(w)
    /\ node[w] = NoNode /\ last[w] # NoNode
    /\ Flush(w)
    /\ FinalState(w)
    /\ \E station \in FinalStations(w) : Upsert(w, station, FALSE)
    /\ Forget(w)
    /\ Goto(w, AfterRun(w))
    /\ UNCHANGED <<publisherVars, processVars, dataVars, session, sent,
                   visits, nodeErrors, qwenCalls, finished>>

\* A node, or the graph, raises: run_one returns None.
RunFails(w) ==
    /\ at[w] = "running" /\ Runs(w)
    /\ faults' = faults \cup {Session(w)}
    /\ Forget(w)
    /\ Return(w)
    /\ UNCHANGED <<publisherVars, countVars, processVars, session, stateVars, sent,
                   row, unread>>

\* _persist: the row and its decisions in one transaction, then the tracker.
Persist(w) ==
    /\ at[w] = "persisting" /\ Runs(w)
    /\ row' = row \cup {Session(w)}
    /\ RecordCompletion
    /\ Return(w)
    /\ UNCHANGED <<publisherVars, runVars, processVars, sent, faults, unread,
                   visits, durations, nodeErrors, qwenCalls>>

\* The database fails; a commit that is not answered may have been made.
PersistFails(w) ==
    /\ at[w] = "persisting" /\ Runs(w)
    /\ row' \in {row, row \cup {Session(w)}}
    /\ faults' = faults \cup {Session(w)}
    /\ Return(w)
    /\ UNCHANGED <<publisherVars, runVars, countVars, processVars, sent, unread>>

\* CancelledError passes every handler of run_one.
Interrupted(w) ==
    /\ w \in cancelled
    /\ cancelled' = cancelled \ {w}
    /\ Abort(w, Event(w))
    /\ row' \in {row} \cup
           (IF at[w] = "persisting" THEN {row \cup {Session(w)}} ELSE {})
    /\ faults' = IF at[w] = "idle" THEN faults ELSE faults \cup {Session(w)}
    /\ Forget(w)
    /\ Goto(w, "done") /\ Unregister(w)
    /\ UNCHANGED <<countVars, stateVars, session, phase, sent, unread>>

------------------------------------------------------------------------------
(* The process *)

\* The publisher is started before the pool; a pool started without it
\* leaves that to its first event.
Boot ==
    /\ phase = "boot"
    /\ \/ BeginStart(Main) \/ Connected(Main) \/ Unreachable(Main) \/ Closed(Main)
    /\ phase' = IF call'[Main] = "out" THEN "running" ELSE phase
    /\ UNCHANGED <<runVars, trackerVars, cancelled, at, sent, dataVars>>

Shutdown ==
    /\ phase = "running"
    /\ phase' = "draining"
    /\ UNCHANGED <<publisherVars, runVars, trackerVars, cancelled, at, sent, dataVars>>

NoOne == {}

\* The tasks that are not done when the drain's time is over.
Stragglers == Live

DrainTimeout ==
    /\ phase = "draining" /\ Live # {}
    /\ phase' = "cancelling"
    /\ cancelled' = Stragglers
    /\ UNCHANGED <<publisherVars, runVars, trackerVars, at, sent, dataVars>>

\* The pool's shutdown has gathered every worker.
Drained == Live = {}

StopPublisher ==
    /\ phase \in {"draining", "cancelling"} /\ Drained
    /\ BeginStop(Main)
    /\ phase' = IF call'[Main] = "out" THEN "down" ELSE "stopping"
    /\ UNCHANGED <<runVars, trackerVars, cancelled, at, sent, dataVars>>

Stopped ==
    /\ phase = "stopping"
    /\ StopReturns(Main)
    /\ phase' = "down"
    /\ UNCHANGED <<runVars, trackerVars, cancelled, at, sent, dataVars>>

Down == phase = "down" /\ UNCHANGED vars

Work(w) ==
    \/ PickPersona(w) \/ Leave(w) \/ Publish(w)
    \/ \E n \in Nodes : EnterNode(w, n)
    \/ \E asked \in BOOLEAN, raised \in {0, 1}, validates \in BOOLEAN :
          Step(w, asked, raised, validates)
    \/ RunEnds(w)
    \/ RunFails(w) \/ Persist(w) \/ PersistFails(w)
    \/ Interrupted(w)

Next ==
    \/ \E w \in Workers : Work(w)
    \/ Boot \/ Shutdown \/ DrainTimeout \/ StopPublisher \/ Stopped \/ Down

Spec == Init /\ [][Next]_vars

\* The process's own task: the drain has a timeout, and a producer's stop is
\* taken to return.
Closing == DrainTimeout \/ StopPublisher \/ Stopped

\* The loop resumes a task that was cancelled.  Nothing is assumed of a session:
\* it may hang.
Fairness == WF_vars(Closing) /\ \A w \in Workers : WF_vars(Interrupted(w))

FairSpec == Spec /\ Fairness

------------------------------------------------------------------------------
(* Properties *)

Has(s, e) == <<s, e>> \in topics

\* scheduler.py:50-58, kafka_publisher.py:33: whatever the broker does, and
\* whichever worker's send degraded the publisher, what the data lake has of a
\* session is a beginning of it: never an end without all its decisions,
\* never a decision without those before it and the session's start.
PublishedInOrder ==
    \A s \in Sessions :
        LET upTo(i) == Has(s, Start) /\ \A j \in 1 .. i : Has(s, Decision(j))
        IN  /\ \A i \in 1 .. decisions[s] : Has(s, Decision(i)) => upTo(i)
            /\ Has(s, End) => upTo(decisions[s])

\* A session that is in the database was announced as ended, unless the
\* publisher is degraded: then the lake knows that it misses sessions.
RowIsAnnounced == \A s \in row : Has(s, End) \/ degraded

\* kafka_publisher.py:40-41: "o pool de agentes nao pode falhar quando o
\* broker esta caido".  A session that is over has its row, unless its own
\* graph or the database failed it, or the drain cut it.
BrokerCostsNoSession ==
    \A w \in Workers, i \in 1 .. MaxSessions :
        LET over == i < session[w] \/ (i = session[w] /\ at[w] \in {"idle", "done"})
        IN  over => <<w, i>> \in row \cup faults

\* At most one producer is ever open, however many workers find none at
\* once; and when the process is down none is, nor is a send under way.
OneProducer ==
    /\ open = IF producer THEN 1 ELSE 0
    /\ Cardinality(lock) <= 1
    /\ phase = "down" => open = 0 /\ \A t \in Tasks : call[t] = "out"

InSession == {w \in Workers : at[w] \in {"running", "decisions", "ended", "persisting"}}
Running == {w \in Workers : at[w] = "running"}
Where(w) == IF node[w] # NoNode THEN node[w] ELSE last[w]

Occupants(n) == {w \in Running : Where(w) = n}

\* What /ws/agents would send now shows every session at the node it is in,
\* and a worker as busy for as long as it has a session, whichever way the
\* session ends.  Only the node abandon may show more: sessions that are over
\* and still to be announced or persisted.
FloorFollowsSessions ==
    /\ Snapshot.busy = Cardinality(InSession)
    /\ \A n \in Nodes \ {Abandon} :
          Snapshot.nodeStats[n].occupancy = Cardinality(Occupants(n))
    /\ Snapshot.nodeStats[Abandon].occupancy \in
          Cardinality(Occupants(Abandon)) ..
              Cardinality(Occupants(Abandon) \cup (InSession \ Running))

Total(count, S) == MapThenSumSet(LAMBDA x : count[x], S)

\* Without failures a visit of a node is left once, but for the runs still in
\* it; an error is counted once; no decision of the trace is missed among the
\* Qwen calls, and each of these is a visit of a Qwen node; and a session is
\* completed if its row is there.
CountersFollowSessions ==
    /\ \A n \in Nodes :
          LET inside == Cardinality({w \in Running : last[w] = n})
          IN  /\ visits[n] - durations[n] >= inside
              /\ faults = {} => visits[n] - durations[n] = inside
    /\ unread = {} =>
          /\ Total(nodeErrors, Nodes) = Total(errors, Sessions)
          /\ Total(decisions, Sessions) <= qwenCalls
    /\ qwenCalls <= Total(visits, QwenNodes)
    /\ finished <= Cardinality(row)
    /\ faults = {} => finished = Cardinality(row)

\* runner.py:71-74, qwen_runner.py:34-40, graph.py:64-67: the live floor tells
\* the truth of the sessions: their places at every moment, and the counts of
\* what they did as far as no session was lost.
LiveFloorIsTrue == FloorFollowsSessions /\ CountersFollowSessions

ShuttingDown == phase \in {"draining", "cancelling", "stopping"}

\* orchestrator/main.py:8: a shutdown ends, though a session hangs in a call of
\* the broker, of Qwen or of the database: sooner or later the process runs for
\* good, or is down.  The close of the publisher itself is taken to return.
ShutdownEnds == <>[]~ShuttingDown
==============================================================================
