----------------------------- MODULE LiveTracker -----------------------------
(***************************************************************************)
(* LiveAgentTracker (observability/live_tracker.py), as a buyer's session  *)
(* uses it: its worker's seat on the live floor, the counters of each node *)
(* and those of the whole crowd, and the snapshot of them that /ws/agents  *)
(* broadcasts.  Every method takes the tracker's lock and awaits nothing   *)
(* under it, so that a call is one step of its caller.                     *)
(*                                                                         *)
(* The buffer of events and the windows of a minute or five are left out:  *)
(* the counters here are the totals.                                       *)
(***************************************************************************)
EXTENDS Integers, FiniteSets

CONSTANTS Workers,  \* the workers of the pool
          Nodes,    \* the nodes of the graph, which are stations of the floor
          Abandon   \* the node of that name

VARIABLES floor,      \* _workers: the seat of each worker
          visits,     \* _node_stats: visits_total
          durations,  \* _node_stats: how many durations were observed
          nodeErrors, \* _node_stats: errors_total
          qwenCalls,  \* _stats.qwen_calls_total
          finished    \* _stats: how many sessions were completed

\* The stations that are no nodes: where a run that begins puts its worker, and
\* where one that ends with a purchase leaves it.
Entrance == "waiting_pool"
Purchased == "purchased"
Stations == Nodes \cup {Entrance, Purchased}

TrackerTypeOK ==
    /\ floor \in [Workers -> [status : {"absent", "idle", "in_session"},
                              station : Stations, thinking : BOOLEAN]]
    /\ visits \in [Nodes -> Nat] /\ durations \in [Nodes -> Nat]
    /\ nodeErrors \in [Nodes -> Nat]
    /\ qwenCalls \in Nat
    /\ finished \in Nat

Seat(status, station, thinking) ==
    [status |-> status, station |-> station, thinking |-> thinking]

IdleSeat == Seat("idle", Entrance, FALSE)
NoSeat == Seat("absent", Entrance, FALSE)

TrackerInit ==
    /\ floor = [w \in Workers |-> IdleSeat]
    /\ visits = [n \in Nodes |-> 0] /\ durations = [n \in Nodes |-> 0]
    /\ nodeErrors = [n \in Nodes |-> 0]
    /\ qwenCalls = 0
    /\ finished = 0

MarkIdle(w) == floor' = [floor EXCEPT ![w] = IdleSeat]

Unregister(w) == floor' = [floor EXCEPT ![w] = NoSeat]

\* upsert_from_state replaces the worker's entry.
Upsert(w, station, thinking) ==
    floor' = [floor EXCEPT ![w] = Seat("in_session", station, thinking)]

RecordEnter(n) == visits' = [visits EXCEPT ![n] = @ + 1]

RecordExit(n) == durations' = [durations EXCEPT ![n] = @ + 1]

RecordError(n) == nodeErrors' = [nodeErrors EXCEPT ![n] = @ + 1]

\* push_event with the type "qwen".
PushQwen == qwenCalls' = qwenCalls + 1

\* Whatever its outcome: purchased, abandoned and the others are counted apart.
RecordCompletion == finished' = finished + 1

\* What a client of /ws/agents gets.
Shown == {w \in Workers : floor[w].status # "absent"}
Busy == {w \in Shown : floor[w].status = "in_session"}
Load(n) == Cardinality({w \in Shown : floor[w].station = n})

Snapshot ==
    [busy      |-> Cardinality(Busy),
     idle      |-> Cardinality(Shown) - Cardinality(Busy),
     nodeStats |-> [n \in Nodes |-> [visits    |-> visits[n],
                                     errors    |-> nodeErrors[n],
                                     occupancy |-> Load(n)]],
     qwenCalls |-> qwenCalls,
     completed |-> finished]
==============================================================================
