---------------------------- MODULE TechLeadProofs ----------------------------
(***************************************************************************)
(* That a task's status, stamps and results agree, that no task is left in *)
(* review without an evaluation, and that the backlog's items are not      *)
(* handed out again and again, for any clients, tasks, items and criteria; *)
(* and that what the requests write are the moves of TaskWorkflow.         *)
(***************************************************************************)
EXTENDS TechLead, FiniteSetTheorems, TLAPS

\* A number that no task has yet has no results either.
Unused == \A t \in Ids \ Tasks : verdict[t] = "none"

\* Who read a task in review read one that had been submitted.
SeenSubmitted ==
    \A c \in Clients :
        request[c] \in {"checking", "saving"} /\ seen[c] = "review"
            => "submitted" \in stamps[on[c]]

\* Every generation under way has room for its task.
Room == tasks + Cardinality(Generating) <= MaxTasks

IInv ==
    /\ TypeOK /\ Unused /\ SeenSubmitted /\ Room
    /\ StatusIsJustified /\ ReviewIsEvaluated /\ DuplicatesBounded

Stages == {"idle", "generating", "starting", "submitting", "fetching", "checking",
           "saving"}

TasksOf(i) == {t \in Tasks : item[t] = i}
GeneratingFrom(i) == {c \in Generating : on[c] = i}

LEMMA TaskIds == TypeOK => tasks \in Nat /\ MaxTasks \in Nat /\ Tasks \subseteq Ids
  BY TechLeadAssumption DEF TechLeadAssumption, TypeOK, Tasks, Ids

LEMMA FiniteTasks ==
  ASSUME TypeOK, NEW i
  PROVE  /\ IsFiniteSet(TasksOf(i)) /\ Cardinality(TasksOf(i)) \in Nat
         /\ IsFiniteSet(GeneratingFrom(i)) /\ Cardinality(GeneratingFrom(i)) \in Nat
         /\ IsFiniteSet(Clients) /\ Cardinality(Clients) \in Nat
         /\ IsFiniteSet(Generating) /\ Cardinality(Generating) \in Nat
<1>1. PICK n \in Int : n = tasks
    BY TaskIds
<1>2. IsFiniteSet(1 .. n)
    BY FS_Interval
<1>3. TasksOf(i) \subseteq 1 .. n /\ GeneratingFrom(i) \subseteq Clients
      /\ Generating \subseteq Clients
    BY <1>1 DEF TasksOf, Tasks, GeneratingFrom, Generating
<1>4. IsFiniteSet(Clients)
    BY TechLeadAssumption DEF TechLeadAssumption
<1> QED
    BY <1>2, <1>3, <1>4, FS_Subset, FS_CardinalityType

LEMMA InitIInv == Init => IInv
<1> SUFFICES ASSUME Init PROVE IInv
    OBVIOUS
<1>1. Tasks = {} /\ MaxTasks \in Nat
    BY TechLeadAssumption DEF TechLeadAssumption, Init, Tasks
<1>2. TypeOK
  <2>1. allPassed \in [Clients -> BOOLEAN] /\ aborted \in [Clients -> BOOLEAN]
    BY DEF Init
  <2> QED
    BY <1>1, <2>1 DEF Init, TypeOK, Ids
<1>3. DuplicatesBounded
  <2> SUFFICES ASSUME NEW i \in Items
               PROVE  Cardinality(TasksOf(i)) + Cardinality(GeneratingFrom(i))
                          <= Cardinality(Clients)
    BY DEF DuplicatesBounded, TasksOf, GeneratingFrom
  <2>1. TasksOf(i) = {} /\ GeneratingFrom(i) = {}
    BY <1>1 DEF Init, TasksOf, GeneratingFrom, Generating
  <2> QED
    BY <1>2, <2>1, FS_EmptySet, FiniteTasks
<1>4. Room
  <2>1. Generating = {}
    BY DEF Init, Generating
  <2> QED
    BY <1>1, <2>1, FS_EmptySet DEF Init, Room
<1> QED
    BY <1>1, <1>2, <1>3, <1>4 DEF Init, IInv, Unused, SeenSubmitted, StatusIsJustified,
       ReviewIsEvaluated

------------------------------------------------------------------------------
(* What the handlers' helpers do *)

\* A request that is over leaves the others alone.
LEMMA RespondFacts ==
  ASSUME TypeOK, NEW c \in Clients, Respond(c)
  PROVE  /\ request' \in [Clients -> Stages] /\ request'[c] = "idle"
         /\ on' \in [Clients -> Items \cup Ids \cup {NoItem}]
         /\ seen' \in [Clients -> Statuses \cup {"absent"}]
         /\ allPassed' \in [Clients -> BOOLEAN] /\ aborted' \in [Clients -> BOOLEAN]
         /\ \A d \in Clients \ {c} :
               request'[d] = request[d] /\ on'[d] = on[d] /\ seen'[d] = seen[d]
  BY DEF TypeOK, Respond, Stages

\* Writing a task changes no other, takes no stamp away, and leaves a task the
\* status it had only where it was read with the new one.
LEMMA WriteFacts ==
  ASSUME TypeOK, NEW t \in Tasks, NEW loaded, NEW new \in Statuses,
         NEW marks \in SUBSET {"started", "submitted", "completed"},
         Write(t, loaded, new, marks)
  PROVE  /\ status' \in [Ids -> Statuses \cup {"absent"}]
         /\ stamps' \in [Ids -> SUBSET {"started", "submitted", "completed"}]
         /\ \A u \in Ids \ {t} : status'[u] = status[u] /\ stamps'[u] = stamps[u]
         /\ status'[t] \in {status[t], new} \ {"absent"}
         /\ loaded # new => status'[t] = new
         /\ stamps'[t] = stamps[t] \cup marks
         /\ orphans' \subseteq orphans
         /\ \A u \in orphans : status'[u] = "review" => u \in orphans'
<1>1. t \in Ids /\ status[t] # "absent"
    BY TaskIds DEF TypeOK
<1>2. /\ status' \in [Ids -> Statuses \cup {"absent"}]
      /\ \A u \in Ids \ {t} : status'[u] = status[u]
      /\ status'[t] = IF loaded # new THEN new ELSE status[t]
    BY <1>1 DEF TypeOK, Write, Stamped
<1>3. /\ stamps' \in [Ids -> SUBSET {"started", "submitted", "completed"}]
      /\ \A u \in Ids \ {t} : stamps'[u] = stamps[u]
      /\ stamps'[t] = stamps[t] \cup marks
    BY <1>1 DEF TypeOK, Write, Stamped
<1>4. orphans' = IF status'[t] = "review" THEN orphans ELSE orphans \ {t}
    BY DEF Write
<1>5. new # "absent"
    BY DEF Statuses
<1> QED
    BY <1>1, <1>2, <1>3, <1>4, <1>5

LEMMA DuplicatesKept ==
  ASSUME TypeOK, DuplicatesBounded, Room, UNCHANGED <<tasks, item>>,
         \A c \in Clients : request'[c] = "generating"
                               => request[c] = "generating" /\ on'[c] = on[c]
  PROVE  DuplicatesBounded' /\ Room'
<1>a. Room'
  <2>1. PICK G : G = Generating'
    OBVIOUS
  <2>2. IsFiniteSet(Generating) /\ Cardinality(Generating) \in Nat
    BY FiniteTasks
  <2>3. G \subseteq Generating
    BY <2>1 DEF Generating
  <2>4. Cardinality(G) \in Nat /\ Cardinality(G) <= Cardinality(Generating)
    BY <2>2, <2>3, FS_Subset, FS_CardinalityType
  <2> QED
    BY <2>1, <2>2, <2>4, TaskIds DEF Room
<1> SUFFICES ASSUME NEW i \in Items
             PROVE  Cardinality(TasksOf(i)') + Cardinality(GeneratingFrom(i)')
                        <= Cardinality(Clients)
    BY <1>a DEF DuplicatesBounded, TasksOf, GeneratingFrom
<1>1. TasksOf(i)' = TasksOf(i) /\ GeneratingFrom(i)' \subseteq GeneratingFrom(i)
    BY DEF TasksOf, Tasks, GeneratingFrom, Generating
<1>2. PICK G : G = GeneratingFrom(i)'
    OBVIOUS
<1>3. /\ IsFiniteSet(GeneratingFrom(i)) /\ Cardinality(GeneratingFrom(i)) \in Nat
      /\ Cardinality(TasksOf(i)) \in Nat /\ Cardinality(Clients) \in Nat
    BY FiniteTasks
<1>4. Cardinality(G) \in Nat /\ Cardinality(G) <= Cardinality(GeneratingFrom(i))
    BY <1>1, <1>2, <1>3, FS_Subset, FS_CardinalityType
<1>5. Cardinality(TasksOf(i)) + Cardinality(GeneratingFrom(i)) <= Cardinality(Clients)
    BY DEF DuplicatesBounded, TasksOf, GeneratingFrom
<1> QED
    BY <1>1, <1>2, <1>3, <1>4, <1>5

------------------------------------------------------------------------------
(* Transitions *)

LEMMA StartedOK ==
  ASSUME IInv, NEW c \in Clients, Started(c)
  PROVE  IInv'
<1>1. PICK t \in Tasks : t = on[c] /\ t \in Ids
    BY TaskIds DEF Started, IInv, TypeOK
<1>2. /\ request[c] = "starting" /\ UNCHANGED <<tasks, item, plan, verdict>>
      /\ Respond(c)
    BY DEF Started
<1>3. /\ request' \in [Clients -> Stages] /\ request'[c] = "idle"
      /\ on' \in [Clients -> Items \cup Ids \cup {NoItem}]
      /\ seen' \in [Clients -> Statuses \cup {"absent"}]
      /\ allPassed' \in [Clients -> BOOLEAN] /\ aborted' \in [Clients -> BOOLEAN]
      /\ \A d \in Clients \ {c} :
            request'[d] = request[d] /\ on'[d] = on[d] /\ seen'[d] = seen[d]
    BY <1>2, RespondFacts DEF IInv
<1>4. /\ status' \in [Ids -> Statuses \cup {"absent"}]
      /\ stamps' \in [Ids -> SUBSET {"started", "submitted", "completed"}]
      /\ \A u \in Ids \ {t} : status'[u] = status[u] /\ stamps'[u] = stamps[u]
      /\ status'[t] \in {status[t], "in_progress"} \ {"absent"}
      /\ stamps'[t] = stamps[t] \cup {"started"}
      /\ orphans' \subseteq orphans
      /\ \A u \in orphans : status'[u] = "review" => u \in orphans'
    BY <1>1, WriteFacts DEF Started, Statuses, IInv
<1>5. TypeOK'
    BY <1>1, <1>2, <1>3, <1>4 DEF IInv, TypeOK, Stages, Tasks
<1>6. Tasks' = Tasks /\ Tasks \subseteq Ids
    BY <1>2, TaskIds DEF Tasks, IInv
<1>7. Unused'
    BY <1>2, <1>6 DEF IInv, Unused
<1>8. SeenSubmitted'
  <2>1. \A u \in Ids : stamps[u] \subseteq stamps'[u]
    BY <1>4
  <2>2. \A d \in Clients : request[d] \in {"checking", "saving"} => on[d] \in Ids
    BY <1>6 DEF IInv, TypeOK
  <2> QED
    BY <1>3, <2>1, <2>2 DEF IInv, SeenSubmitted
<1>9. StatusIsJustified'
    BY <1>1, <1>2, <1>4, <1>6 DEF IInv, StatusIsJustified
<1>10. ReviewIsEvaluated'
    BY <1>1, <1>2, <1>3, <1>4, <1>6 DEF IInv, ReviewIsEvaluated
<1>11. DuplicatesBounded' /\ Room'
    BY <1>2, <1>3, DuplicatesKept DEF IInv
<1> QED
    BY <1>5, <1>7, <1>8, <1>9, <1>10, <1>11 DEF IInv

LEMMA SubmittedOK ==
  ASSUME IInv, NEW c \in Clients, Submitted(c)
  PROVE  IInv'
<1>1. PICK t \in Tasks : t = on[c] /\ t \in Ids
    BY TaskIds DEF Submitted, IInv, TypeOK
<1>2. /\ request[c] = "submitting"
      /\ UNCHANGED <<tasks, item, plan, verdict, on, seen, allPassed, aborted>>
    BY DEF Submitted
<1>3. /\ request' \in [Clients -> Stages] /\ request'[c] = "fetching"
      /\ \A d \in Clients \ {c} : request'[d] = request[d]
    BY DEF Submitted, IInv, TypeOK, Stages
<1>4. /\ status' \in [Ids -> Statuses \cup {"absent"}]
      /\ stamps' \in [Ids -> SUBSET {"started", "submitted", "completed"}]
      /\ \A u \in Ids \ {t} : status'[u] = status[u] /\ stamps'[u] = stamps[u]
      /\ status'[t] \in {status[t], "review"} \ {"absent"}
      /\ stamps'[t] = stamps[t] \cup {"submitted"}
      /\ orphans' \subseteq orphans
      /\ \A u \in orphans : status'[u] = "review" => u \in orphans'
    BY <1>1, WriteFacts DEF Submitted, Statuses, IInv
<1>5. TypeOK'
    BY <1>1, <1>2, <1>3, <1>4 DEF IInv, TypeOK, Stages, Tasks
<1>6. Tasks' = Tasks /\ Tasks \subseteq Ids
    BY <1>2, TaskIds DEF Tasks, IInv
<1>7. Unused'
    BY <1>2, <1>6 DEF IInv, Unused
<1>8. SeenSubmitted'
  <2>1. \A u \in Ids : stamps[u] \subseteq stamps'[u]
    BY <1>4
  <2>2. \A d \in Clients : request[d] \in {"checking", "saving"} => on[d] \in Ids
    BY <1>6 DEF IInv, TypeOK
  <2> QED
    BY <1>2, <1>3, <2>1, <2>2 DEF IInv, SeenSubmitted
<1>9. StatusIsJustified'
    BY <1>1, <1>2, <1>4, <1>6 DEF IInv, StatusIsJustified
<1>10. ReviewIsEvaluated'
    BY <1>1, <1>2, <1>3, <1>4, <1>6 DEF IInv, ReviewIsEvaluated
<1>11. DuplicatesBounded' /\ Room'
    BY <1>2, <1>3, DuplicatesKept DEF IInv
<1> QED
    BY <1>5, <1>7, <1>8, <1>9, <1>10, <1>11 DEF IInv

------------------------------------------------------------------------------
(* Evaluation *)

\* Handlers that only read: the tasks and the generations are untouched.
LEMMA ReadOK ==
  ASSUME IInv, NEW c \in Clients, NEW t \in Tasks, Read(c, t),
         NEW s \in {"starting", "submitting", "checking"},
         request[c] \in {"idle", "fetching"},
         request[c] = "fetching" => on[c] = t /\ s = "checking",
         request' = [request EXCEPT ![c] = s]
  PROVE  IInv'
<1>1. t \in Ids /\ Tasks \subseteq Ids /\ status[t] \in Statuses \cup {"absent"}
    BY TaskIds DEF IInv, TypeOK
<1>2. UNCHANGED <<tasks, item, plan, status, verdict, stamps, allPassed, aborted, orphans>>
    BY DEF Read, taskVars
<1>3. /\ request' \in [Clients -> Stages] /\ request'[c] = s
      /\ on' \in [Clients -> Items \cup Ids \cup {NoItem}] /\ on'[c] = t
      /\ seen' \in [Clients -> Statuses \cup {"absent"}] /\ seen'[c] = status[t]
      /\ \A d \in Clients \ {c} :
            request'[d] = request[d] /\ on'[d] = on[d] /\ seen'[d] = seen[d]
    BY <1>1 DEF Read, IInv, TypeOK, Stages
<1>4. TypeOK'
    BY <1>1, <1>2, <1>3 DEF IInv, TypeOK, Stages, Tasks
<1>5. Unused' /\ StatusIsJustified'
    BY <1>2 DEF IInv, Unused, StatusIsJustified, Tasks
<1>6. SeenSubmitted'
  <2>1. status[t] = "review" => "submitted" \in stamps[t]
    BY DEF IInv, StatusIsJustified
  <2> QED
    BY <1>2, <1>3, <2>1 DEF IInv, SeenSubmitted
<1>7. ReviewIsEvaluated'
    BY <1>2, <1>3 DEF IInv, ReviewIsEvaluated, Tasks
<1>8. DuplicatesBounded' /\ Room'
    BY <1>2, <1>3, DuplicatesKept DEF IInv
<1> QED
    BY <1>4, <1>5, <1>6, <1>7, <1>8 DEF IInv

LEMMA RunChecksOK ==
  ASSUME IInv, NEW c \in Clients, RunChecks(c)
  PROVE  IInv'
<1>1. request[c] = "checking" /\ UNCHANGED <<taskVars, on, seen, orphans>>
    BY DEF RunChecks
<1>2. UNCHANGED <<tasks, item, plan, status, verdict, stamps>>
    BY <1>1 DEF taskVars
<1>3. allPassed' \in [Clients -> BOOLEAN] /\ aborted' \in [Clients -> BOOLEAN]
  <2>1. PICK r : /\ allPassed' = [allPassed EXCEPT
                                   ![c] = \A i \in DOMAIN plan[on[c]] : r[i].passed]
                 /\ aborted' = [aborted EXCEPT
                                   ![c] = \E i \in DOMAIN plan[on[c]] : r[i].aborts]
    BY DEF RunChecks
  <2>2. PICK a \in BOOLEAN, b \in BOOLEAN :
            allPassed' = [allPassed EXCEPT ![c] = a] /\ aborted' = [aborted EXCEPT ![c] = b]
    <3>1. (\A i \in DOMAIN plan[on[c]] : r[i].passed) \in BOOLEAN
      OBVIOUS
    <3>2. (\E i \in DOMAIN plan[on[c]] : r[i].aborts) \in BOOLEAN
      OBVIOUS
    <3> QED
      BY <2>1, <3>1, <3>2, Zenon
  <2> QED
    BY <2>2 DEF IInv, TypeOK
<1>4. /\ request' \in [Clients -> Stages] /\ request'[c] = "saving"
      /\ \A d \in Clients \ {c} : request'[d] = request[d]
    BY DEF RunChecks, IInv, TypeOK, Stages
<1>5. TypeOK'
    BY <1>1, <1>2, <1>3, <1>4 DEF IInv, TypeOK, Stages, Tasks
<1>6. Unused' /\ StatusIsJustified'
    BY <1>2 DEF IInv, Unused, StatusIsJustified, Tasks
<1>7. SeenSubmitted' /\ ReviewIsEvaluated'
    BY <1>1, <1>2, <1>4 DEF IInv, SeenSubmitted, ReviewIsEvaluated, Tasks
<1>8. DuplicatesBounded' /\ Room'
    BY <1>1, <1>2, <1>4, DuplicatesKept DEF IInv
<1> QED
    BY <1>5, <1>6, <1>7, <1>8 DEF IInv

LEMMA SaveOK ==
  ASSUME IInv, NEW c \in Clients, Save(c)
  PROVE  IInv'
<1>1. PICK t \in Tasks : t = on[c] /\ t \in Ids
    BY TaskIds DEF Save, IInv, TypeOK
<1>2. /\ request[c] = "saving" /\ UNCHANGED <<tasks, item, plan>>
      /\ Settle(c) /\ Respond(c)
      /\ verdict' = [verdict EXCEPT ![t] = Verdict(c)]
    BY <1>1 DEF Save
<1>3. /\ request' \in [Clients -> Stages] /\ request'[c] = "idle"
      /\ on' \in [Clients -> Items \cup Ids \cup {NoItem}]
      /\ seen' \in [Clients -> Statuses \cup {"absent"}]
      /\ allPassed' \in [Clients -> BOOLEAN] /\ aborted' \in [Clients -> BOOLEAN]
      /\ \A d \in Clients \ {c} :
            request'[d] = request[d] /\ on'[d] = on[d] /\ seen'[d] = seen[d]
    BY <1>2, RespondFacts DEF IInv
<1>4. /\ verdict' \in [Ids -> {"none", "passed", "failed"}]
      /\ verdict'[t] = IF allPassed[c] THEN "passed" ELSE "failed"
      /\ \A u \in Ids \ {t} : verdict'[u] = verdict[u]
    BY <1>1, <1>2 DEF Verdict, IInv, TypeOK
\* What the row comes to, in the three cases.
<1>5. /\ status' \in [Ids -> Statuses \cup {"absent"}]
      /\ stamps' \in [Ids -> SUBSET {"started", "submitted", "completed"}]
      /\ \A u \in Ids \ {t} : status'[u] = status[u] /\ stamps'[u] = stamps[u]
      /\ status'[t] # "absent"
      /\ stamps[t] \subseteq stamps'[t]
      /\ orphans' \subseteq orphans
      /\ \A u \in orphans : status'[u] = "review" => u \in orphans'
      /\ allPassed[c] => status'[t] = "done" /\ "completed" \in stamps'[t]
      /\ ~allPassed[c] /\ seen[c] = "review" => status'[t] = "blocked"
      /\ ~allPassed[c] /\ seen[c] # "review" => status' = status
  <2>0. status[t] # "absent"
    BY <1>1 DEF IInv, TypeOK
  <2>1. CASE allPassed[c]
    <3>1. Write(t, status[t], "done", {"completed"})
      BY <1>1, <1>2, <2>1 DEF Settle
    <3>2. /\ status' \in [Ids -> Statuses \cup {"absent"}]
          /\ stamps' \in [Ids -> SUBSET {"started", "submitted", "completed"}]
          /\ \A u \in Ids \ {t} : status'[u] = status[u] /\ stamps'[u] = stamps[u]
          /\ status'[t] \in {status[t], "done"} \ {"absent"}
          /\ status[t] # "done" => status'[t] = "done"
          /\ stamps'[t] = stamps[t] \cup {"completed"}
          /\ orphans' \subseteq orphans
          /\ \A u \in orphans : status'[u] = "review" => u \in orphans'
      <4>1. "done" \in Statuses /\ TypeOK
        BY DEF Statuses, IInv
      <4> QED
        BY <3>1, <4>1, WriteFacts
    <3> QED
      BY <2>1, <3>2
  <2>2. CASE ~allPassed[c] /\ seen[c] = "review"
    <3>1. Write(t, status[t], "blocked", {})
      BY <1>1, <1>2, <2>2 DEF Settle, WasInReview
    <3>2. /\ status' \in [Ids -> Statuses \cup {"absent"}]
          /\ stamps' \in [Ids -> SUBSET {"started", "submitted", "completed"}]
          /\ \A u \in Ids \ {t} : status'[u] = status[u] /\ stamps'[u] = stamps[u]
          /\ status'[t] \in {status[t], "blocked"} \ {"absent"}
          /\ status[t] # "blocked" => status'[t] = "blocked"
          /\ stamps'[t] = stamps[t] \cup {}
          /\ orphans' \subseteq orphans
          /\ \A u \in orphans : status'[u] = "review" => u \in orphans'
      <4>1. "blocked" \in Statuses /\ TypeOK
        BY DEF Statuses, IInv
      <4> QED
        BY <3>1, <4>1, WriteFacts
    <3> QED
      BY <2>2, <3>2
  <2>3. CASE ~allPassed[c] /\ seen[c] # "review"
    <3>1. UNCHANGED <<status, stamps, orphans>>
      BY <1>2, <2>3 DEF Settle, WasInReview
    <3> QED
      BY <2>0, <2>3, <3>1 DEF IInv, TypeOK
  <2> QED
    BY <2>1, <2>2, <2>3
<1>6. Tasks' = Tasks /\ Tasks \subseteq Ids
    BY <1>2, TaskIds DEF Tasks, IInv
<1>7. TypeOK'
    BY <1>1, <1>2, <1>3, <1>4, <1>5, <1>6 DEF IInv, TypeOK, Stages
<1>8. Unused'
    BY <1>4, <1>6 DEF IInv, Unused
<1>9. \A u \in Ids : stamps[u] \subseteq stamps'[u]
    BY <1>5
<1>10. SeenSubmitted'
  <2>1. \A d \in Clients : request[d] \in {"checking", "saving"} => on[d] \in Ids
    BY <1>6 DEF IInv, TypeOK
  <2> QED
    BY <1>3, <1>9, <2>1 DEF IInv, SeenSubmitted
<1>11. StatusIsJustified'
  <2>1. \A u \in Tasks \ {t} : /\ status'[u] = status[u] /\ stamps'[u] = stamps[u]
                               /\ verdict'[u] = verdict[u]
    BY <1>4, <1>5, <1>6
  <2>2. seen[c] = "review" => "submitted" \in stamps[t]
    BY <1>1, <1>2 DEF IInv, SeenSubmitted
  <2>3. /\ status[t] = "in_progress" => "started" \in stamps[t]
        /\ status[t] \in {"review", "blocked"} => "submitted" \in stamps[t]
        /\ status[t] = "done" => "completed" \in stamps[t]
    BY DEF IInv, StatusIsJustified
  <2>4. /\ status'[t] = "in_progress" => "started" \in stamps'[t]
        /\ status'[t] \in {"review", "blocked"} => "submitted" \in stamps'[t]
        /\ status'[t] = "blocked" => verdict'[t] = "failed"
        /\ status'[t] = "done" => "completed" \in stamps'[t]
        /\ verdict'[t] = "passed" => "completed" \in stamps'[t] /\ status'[t] # "backlog"
    BY <1>4, <1>5, <2>2, <2>3
  <2> QED
    BY <1>6, <2>1, <2>4 DEF IInv, StatusIsJustified
<1>12. ReviewIsEvaluated'
  <2> SUFFICES ASSUME NEW u \in Tasks, status'[u] = "review", u \notin orphans'
               PROVE  \E d \in Clients :
                         /\ on'[d] = u
                         /\ \/ request'[d] = "fetching"
                            \/ request'[d] \in {"checking", "saving"} /\ seen'[d] = "review"
    BY <1>6 DEF ReviewIsEvaluated
  <2>1. status[u] = "review" /\ u \notin orphans
    BY <1>5, <1>6
  <2>2. PICK d \in Clients : /\ on[d] = u
                             /\ \/ request[d] = "fetching"
                                \/ request[d] \in {"checking", "saving"} /\ seen[d] = "review"
    BY <2>1 DEF IInv, ReviewIsEvaluated
  <2>3. d # c
    BY <1>1, <1>2, <1>5, <2>1, <2>2
  <2> QED
    BY <1>3, <2>2, <2>3
<1>13. DuplicatesBounded' /\ Room'
    BY <1>2, <1>3, DuplicatesKept DEF IInv
<1> QED
    BY <1>7, <1>8, <1>10, <1>11, <1>12, <1>13 DEF IInv

\* A request that ends without writing leaves its task, if that was in review,
\* among the orphans.
LEMMA SaveFailsOK ==
  ASSUME IInv, NEW c \in Clients, SaveFails(c)
  PROVE  IInv'
<1>1. /\ request[c] = "saving" /\ Respond(c)
      /\ UNCHANGED <<tasks, item, plan, status, verdict, stamps>>
      /\ orphans' = orphans \cup Orphaned({c})
    BY DEF SaveFails, taskVars
<1>2. /\ request' \in [Clients -> Stages] /\ request'[c] = "idle"
      /\ on' \in [Clients -> Items \cup Ids \cup {NoItem}]
      /\ seen' \in [Clients -> Statuses \cup {"absent"}]
      /\ allPassed' \in [Clients -> BOOLEAN] /\ aborted' \in [Clients -> BOOLEAN]
      /\ \A d \in Clients \ {c} :
            request'[d] = request[d] /\ on'[d] = on[d] /\ seen'[d] = seen[d]
    BY <1>1, RespondFacts DEF IInv
<1>3. TypeOK'
    BY <1>1, <1>2 DEF IInv, TypeOK, Stages, Tasks, Orphaned
<1>4. Unused' /\ StatusIsJustified'
    BY <1>1 DEF IInv, Unused, StatusIsJustified, Tasks
<1>5. SeenSubmitted'
    BY <1>1, <1>2 DEF IInv, SeenSubmitted
<1>6. ReviewIsEvaluated'
  <2> SUFFICES ASSUME NEW t \in Tasks, status[t] = "review", t \notin orphans'
               PROVE  \E d \in Clients :
                         /\ on'[d] = t
                         /\ \/ request'[d] = "fetching"
                            \/ request'[d] \in {"checking", "saving"} /\ seen'[d] = "review"
    BY <1>1 DEF ReviewIsEvaluated, Tasks
  <2>1. PICK d \in Clients : /\ on[d] = t
                             /\ \/ request[d] = "fetching"
                                \/ request[d] \in {"checking", "saving"} /\ seen[d] = "review"
    BY <1>1 DEF IInv, ReviewIsEvaluated
  <2>2. d # c
    BY <1>1, <2>1 DEF Orphaned
  <2> QED
    BY <1>2, <2>1, <2>2
<1>7. DuplicatesBounded' /\ Room'
    BY <1>1, <1>2, DuplicatesKept DEF IInv
<1> QED
    BY <1>3, <1>4, <1>5, <1>6, <1>7 DEF IInv

LEMMA RestartOK ==
  ASSUME IInv, Restart
  PROVE  IInv'
<1>1. /\ UNCHANGED <<tasks, item, plan, status, verdict, stamps>>
      /\ request' = [c \in Clients |-> "idle"] /\ on' = [c \in Clients |-> NoItem]
      /\ seen' = [c \in Clients |-> "absent"]
      /\ allPassed' = [c \in Clients |-> TRUE] /\ aborted' = [c \in Clients |-> FALSE]
      /\ orphans' = orphans \cup
            Orphaned({c \in Clients : request[c] \in {"fetching", "checking", "saving"}})
    BY DEF Restart, taskVars
<1>2. TypeOK'
  <2>1. allPassed' \in [Clients -> BOOLEAN] /\ aborted' \in [Clients -> BOOLEAN]
    BY <1>1
  <2> QED
    BY <1>1, <2>1 DEF IInv, TypeOK, Tasks, Orphaned
<1>3. Unused' /\ StatusIsJustified' /\ SeenSubmitted'
    BY <1>1 DEF IInv, Unused, StatusIsJustified, SeenSubmitted, Tasks
<1>4. ReviewIsEvaluated'
    BY <1>1 DEF IInv, ReviewIsEvaluated, Orphaned, Tasks
<1>5. DuplicatesBounded' /\ Room'
    BY <1>1, DuplicatesKept DEF IInv
<1> QED
    BY <1>2, <1>3, <1>4, <1>5 DEF IInv

------------------------------------------------------------------------------
(* Generation *)

\* An item is handed out only while no task has it: with one request more it
\* is at most all the clients that hold it.
LEMMA GenerateOK ==
  ASSUME IInv, NEW c \in Clients, NEW i \in Items, Generate(c, i)
  PROVE  IInv'
<1>1. /\ request[c] = "idle" /\ i \in Available
      /\ request' = [request EXCEPT ![c] = "generating"] /\ on' = [on EXCEPT ![c] = i]
      /\ UNCHANGED <<tasks, item, plan, status, verdict, stamps, seen, allPassed,
                     aborted, orphans>>
    BY DEF Generate, PickBacklogItem, taskVars
<1>2. /\ request' \in [Clients -> Stages] /\ request'[c] = "generating"
      /\ on' \in [Clients -> Items \cup Ids \cup {NoItem}] /\ on'[c] = i
      /\ \A d \in Clients \ {c} : request'[d] = request[d] /\ on'[d] = on[d]
    BY <1>1 DEF IInv, TypeOK, Stages
<1>3. TypeOK'
    BY <1>1, <1>2 DEF IInv, TypeOK, Stages, Tasks
<1>4. Unused' /\ StatusIsJustified'
    BY <1>1 DEF IInv, Unused, StatusIsJustified, Tasks
<1>5. SeenSubmitted' /\ ReviewIsEvaluated'
    BY <1>1, <1>2 DEF IInv, SeenSubmitted, ReviewIsEvaluated, Tasks
<1>6. DuplicatesBounded'
  <2> SUFFICES ASSUME NEW j \in Items
               PROVE  Cardinality(TasksOf(j)') + Cardinality(GeneratingFrom(j)')
                          <= Cardinality(Clients)
    BY DEF DuplicatesBounded, TasksOf, GeneratingFrom
  <2>1. PICK G : G = GeneratingFrom(j)'
    OBVIOUS
  <2>2. TasksOf(j)' = TasksOf(j) /\ G \subseteq Clients
    BY <1>1, <2>1 DEF TasksOf, Tasks, GeneratingFrom, Generating
  <2>3. CASE j = i
    <3>1. \A t \in Tasks : status[t] \in Holding
      BY TaskIds DEF IInv, TypeOK, Statuses, Holding
    <3>2. TasksOf(j) = {}
      BY <1>1, <2>3, <3>1 DEF TasksOf, Available, UsedItems
    <3>3. Cardinality(G) \in Nat /\ Cardinality(G) <= Cardinality(Clients)
      BY <2>2, FiniteTasks, FS_Subset, FS_CardinalityType DEF IInv
    <3>4. Cardinality(TasksOf(j)) = 0 /\ Cardinality(Clients) \in Nat
      BY <3>2, FS_EmptySet, FiniteTasks DEF IInv
    <3> QED
      BY <2>1, <2>2, <3>3, <3>4
  <2>4. CASE j # i
    <3>1. G = GeneratingFrom(j)
      BY <1>1, <1>2, <2>1, <2>4 DEF GeneratingFrom, Generating
    <3> QED
      BY <2>1, <2>2, <3>1 DEF IInv, DuplicatesBounded, TasksOf, GeneratingFrom
  <2> QED
    BY <2>3, <2>4
<1>7. Room'
  <2>1. Generating' = Generating \cup {c} /\ c \notin Generating
    BY <1>1, <1>2 DEF Generating
  <2>2. Cardinality(Generating \cup {c}) = Cardinality(Generating) + 1
    BY <2>1, FiniteTasks, FS_AddElement DEF IInv
  <2>3. tasks + Cardinality(Generating) < MaxTasks
    BY DEF Generate
  <2> QED
    BY <1>1, <2>1, <2>2, <2>3, FiniteTasks, TaskIds DEF IInv, Room
<1> QED
    BY <1>3, <1>4, <1>5, <1>6, <1>7 DEF IInv

LEMMA PlanIsSome ==
  ASSUME NEW reply \in Replies
  PROVE  PlanOf(reply) \in Criteria
  BY TechLeadAssumption DEF TechLeadAssumption, Replies, PlanOf, GenerateJson, NoPlan

\* The task takes the place of the request that generated it.
LEMMA StoreOK ==
  ASSUME IInv, NEW c \in Clients, NEW reply \in Replies, Store(c, reply)
  PROVE  IInv'
<1>0. c \in Generating /\ tasks < MaxTasks
  <2>1. c \in Generating
    BY DEF Store, Generating
  <2>2. Cardinality(Generating) # 0
    BY <2>1, FiniteTasks, FS_EmptySet DEF IInv
  <2> QED
    BY <2>1, <2>2, FiniteTasks, TaskIds DEF IInv, Room
<1>1. PICK n \in Ids, p \in Criteria, i \in Items :
          n = tasks + 1 /\ p = PlanOf(reply) /\ i = on[c]
  <2>1. tasks + 1 \in Ids /\ on[c] \in Items
    BY <1>0, TaskIds DEF Ids, Store, IInv, TypeOK
  <2> QED
    BY <2>1, PlanIsSome
<1>2. /\ request[c] = "generating" /\ tasks' = n
      /\ item' = [item EXCEPT ![n] = i] /\ plan' = [plan EXCEPT ![n] = p]
      /\ status' = [status EXCEPT ![n] = "backlog"]
      /\ UNCHANGED <<verdict, stamps, orphans>> /\ Respond(c)
    BY <1>1 DEF Store
<1>3. /\ request' \in [Clients -> Stages] /\ request'[c] = "idle"
      /\ on' \in [Clients -> Items \cup Ids \cup {NoItem}]
      /\ seen' \in [Clients -> Statuses \cup {"absent"}]
      /\ allPassed' \in [Clients -> BOOLEAN] /\ aborted' \in [Clients -> BOOLEAN]
      /\ \A d \in Clients \ {c} :
            request'[d] = request[d] /\ on'[d] = on[d] /\ seen'[d] = seen[d]
    BY <1>2, RespondFacts DEF IInv
<1>4. Tasks' = Tasks \cup {n} /\ n \notin Tasks /\ Tasks \subseteq Ids /\ n \in 0 .. MaxTasks
    BY <1>1, <1>2, TaskIds DEF Tasks, Ids, IInv
<1>5. /\ item' \in [Ids -> Items \cup {NoItem}] /\ item'[n] = i
      /\ plan' \in [Ids -> Criteria \cup {NoPlan}] /\ plan'[n] = p
      /\ status' \in [Ids -> Statuses \cup {"absent"}] /\ status'[n] = "backlog"
      /\ \A t \in Ids \ {n} : /\ item'[t] = item[t] /\ plan'[t] = plan[t]
                               /\ status'[t] = status[t]
    BY <1>2 DEF IInv, TypeOK, Statuses
<1>6. TypeOK'
  <2>1. \A t \in Ids : t \in Tasks' <=> status'[t] # "absent"
    BY <1>4, <1>5 DEF IInv, TypeOK
  <2>2. \A t \in Tasks' : plan'[t] \in Criteria
    BY <1>4, <1>5 DEF IInv, TypeOK
  <2>3. \A d \in Clients :
            /\ request'[d] = "generating" => on'[d] \in Items
            /\ request'[d] \notin {"idle", "generating"} => on'[d] \in Tasks'
    BY <1>3, <1>4 DEF IInv, TypeOK
  <2>4. orphans' \subseteq Tasks' /\ tasks' \in 0 .. MaxTasks
    BY <1>2, <1>4 DEF IInv, TypeOK
  <2>5. /\ verdict' \in [Ids -> {"none", "passed", "failed"}]
        /\ stamps' \in [Ids -> SUBSET {"started", "submitted", "completed"}]
    BY <1>2 DEF IInv, TypeOK
  <2>6. request' \in [Clients -> {"idle", "generating", "starting", "submitting",
                                  "fetching", "checking", "saving"}]
    BY <1>3 DEF Stages
  <2> QED
    BY <1>3, <1>5, <2>1, <2>2, <2>3, <2>4, <2>5, <2>6 DEF TypeOK
<1>7. Unused'
    BY <1>2, <1>4 DEF IInv, Unused
<1>8. SeenSubmitted'
    BY <1>2, <1>3 DEF IInv, SeenSubmitted
<1>9. StatusIsJustified'
    BY <1>2, <1>4, <1>5 DEF IInv, StatusIsJustified, Unused
<1>10. ReviewIsEvaluated'
  <2> SUFFICES ASSUME NEW t \in Tasks', status'[t] = "review", t \notin orphans'
               PROVE  \E d \in Clients :
                         /\ on'[d] = t
                         /\ \/ request'[d] = "fetching"
                            \/ request'[d] \in {"checking", "saving"} /\ seen'[d] = "review"
    BY DEF ReviewIsEvaluated
  <2>1. t \in Tasks /\ status[t] = "review" /\ t \notin orphans
    BY <1>2, <1>4, <1>5
  <2>2. PICK d \in Clients : /\ on[d] = t
                             /\ \/ request[d] = "fetching"
                                \/ request[d] \in {"checking", "saving"} /\ seen[d] = "review"
    BY <2>1 DEF IInv, ReviewIsEvaluated
  <2> QED
    BY <1>2, <1>3, <2>2
<1>11. DuplicatesBounded'
  <2> SUFFICES ASSUME NEW j \in Items
               PROVE  Cardinality(TasksOf(j)') + Cardinality(GeneratingFrom(j)')
                          <= Cardinality(Clients)
    BY DEF DuplicatesBounded, TasksOf, GeneratingFrom
  <2>1. PICK T, G, T1, G1 : /\ T = TasksOf(j) /\ G = GeneratingFrom(j)
                            /\ T1 = TasksOf(j)' /\ G1 = GeneratingFrom(j)'
    OBVIOUS
  <2>2. /\ IsFiniteSet(T) /\ Cardinality(T) \in Nat
        /\ IsFiniteSet(G) /\ Cardinality(G) \in Nat
    BY <2>1, FiniteTasks DEF IInv
  <2>3. Cardinality(T) + Cardinality(G) <= Cardinality(Clients)
    BY <2>1 DEF IInv, DuplicatesBounded, TasksOf, GeneratingFrom
  <2>4. T1 = IF i = j THEN T \cup {n} ELSE T
    BY <1>4, <1>5, <2>1 DEF TasksOf
  <2>5. n \notin T
    BY <1>4, <2>1 DEF TasksOf
  <2>6. G1 = IF i = j THEN G \ {c} ELSE G
    BY <1>1, <1>2, <1>3, <2>1 DEF GeneratingFrom, Generating
  <2>7. i = j => c \in G
    BY <1>1, <1>2, <2>1 DEF GeneratingFrom, Generating
  <2>8. CASE i = j
    <3>1. Cardinality(T \cup {n}) = Cardinality(T) + 1
      BY <2>2, <2>5, FS_AddElement
    <3>2. Cardinality(G \ {c}) = Cardinality(G) - 1
      BY <2>2, <2>7, <2>8, FS_RemoveElement
    <3> QED
      BY <2>1, <2>2, <2>3, <2>4, <2>6, <2>8, <3>1, <3>2
  <2>9. CASE i # j
    BY <2>1, <2>3, <2>4, <2>6, <2>9
  <2> QED
    BY <2>8, <2>9
<1>12. Room'
  <2>1. Generating' = Generating \ {c}
    BY <1>0, <1>2, <1>3 DEF Generating
  <2>2. Cardinality(Generating \ {c}) = Cardinality(Generating) - 1
    BY <1>0, FiniteTasks, FS_RemoveElement DEF IInv
  <2> QED
    BY <1>1, <1>2, <2>1, <2>2, FiniteTasks, TaskIds DEF IInv, Room
<1> QED
    BY <1>6, <1>7, <1>8, <1>9, <1>10, <1>11, <1>12 DEF IInv

LEMMA StutterOK ==
  ASSUME IInv, UNCHANGED vars
  PROVE  IInv'
<1>1. /\ UNCHANGED <<tasks, item, plan, status, verdict, stamps>>
      /\ UNCHANGED <<request, on, seen, allPassed, aborted, orphans>>
    BY DEF vars, taskVars, requestVars
<1>2. TypeOK'
    BY <1>1 DEF IInv, TypeOK, Tasks
<1>3. Unused' /\ StatusIsJustified' /\ SeenSubmitted' /\ ReviewIsEvaluated'
    BY <1>1 DEF IInv, Unused, StatusIsJustified, SeenSubmitted, ReviewIsEvaluated, Tasks
<1>4. DuplicatesBounded' /\ Room'
    BY <1>1, DuplicatesKept DEF IInv
<1> QED
    BY <1>2, <1>3, <1>4 DEF IInv

LEMMA RequestOK ==
  ASSUME IInv, NEW c \in Clients, Request(c)
  PROVE  IInv'
<1>1. CASE \E i \in Items : Generate(c, i)
    BY <1>1, GenerateOK
<1>2. CASE \E reply \in Replies : Store(c, reply)
    BY <1>2, StoreOK
<1>3. CASE \E t \in Ids : StartTask(c, t) \/ SubmitTask(c, t) \/ EvaluateAgain(c, t)
    BY <1>3, ReadOK DEF StartTask, SubmitTask, EvaluateAgain
<1>4. CASE Started(c) \/ Submitted(c)
    BY <1>4, StartedOK, SubmittedOK
<1>5. CASE Fetch(c)
  <2>1. on[c] \in Tasks
    BY <1>5 DEF Fetch, IInv, TypeOK
  <2> QED
    BY <1>5, <2>1, ReadOK DEF Fetch
<1>6. CASE RunChecks(c) \/ Save(c) \/ SaveFails(c)
    BY <1>6, RunChecksOK, SaveOK, SaveFailsOK
<1> QED
    BY <1>1, <1>2, <1>3, <1>4, <1>5, <1>6 DEF Request, Evaluate

------------------------------------------------------------------------------
(* The theorems *)

\* The tasks and the requests on them fit together after every commit.
THEOREM Inductive == Spec => []IInv
<1>1. Init => IInv
    BY InitIInv
<1>2. IInv /\ [Next]_vars => IInv'
    BY RequestOK, RestartOK, StutterOK DEF Next
<1> QED
    BY <1>1, <1>2, PTL DEF Spec

\* Every task has a status of the workflow and criteria of its own, and every
\* request that is not generating is about a task there is (models.py:30-37,
\* repository.py:33-88).
THEOREM TypeCorrect == Spec => []TypeOK
<1>1. IInv => TypeOK
    BY DEF IInv
<1> QED
    BY <1>1, Inductive, PTL

\* However many clients generate at once, an item of the backlog gets no more
\* tasks than there are clients (generator.py:36-78).
THEOREM DuplicatesAlwaysBounded == Spec => []DuplicatesBounded
<1>1. IInv => DuplicatesBounded
    BY DEF IInv
<1> QED
    BY <1>1, Inductive, PTL

\* A task in review has an evaluation that read it there, or one that died
\* (service.py:33-49, tasks.py:59-94), however many requests race.
THEOREM ReviewIsAlwaysEvaluated == Spec => []ReviewIsEvaluated
<1>1. IInv => ReviewIsEvaluated
    BY DEF IInv
<1> QED
    BY <1>1, Inductive, PTL

\* Stale reads and writes never make the stamps, the last results and the
\* status of a task disagree (repository.py:74-108, service.py:33-49).
THEOREM StatusIsAlwaysJustified == Spec => []StatusIsJustified
<1>1. IInv => StatusIsJustified
    BY DEF IInv
<1> QED
    BY <1>1, Inductive, PTL

------------------------------------------------------------------------------
(* The tasks implement TaskWorkflow *)

\* Who is about to start or submit a task, and read it as started or in
\* review, read one that has the stamp.
SeenStamped ==
    \A c \in Clients :
        /\ request[c] = "starting" /\ seen[c] = "in_progress" => "started" \in stamps[on[c]]
        /\ request[c] = "submitting" /\ seen[c] = "review" => "submitted" \in stamps[on[c]]

\* A write gives the task the new status, unless it was read with it.
LEMMA WriteIs ==
  ASSUME IInv, NEW t \in Tasks, NEW loaded, NEW new, NEW marks, Write(t, loaded, new, marks)
  PROVE  /\ loaded # new => status' = [status EXCEPT ![t] = new]
         /\ loaded = new => status' = status
         /\ stamps' = [stamps EXCEPT ![t] = @ \cup marks]
         /\ \A u \in Ids : stamps[u] \subseteq stamps'[u]
<1>1. t \in Ids /\ status \in [Ids -> Statuses \cup {"absent"}]
      /\ stamps \in [Ids -> SUBSET {"started", "submitted", "completed"}]
    BY TaskIds DEF IInv, TypeOK
<1>2. /\ status' = [status EXCEPT ![t] = IF loaded # new THEN new ELSE @]
      /\ stamps' = [stamps EXCEPT ![t] = @ \cup marks]
    BY DEF Write, Stamped
<1> QED
    BY <1>1, <1>2

\* Starts, submissions and verdicts, as they show.
LEMMA StartedMoves ==
  ASSUME IInv, SeenStamped, NEW c \in Clients, Started(c)
  PROVE  /\ Workflow!Start(on[c]) \/ UNCHANGED Workflow!workflowVars
         /\ \A u \in Ids : stamps[u] \subseteq stamps'[u]
<1>1. PICK t \in Tasks : t = on[c] /\ t \in Ids
    BY TaskIds DEF Started, IInv, TypeOK
<1>2. /\ Write(t, seen[c], "in_progress", {"started"})
      /\ UNCHANGED <<tasks, item, plan, verdict>>
    BY <1>1 DEF Started
<1>3. CASE seen[c] # "in_progress"
    BY <1>1, <1>2, <1>3, WriteIs DEF Workflow!Start, Workflow!Move, Tasks
<1>4. CASE seen[c] = "in_progress"
  <2>1. "started" \in stamps[t]
    BY <1>1, <1>4 DEF Started, SeenStamped
  <2>2. status' = status /\ stamps' = [stamps EXCEPT ![t] = @ \cup {"started"}]
    BY <1>2, <1>4, WriteIs
  <2>3. stamps' = stamps
    BY <1>1, <2>1, <2>2 DEF IInv, TypeOK
  <2> QED
    BY <1>2, <2>2, <2>3 DEF Workflow!workflowVars
<1> QED
    BY <1>3, <1>4, <1>2, WriteIs

LEMMA SubmittedMoves ==
  ASSUME IInv, SeenStamped, NEW c \in Clients, Submitted(c)
  PROVE  /\ Workflow!Submit(on[c]) \/ UNCHANGED Workflow!workflowVars
         /\ \A u \in Ids : stamps[u] \subseteq stamps'[u]
<1>1. PICK t \in Tasks : t = on[c] /\ t \in Ids
    BY TaskIds DEF Submitted, IInv, TypeOK
<1>2. /\ Write(t, seen[c], "review", {"submitted"})
      /\ UNCHANGED <<tasks, item, plan, verdict>>
    BY <1>1 DEF Submitted
<1>3. CASE seen[c] # "review"
    BY <1>1, <1>2, <1>3, WriteIs DEF Workflow!Submit, Workflow!Move, Tasks
<1>4. CASE seen[c] = "review"
  <2>1. "submitted" \in stamps[t]
    BY <1>1, <1>4 DEF Submitted, SeenStamped
  <2>2. status' = status /\ stamps' = [stamps EXCEPT ![t] = @ \cup {"submitted"}]
    BY <1>2, <1>4, WriteIs
  <2>3. stamps' = stamps
    BY <1>1, <2>1, <2>2 DEF IInv, TypeOK
  <2> QED
    BY <1>2, <2>2, <2>3 DEF Workflow!workflowVars
<1> QED
    BY <1>3, <1>4, <1>2, WriteIs

\* The row is locked when its status is looked at, so that what is written is
\* the new status whether or not it was there.
LEMMA SaveMoves ==
  ASSUME IInv, NEW c \in Clients, Save(c)
  PROVE  /\ Workflow!Pass(on[c]) \/ Workflow!Fail(on[c])
         /\ \A u \in Ids : stamps[u] \subseteq stamps'[u]
<1>1. PICK t \in Tasks : t = on[c] /\ t \in Ids
    BY TaskIds DEF Save, IInv, TypeOK
<1>2. /\ UNCHANGED <<tasks, item, plan>> /\ Settle(c)
      /\ verdict' = [verdict EXCEPT ![t] = Verdict(c)] /\ request[c] = "saving"
    BY <1>1 DEF Save
<1>3. ASSUME NEW new, status[t] = new PROVE status = [status EXCEPT ![t] = new]
    BY <1>1, <1>3 DEF IInv, TypeOK
<1>4. CASE allPassed[c]
  <2>1. Write(t, status[t], "done", {"completed"}) /\ Verdict(c) = "passed"
    BY <1>1, <1>2, <1>4 DEF Settle, Verdict
  <2>2. /\ status' = [status EXCEPT ![t] = "done"]
        /\ stamps' = [stamps EXCEPT ![t] = @ \cup {"completed"}]
        /\ \A u \in Ids : stamps[u] \subseteq stamps'[u]
    BY <1>3, <2>1, WriteIs
  <2> QED
    BY <1>1, <1>2, <2>1, <2>2 DEF Workflow!Pass, Workflow!Move, Tasks
<1>5. CASE ~allPassed[c] /\ WasInReview(c)
  <2>1. Write(t, status[t], "blocked", {}) /\ Verdict(c) = "failed"
    BY <1>1, <1>2, <1>5 DEF Settle, Verdict
  <2>2. /\ status' = [status EXCEPT ![t] = "blocked"]
        /\ stamps' = [stamps EXCEPT ![t] = @ \cup {}]
        /\ \A u \in Ids : stamps[u] \subseteq stamps'[u]
    BY <1>3, <2>1, WriteIs
  <2>3. stamps' = stamps
    BY <1>1, <2>2 DEF IInv, TypeOK
  <2>4. "submitted" \in stamps[t]
    BY <1>1, <1>2, <1>5 DEF WasInReview, IInv, SeenSubmitted
  <2> QED
    BY <1>1, <1>2, <2>1, <2>2, <2>3, <2>4 DEF Workflow!Fail, Tasks
<1>6. CASE ~allPassed[c] /\ ~WasInReview(c)
  <2>1. UNCHANGED <<status, stamps>> /\ Verdict(c) = "failed"
    BY <1>2, <1>6 DEF Settle, Verdict
  <2> QED
    BY <1>1, <1>2, <2>1 DEF Workflow!Fail, Tasks
<1> QED
    BY <1>4, <1>5, <1>6

\* Storing a task is its creation, with the next number.
LEMMA StoreMoves ==
  ASSUME IInv, NEW c \in Clients, NEW reply \in Replies, Store(c, reply)
  PROVE  /\ \E t \in Ids : Workflow!Create(t)
         /\ stamps' = stamps
<1>1. tasks + 1 \in Ids /\ tasks + 1 \notin Tasks
  <2>1. c \in Generating
    BY DEF Store, Generating
  <2>2. Cardinality(Generating) # 0
    BY <2>1, FiniteTasks, FS_EmptySet DEF IInv
  <2> QED
    BY <2>2, FiniteTasks, TaskIds DEF IInv, Room, Ids, Tasks
<1>2. on[c] \in Items /\ PlanOf(reply) \in Criteria
    BY PlanIsSome DEF Store, IInv, TypeOK
<1>3. /\ tasks' = tasks + 1 /\ UNCHANGED <<verdict, stamps>>
      /\ item' = [item EXCEPT ![tasks + 1] = on[c]]
      /\ plan' = [plan EXCEPT ![tasks + 1] = PlanOf(reply)]
      /\ status' = [status EXCEPT ![tasks + 1] = "backlog"]
    BY DEF Store
<1>4. status[tasks + 1] = "absent"
    BY <1>1 DEF IInv, TypeOK
<1> QED
    BY <1>1, <1>2, <1>3, <1>4 DEF Workflow!Create

\* Every commit is a move of the workflow or changes no task.
LEMMA StepRefines ==
  IInv /\ SeenStamped /\ [Next]_vars
      => /\ [Workflow!WorkflowNext]_(Workflow!workflowVars)
         /\ \A u \in Ids : stamps[u] \subseteq stamps'[u]
<1> SUFFICES ASSUME IInv, SeenStamped, [Next]_vars
             PROVE  /\ Workflow!WorkflowNext \/ UNCHANGED Workflow!workflowVars
                    /\ \A u \in Ids : stamps[u] \subseteq stamps'[u]
    OBVIOUS
<1>1. ASSUME UNCHANGED taskVars
      PROVE  UNCHANGED Workflow!workflowVars /\ stamps' = stamps
    BY <1>1 DEF taskVars, Workflow!workflowVars
<1>2. ASSUME NEW c \in Clients, request[c] \notin {"idle", "generating"} PROVE on[c] \in Ids
    BY <1>2, TaskIds DEF IInv, TypeOK
<1>3. ASSUME NEW c \in Clients, Request(c)
      PROVE  /\ Workflow!WorkflowNext \/ UNCHANGED Workflow!workflowVars
             /\ \A u \in Ids : stamps[u] \subseteq stamps'[u]
  <2>1. CASE \E i \in Items : Generate(c, i)
    BY <1>1, <2>1 DEF Generate
  <2>2. CASE \E reply \in Replies : Store(c, reply)
    BY <2>2, StoreMoves DEF Workflow!WorkflowNext
  <2>3. CASE \E t \in Ids : StartTask(c, t) \/ SubmitTask(c, t) \/ EvaluateAgain(c, t)
    BY <1>1, <2>3 DEF StartTask, SubmitTask, EvaluateAgain, Read
  <2>4. CASE Started(c)
    BY <1>2, <2>4, StartedMoves DEF Started, Workflow!WorkflowNext
  <2>5. CASE Submitted(c)
    BY <1>2, <2>5, SubmittedMoves DEF Submitted, Workflow!WorkflowNext
  <2>6. CASE Fetch(c) \/ RunChecks(c) \/ SaveFails(c)
    BY <1>1, <2>6 DEF Fetch, Read, RunChecks, SaveFails
  <2>7. CASE Save(c)
    BY <1>2, <2>7, SaveMoves DEF Save, Workflow!WorkflowNext
  <2> QED
    BY <1>3, <2>1, <2>2, <2>3, <2>4, <2>5, <2>6, <2>7 DEF Request, Evaluate
<1>4. CASE Restart
    BY <1>1, <1>4 DEF Restart
<1>5. CASE UNCHANGED vars
    BY <1>1, <1>5 DEF vars
<1> QED
    BY <1>3, <1>4, <1>5 DEF Next

\* A stamp that was seen stays, and a request that reads sees the stamps of the
\* status it reads.
LEMMA NextSeenStamped == IInv /\ SeenStamped /\ [Next]_vars => SeenStamped'
<1> SUFFICES ASSUME IInv, SeenStamped, [Next]_vars
             PROVE  SeenStamped'
    OBVIOUS
<1>1. \A u \in Ids : stamps[u] \subseteq stamps'[u]
    BY StepRefines
<1>2. \A c \in Clients : request[c] \in {"starting", "submitting"} => on[c] \in Ids
    BY TaskIds DEF IInv, TypeOK
<1>3. ASSUME \A d \in Clients :
                 request'[d] \in {"starting", "submitting"}
                     => request'[d] = request[d] /\ on'[d] = on[d] /\ seen'[d] = seen[d]
      PROVE  SeenStamped'
    BY <1>1, <1>2, <1>3 DEF SeenStamped
<1>4. ASSUME NEW c \in Clients, NEW t \in Ids, StartTask(c, t) \/ SubmitTask(c, t)
      PROVE  SeenStamped'
  <2>1. /\ t \in Tasks /\ stamps' = stamps
        /\ request' \in [Clients -> Stages] /\ on'[c] = t /\ seen'[c] = status[t]
        /\ \A d \in Clients \ {c} :
              request'[d] = request[d] /\ on'[d] = on[d] /\ seen'[d] = seen[d]
    BY <1>4 DEF StartTask, SubmitTask, Read, taskVars, IInv, TypeOK, Stages
  <2>2. /\ status[t] = "in_progress" => "started" \in stamps[t]
        /\ status[t] = "review" => "submitted" \in stamps[t]
    BY <2>1 DEF IInv, StatusIsJustified
  <2> QED
    BY <2>1, <2>2 DEF SeenStamped
<1>5. ASSUME NEW c \in Clients, TypeOK, request' = [request EXCEPT ![c] = "checking"],
             \E t \in Ids : Read(c, t)
      PROVE  SeenStamped'
    BY <1>3, <1>5 DEF Read, TypeOK
<1>6. ASSUME NEW c \in Clients, Request(c) PROVE SeenStamped'
  <2>1. CASE \E i \in Items : Generate(c, i)
    BY <1>3, <2>1 DEF Generate, IInv, TypeOK
  <2>2. CASE \E reply \in Replies : Store(c, reply)
    BY <1>3, <2>2 DEF Store, Respond, IInv, TypeOK
  <2>3. CASE \E t \in Ids : StartTask(c, t) \/ SubmitTask(c, t)
    BY <1>4, <2>3
  <2>4. CASE \E t \in Ids : EvaluateAgain(c, t)
    BY <1>5, <2>4 DEF EvaluateAgain, IInv
  <2>5. CASE Started(c) \/ Save(c) \/ SaveFails(c)
    BY <1>3, <2>5 DEF Started, Save, SaveFails, Respond, IInv, TypeOK
  <2>6. CASE Submitted(c) \/ RunChecks(c)
    BY <1>3, <2>6 DEF Submitted, RunChecks, IInv, TypeOK
  <2>7. CASE Fetch(c)
    <3>1. on[c] \in Ids
      BY <2>7, TaskIds DEF Fetch, IInv, TypeOK
    <3> QED
      BY <1>5, <2>7, <3>1 DEF Fetch, IInv
  <2> QED
    BY <1>6, <2>1, <2>2, <2>3, <2>4, <2>5, <2>6, <2>7 DEF Request, Evaluate
<1>7. CASE Restart
    BY <1>3, <1>7 DEF Restart
<1>8. CASE UNCHANGED vars
    BY <1>3, <1>8 DEF vars, requestVars
<1> QED
    BY <1>6, <1>7, <1>8 DEF Next

\* However requests interleave, fail and restart, the tasks only ever move as
\* the workflow allows (models.py:30-37, repository.py:74-108,
\* service.py:33-49).
THEOREM Refinement == Spec => ImplementsWorkflow
<1>1. Init => Workflow!WorkflowInit /\ SeenStamped
    BY DEF Init, Workflow!WorkflowInit, SeenStamped
<1>2. IInv /\ SeenStamped /\ [Next]_vars => [Workflow!WorkflowNext]_(Workflow!workflowVars)
    BY StepRefines
<1> QED
    BY <1>1, <1>2, Inductive, NextSeenStamped, PTL
    DEF Spec, ImplementsWorkflow, Workflow!WorkflowSpec
==============================================================================
