------------------------------ MODULE TechLead -------------------------------
(***************************************************************************)
(* The tech lead's tasks (tech_lead/generator.py, service.py,              *)
(* repository.py, evaluator.py) and the routes that work on them           *)
(* (api/routers/tasks.py).                                                 *)
(*                                                                         *)
(* A request is one database session: what it read may be stale when it    *)
(* writes, and an update writes only the columns whose value differs from  *)
(* the one it loaded.  Between reading a task and giving its verdict an    *)
(* evaluation runs its checks, up to a minute each; between picking an     *)
(* item of the backlog and storing its task, the language model answers.   *)
(***************************************************************************)
EXTENDS AcceptanceChecks

CONSTANTS Clients,   \* the clients of the API, one request each at a time
          MaxTasks,  \* tasks the database may hold (a bound)
          Worked,    \* the tasks developers work on (a bound)
          Items,     \* the backlog's items with target melicrowd
          NoItem,
          Rank,      \* priority_rank of each item's suggested_priority
          Criteria,  \* what the model may write as acceptance_criteria
          Fallback,  \* the criteria of _fallback_task
          Found      \* what a check of each kind may find

Ids == 1 .. MaxTasks

ASSUME TechLeadAssumption ==
    /\ MaxTasks \in Nat /\ Worked \subseteq Ids
    /\ IsFiniteSet(Clients) /\ IsFiniteSet(Items)
    /\ Rank \in [Items -> Nat]
    /\ NoItem \notin Items \cup Ids
    /\ Fallback \in Criteria /\ <<>> \notin Criteria

VARIABLES tasks,    \* how many tasks there are: they are 1 .. tasks
          item,     \* the backlog item each was generated from
          plan,     \* acceptance_criteria
          status,   \* status
          verdict,  \* last_check_results: none yet, all passed, or not
          stamps,   \* those of started_at, submitted_at, completed_at that are set
          request,  \* request[c]: where the handler is suspended
          on,       \* the task, or the item, it is about
          seen,     \* the status the task had when it was read
          allPassed,\* what its checks came to
          aborted,  \* a query failed and took the transaction with it
          orphans   \* tasks left in review by an evaluation that died

taskVars == <<tasks, item, plan, status, verdict, stamps>>
requestVars == <<request, on, seen, allPassed, aborted>>
vars == <<taskVars, requestVars, orphans>>

Statuses == {"backlog", "in_progress", "review", "done", "blocked"}
Tasks == 1 .. tasks
NoPlan == <<>>

TypeOK ==
    /\ tasks \in 0 .. MaxTasks
    /\ item \in [Ids -> Items \cup {NoItem}]
    /\ plan \in [Ids -> Criteria \cup {NoPlan}]
    /\ status \in [Ids -> Statuses \cup {"absent"}]
    /\ \A t \in Ids : t \in Tasks <=> status[t] # "absent"
    /\ \A t \in Tasks : plan[t] \in Criteria
    /\ verdict \in [Ids -> {"none", "passed", "failed"}]
    /\ stamps \in [Ids -> SUBSET {"started", "submitted", "completed"}]
    /\ request \in [Clients -> {"idle", "generating", "starting", "submitting",
                                "fetching", "checking", "saving"}]
    /\ on \in [Clients -> Items \cup Ids \cup {NoItem}]
    /\ \A c \in Clients :
          /\ request[c] = "generating" => on[c] \in Items
          /\ request[c] \notin {"idle", "generating"} => on[c] \in Tasks
    /\ seen \in [Clients -> Statuses \cup {"absent"}]
    /\ allPassed \in [Clients -> BOOLEAN] /\ aborted \in [Clients -> BOOLEAN]
    /\ orphans \subseteq Tasks

Init ==
    /\ tasks = 0
    /\ item = [t \in Ids |-> NoItem] /\ plan = [t \in Ids |-> NoPlan]
    /\ status = [t \in Ids |-> "absent"]
    /\ verdict = [t \in Ids |-> "none"] /\ stamps = [t \in Ids |-> {}]
    /\ request = [c \in Clients |-> "idle"]
    /\ on = [c \in Clients |-> NoItem]
    /\ seen = [c \in Clients |-> "absent"]
    /\ allPassed = [c \in Clients |-> TRUE] /\ aborted = [c \in Clients |-> FALSE]
    /\ orphans = {}

------------------------------------------------------------------------------
(* Generation *)

\* A request's own variables, once it is over.
Respond(c) ==
    /\ request' = [request EXCEPT ![c] = "idle"]
    /\ on' = [on EXCEPT ![c] = NoItem]
    /\ seen' = [seen EXCEPT ![c] = "absent"]
    /\ allPassed' = [allPassed EXCEPT ![c] = TRUE]
    /\ aborted' = [aborted EXCEPT ![c] = FALSE]

WithoutBacklog == {"in_progress", "review", "done", "blocked"}

\* A task that was not rejected, which no route does, holds its item.
Holding == {"backlog", "in_progress", "review", "done", "blocked"}

UsedItems == {item[t] : t \in {u \in Tasks : status[u] \in Holding}}

Available == Items \ UsedItems

\* One of the most urgent items nobody used; with none left the route
\* answers 409.
PickBacklogItem(i) ==
    /\ i \in Available
    /\ \A j \in Available : Rank[i] <= Rank[j]

Generating == {c \in Clients : request[c] = "generating"}

Generate(c, i) ==
    /\ request[c] = "idle"
    /\ tasks + Cardinality(Generating) < MaxTasks             \* bound
    /\ PickBacklogItem(i)
    /\ request' = [request EXCEPT ![c] = "generating"]
    /\ on' = [on EXCEPT ![c] = i]
    /\ UNCHANGED <<taskVars, seen, allPassed, aborted, orphans>>

\* What comes of asking the model: nothing, without a key or when the call
\* fails; or a message that is an object, has one between its braces, or has
\* none.  The object holds criteria, or does not validate (NoPlan).
Replies ==
    {[form |-> "none", plan |-> NoPlan]}
        \cup [form : {"object", "embedded", "text"}, plan : Criteria \cup {NoPlan}]

\* deepseek_client.generate_json: the object, if there is one to be found.
GenerateJson(reply) ==
    IF reply.form \in {"object", "embedded"} THEN reply.plan ELSE NoPlan

AnyPlan(reply) == GenerateJson(reply)

\* The fallback stands in for whatever did not come, parse or validate.
PlanOf(reply) ==
    LET parsed == GenerateJson(reply) IN IF parsed = NoPlan THEN Fallback ELSE parsed

\* The task is stored whatever was stored meanwhile.
Store(c, reply) ==
    /\ request[c] = "generating"
    /\ tasks' = tasks + 1
    /\ item' = [item EXCEPT ![tasks'] = on[c]]
    /\ plan' = [plan EXCEPT ![tasks'] = PlanOf(reply)]
    /\ status' = [status EXCEPT ![tasks'] = "backlog"]
    /\ Respond(c)
    /\ UNCHANGED <<verdict, stamps, orphans>>

------------------------------------------------------------------------------
(* Transitions *)

\* transition() reads the row...
Read(c, t) ==
    /\ on' = [on EXCEPT ![c] = t]
    /\ seen' = [seen EXCEPT ![c] = status[t]]
    /\ UNCHANGED <<taskVars, allPassed, aborted, orphans>>

StartTask(c, t) ==
    /\ request[c] = "idle" /\ t \in Tasks \cap Worked
    /\ request' = [request EXCEPT ![c] = "starting"]
    /\ Read(c, t)

SubmitTask(c, t) ==
    /\ request[c] = "idle" /\ t \in Tasks \cap Worked
    /\ request' = [request EXCEPT ![c] = "submitting"]
    /\ Read(c, t)

LatestStamp(set, marks) == marks

Stamped(set, marks) == set \cup marks

\* ...and writes what it changes of it; started_at keeps its first value.
Write(t, loaded, new, marks) ==
    /\ status' = [status EXCEPT ![t] = IF loaded # new THEN new ELSE @]
    /\ stamps' = [stamps EXCEPT ![t] = Stamped(@, marks)]
    /\ orphans' = IF status'[t] = "review" THEN orphans ELSE orphans \ {t}

Started(c) ==
    /\ request[c] = "starting"
    /\ Write(on[c], seen[c], "in_progress", {"started"})
    /\ Respond(c)
    /\ UNCHANGED <<tasks, item, plan, verdict>>

Submitted(c) ==
    /\ request[c] = "submitting"
    /\ Write(on[c], seen[c], "review", {"submitted"})
    /\ request' = [request EXCEPT ![c] = "fetching"]
    /\ UNCHANGED <<tasks, item, plan, verdict, on, seen,
                   allPassed, aborted>>

------------------------------------------------------------------------------
(* Evaluation *)

\* evaluate() reads the task, again in a submit, and begins its checks.
EvaluateAgain(c, t) ==
    /\ request[c] = "idle" /\ t \in Tasks \cap Worked
    /\ request' = [request EXCEPT ![c] = "checking"]
    /\ Read(c, t)

Fetch(c) ==
    /\ request[c] = "fetching"
    /\ request' = [request EXCEPT ![c] = "checking"]
    /\ Read(c, on[c])

\* A check that raises is a check that failed.  A query that fails aborts the
\* transaction, so that no query after it runs either: the verdict is the
\* same, the saving is not.
Results(check) ==
    {[passed |-> Passes(check, f), aborts |-> check.kind = "db" /\ f = Broken]
        : f \in Found[check.kind]}

RunChecks(c) ==
    /\ request[c] = "checking"
    /\ LET checks == plan[on[c]]
       IN  \E r \in [DOMAIN checks -> [passed : BOOLEAN, aborts : BOOLEAN]] :
             /\ \A i \in DOMAIN checks : r[i] \in Results(checks[i])
             /\ allPassed' = [allPassed EXCEPT ![c] = \A i \in DOMAIN checks : r[i].passed]
             /\ aborted' = [aborted EXCEPT ![c] = \E i \in DOMAIN checks : r[i].aborts]
    /\ request' = [request EXCEPT ![c] = "saving"]
    /\ UNCHANGED <<taskVars, on, seen, orphans>>

WasInProgress(c) == seen[c] = "in_progress"

\* Done if everything passed, whatever the task's status was; blocked only if
\* it was in review when it was read.
WasInReview(c) == seen[c] = "review"

Verdict(c) == IF allPassed[c] THEN "passed" ELSE "failed"

Settle(c) ==
    LET t == on[c]
    IN  IF allPassed[c]
        THEN Write(t, status[t], "done", {"completed"})
        ELSE IF WasInReview(c)
             THEN Write(t, status[t], "blocked", {})
             ELSE UNCHANGED <<status, stamps, orphans>>

\* save_check_results locks the row, so that the results, the status and the
\* commit are one step to the others.
Save(c) ==
    /\ request[c] = "saving" /\ ~aborted[c]
    /\ verdict' = [verdict EXCEPT ![on[c]] = Verdict(c)]
    /\ Settle(c)
    /\ Respond(c)
    /\ UNCHANGED <<tasks, item, plan>>

\* In an aborted transaction saving fails too: the request ends with a 500
\* and nothing is written.
Orphaned(cs) ==
    {t \in Tasks : status[t] = "review" /\ \E c \in cs : on[c] = t}

SaveFails(c) ==
    /\ request[c] = "saving" /\ aborted[c]
    /\ orphans' = orphans \cup Orphaned({c})
    /\ Respond(c)
    /\ UNCHANGED taskVars

\* The process restarts: every request is gone, what was committed stays.
Restart ==
    /\ \E c \in Clients : request[c] # "idle"
    /\ orphans' = orphans \cup Orphaned({c \in Clients : request[c] \in {"fetching", "checking", "saving"}})
    /\ request' = [c \in Clients |-> "idle"]
    /\ on' = [c \in Clients |-> NoItem]
    /\ seen' = [c \in Clients |-> "absent"]
    /\ allPassed' = [c \in Clients |-> TRUE] /\ aborted' = [c \in Clients |-> FALSE]
    /\ UNCHANGED taskVars

Evaluate(c) == Fetch(c) \/ RunChecks(c) \/ Save(c) \/ SaveFails(c)

Request(c) ==
    \/ \E i \in Items : Generate(c, i)
    \/ \E reply \in Replies : Store(c, reply)
    \/ \E t \in Ids : StartTask(c, t) \/ SubmitTask(c, t) \/ EvaluateAgain(c, t)
    \/ Started(c) \/ Submitted(c)
    \/ Evaluate(c)

Next == Restart \/ \E c \in Clients : Request(c)

Spec == Init /\ [][Next]_vars

\* A check has a timeout, and the database is taken to answer.
Fairness == \A c \in Clients : WF_vars(Submitted(c)) /\ WF_vars(Evaluate(c))

FairSpec == Spec /\ Fairness

------------------------------------------------------------------------------
(* Properties *)

\* generator.py:37-40 promises that generating twice does not take the same
\* item.  It takes it again only if the requests overlap: an item never has
\* more tasks than there are clients, however often they ask.
DuplicatesBounded ==
    \A i \in Items :
        Cardinality({t \in Tasks : item[t] = i})
            + Cardinality({c \in Generating : on[c] = i}) <= Cardinality(Clients)

\* models.py:33, "dev clicou submit, auto-eval ativo": a task in review has an
\* evaluation under way that read it as such, or one that died, with a failed
\* query or with the process; no race of submits, starts and evaluations
\* leaves it there.
ReviewIsEvaluated ==
    \A t \in Tasks : status[t] = "review" =>
        \/ t \in orphans
        \/ \E c \in Clients :
              /\ on[c] = t
              /\ \/ request[c] = "fetching"
                 \/ request[c] \in {"checking", "saving"} /\ seen[c] = "review"

\* The time stamps and the last results agree with the status, in whatever
\* order stale requests write: a blocked task's last results are a failure,
\* results that passed never leave a task blocked or in the backlog, and each
\* status has the stamps of the way to it.
StatusIsJustified ==
    \A t \in Tasks :
        /\ status[t] = "in_progress" => "started" \in stamps[t]
        /\ status[t] \in {"review", "blocked"} => "submitted" \in stamps[t]
        /\ status[t] = "blocked" => verdict[t] = "failed"
        /\ status[t] = "done" => "completed" \in stamps[t]
        /\ verdict[t] = "passed" => "completed" \in stamps[t] /\ status[t] # "backlog"

\* models.py:30-37, repository.py:74-108: to whoever reads the tasks, stale
\* requests are moves of the workflow or nothing.  A write over what others
\* wrote since the read moves the task as a whole, and one that leaves the
\* status alone, believing it set, adds no stamp either.
Workflow == INSTANCE TaskWorkflow
ImplementsWorkflow == Workflow!WorkflowSpec

\* A submitted task leaves review, unless its evaluation died.
ReviewSettles ==
    \A t \in Worked :
        (t \in Tasks /\ status[t] = "review") ~> (status[t] # "review" \/ t \in orphans)

\* service.py:44, "so transiciona pra blocked se estava em review (nao
\* interrompe in_progress)".
NeverInterruptsWork ==
    [][\A t \in Tasks : status[t] = "in_progress" => status'[t] # "blocked"]_vars
==============================================================================
