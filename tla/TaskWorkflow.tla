---------------------------- MODULE TaskWorkflow -----------------------------
(***************************************************************************)
(* The workflow of the tech lead's tasks as their readers see it, without  *)
(* the requests: a task is created once, for good and with criteria; each  *)
(* move sets its stamp, and no stamp is ever taken back; a task is done    *)
(* with the very results that passed; and failing results block only a     *)
(* task that was submitted.  Which of the moves is made is anybody's       *)
(* choice, as the routes ask nothing of the status a task has.             *)
(***************************************************************************)
EXTENDS Naturals

CONSTANTS Ids, Items, Criteria

VARIABLES tasks, item, plan, status, verdict, stamps

workflowVars == <<tasks, item, plan, status, verdict, stamps>>

WorkflowInit ==
    /\ tasks = 0
    /\ \A t \in Ids : status[t] = "absent" /\ verdict[t] = "none" /\ stamps[t] = {}

Create(t) ==
    /\ t = tasks + 1 /\ tasks' = t
    /\ \E i \in Items : item' = [item EXCEPT ![t] = i]
    /\ \E p \in Criteria : plan' = [plan EXCEPT ![t] = p]
    /\ status[t] = "absent"
    /\ status' = [status EXCEPT ![t] = "backlog"]
    /\ UNCHANGED <<verdict, stamps>>

Move(t, new, mark) ==
    /\ t \in 1 .. tasks
    /\ status' = [status EXCEPT ![t] = new]
    /\ stamps' = [stamps EXCEPT ![t] = @ \cup {mark}]
    /\ UNCHANGED <<tasks, item, plan>>

Start(t) == Move(t, "in_progress", "started") /\ UNCHANGED verdict

Submit(t) == Move(t, "review", "submitted") /\ UNCHANGED verdict

Pass(t) ==
    /\ Move(t, "done", "completed")
    /\ verdict' = [verdict EXCEPT ![t] = "passed"]

Fail(t) ==
    /\ t \in 1 .. tasks
    /\ verdict' = [verdict EXCEPT ![t] = "failed"]
    /\ \/ UNCHANGED status
       \/ "submitted" \in stamps[t] /\ status' = [status EXCEPT ![t] = "blocked"]
    /\ UNCHANGED <<tasks, item, plan, stamps>>

WorkflowNext ==
    \E t \in Ids : Create(t) \/ Start(t) \/ Submit(t) \/ Pass(t) \/ Fail(t)

WorkflowSpec == WorkflowInit /\ [][WorkflowNext]_workflowVars
==============================================================================
