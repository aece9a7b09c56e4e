---------------------------- MODULE SellerSession ----------------------------
(***************************************************************************)
(* The sessions of one seller persona: pick, run, persist, record          *)
(* (orchestrator/seller_scheduler.py), the run itself (sellers/runner.py   *)
(* and sellers/actions/) and the requests it makes of the MeliSim gateway  *)
(* (execution/melisim_client.py).                                          *)
(*                                                                         *)
(* The persona does not keep its MeliSim user: every session signs up with *)
(* an address of its own, which the gateway may have seen before.  A       *)
(* request is sent up to MaxAttempts times; an attempt whose answer is     *)
(* lost may have been performed, and only payments have an idempotency     *)
(* key.  Stations, call counters and the focus's name are left out.        *)
(***************************************************************************)
EXTENDS Integers, Sequences, FiniteSets, FiniteSetsExt

CONSTANTS MinCatalog,   \* persona.min_catalog_size
          MaxCatalog,   \* persona.max_catalog_size
          MaxPlan,      \* create_n_products and update_n_prices: at most 10
          MaxAttempts,  \* stop_after_attempt(4)
          MaxUsers,     \* MeliSim users the persona signs up as (a bound)
          MaxProducts,  \* products they create (a bound)
          MaxAlerts,    \* pending alerts of a session (a bound)
          MaxSessions   \* (a bound)

ASSUME SellerAssumption ==
    /\ MinCatalog \in Nat /\ MaxCatalog \in Nat /\ MaxPlan \in Nat
    /\ MaxAttempts \in Nat \ {0} /\ MaxUsers \in Nat /\ MaxProducts \in Nat
    /\ MaxAlerts \in Nat /\ MaxSessions \in Nat

Users == 1 .. MaxUsers
Products == 1 .. MaxProducts
NoUser == 0
Kinds == {"create", "restock", "suspend", "price"}

VARIABLES stage,      \* where run_one is
          sessions,   \* how many were begun
          user,       \* state.melisim_user_id
          inventory,  \* state.inventory
          alerts,     \* state.pending_alerts not handled yet
          plan,       \* create_n_products and update_n_prices of the focus
          todo,       \* products still to create
          sample,     \* products whose price is still to be changed
          counted,    \* products_created, _restocked, _suspended, prices_updated
          errors,     \* state.errors_encountered is not empty
          rows,       \* seller_sessions: the outcome of each row
          completed,  \* the tracker's seller_completed
          users,      \* the gateway: how many users the persona has signed up as
          made,       \* the gateway: how many products were created
          owner,      \* the gateway: each product's seller
          listed,     \* the gateway: the products that are not deleted
          performed,  \* what the gateway did for this session
          unanswered, \* a request of this session came to no answer
          suspended,  \* products whose deletion it confirmed to this session
          blind       \* users whose catalogue a session did not see whole, or
                      \* with a product created twice

gatewayVars == <<users, made, owner, listed>>
resultVars == <<counted, errors, unanswered>>
planVars == <<inventory, alerts, plan, todo, sample>>
storeVars == <<rows, completed>>
vars == <<stage, sessions, user, planVars, resultVars, performed, suspended,
          blind, storeVars, gatewayVars>>

Catalogue(u) == {p \in listed : owner[p] = u}

Stages == {"idle", "auth", "audit", "notifications", "focus", "alerts", "expand",
           "promo", "persist", "record"}

TypeOK ==
    /\ stage \in Stages
    /\ sessions \in 0 .. MaxSessions
    /\ users \in 0 .. MaxUsers /\ user \in NoUser .. users
    /\ made \in 0 .. MaxProducts
    /\ owner \in [Products -> NoUser .. users]
    /\ listed \subseteq 1 .. made /\ \A p \in 1 .. made : owner[p] # NoUser
    /\ inventory \subseteq 1 .. made /\ sample \subseteq inventory
    /\ alerts \in Seq(Products) /\ Len(alerts) <= MaxAlerts
    /\ plan \in [create : Nat, update : Nat] /\ todo \in Nat
    /\ counted \in [Kinds -> Nat] /\ performed \in [Kinds -> Nat]
    /\ errors \in BOOLEAN /\ unanswered \in BOOLEAN
    /\ suspended \subseteq 1 .. made
    /\ rows \in Seq({"ok", "partial", "error"})
    /\ completed \in Nat
    /\ blind \subseteq 1 .. users

NoPlan == [create |-> 0, update |-> 0]
None == [k \in Kinds |-> 0]

Init ==
    /\ stage = "idle" /\ sessions = 0 /\ user = NoUser
    /\ inventory = {} /\ alerts = <<>> /\ plan = NoPlan /\ todo = 0 /\ sample = {}
    /\ counted = None /\ errors = FALSE /\ unanswered = FALSE
    /\ performed = None /\ suspended = {} /\ blind = {}
    /\ rows = <<>> /\ completed = 0
    /\ users = 0 /\ made = 0 /\ owner = [p \in Products |-> NoUser] /\ listed = {}

------------------------------------------------------------------------------
(* Requests *)

\* How often the gateway performs a request that is sent up to MaxAttempts
\* times.
Performances == 0 .. MaxAttempts

\* A 2xx answer, that only a request the gateway performed gets.
Confirm(kind) ==
    /\ counted' = [counted EXCEPT ![kind] = @ + 1]
    /\ UNCHANGED <<errors, unanswered>>

\* An error status is not an error of the session.
Refuse == UNCHANGED resultVars

LoseSilently == unanswered' = TRUE /\ UNCHANGED <<counted, errors>>

\* Any other exception is one: it is noted, and the session goes on.
Lose == errors' = TRUE /\ unanswered' = TRUE /\ UNCHANGED counted

Answer(kind, n) ==
    /\ performed' = [performed EXCEPT ![kind] = @ + n]
    /\ (n > 0 /\ Confirm(kind)) \/ Refuse \/ Lose

\* Without an idempotency key each performance makes a product.
Creates(n) ==
    LET new == made + 1 .. made + n
    IN  /\ made + n <= MaxProducts                            \* bound
        /\ made' = made + n
        /\ owner' = [p \in Products |-> IF p \in new THEN user ELSE owner[p]]
        /\ listed' = listed \cup new
        /\ blind' = IF n > 1 THEN blind \cup {user} ELSE blind
        /\ UNCHANGED users

Removes(p) ==
    /\ listed' = listed \ {p}
    /\ performed' = [performed EXCEPT !["suspend"] = @ + Cardinality({p} \cap listed)]
    /\ UNCHANGED <<users, made, owner>>

------------------------------------------------------------------------------
(* The session *)

\* A SellerSessionState of its own.
NewState ==
    /\ user' = NoUser
    /\ inventory' = {} /\ alerts' = <<>> /\ plan' = NoPlan /\ todo' = 0 /\ sample' = {}
    /\ counted' = None /\ errors' = FALSE /\ unanswered' = FALSE

\* No persona, or no database: no session.
PickPersona ==
    /\ stage = "idle" /\ sessions < MaxSessions               \* bound
    /\ stage' = "auth" /\ sessions' = sessions + 1
    /\ NewState
    /\ performed' = None /\ suspended' = {}
    /\ UNCHANGED <<blind, storeVars, gatewayVars>>

\* The sign-up registers and logs in.  A failure of either is an error; an
\* answer without a token is none, and ends the session as well.
SignUpFails ==
    /\ stage = "auth"
    /\ \/ Lose
       \/ UNCHANGED resultVars
    /\ stage' = "persist"
    /\ UNCHANGED <<sessions, user, planVars, performed, suspended, blind, storeVars,
                   gatewayVars>>

\* A new user, one the address had before, or a token and no id.
SignUp(u) ==
    /\ stage = "auth"
    /\ u \in NoUser .. users + 1 /\ u <= MaxUsers             \* bound
    /\ user' = u
    /\ users' = Max({users, u})
    /\ stage' = "audit"
    /\ UNCHANGED <<sessions, planVars, resultVars, performed, suspended, blind,
                   storeVars, made, owner, listed>>

\* The actions return at once without a user.
WithoutUser ==
    /\ user = NoUser /\ stage \in {"audit", "notifications"}
    /\ stage' = IF stage = "audit" THEN "notifications" ELSE "focus"
    /\ UNCHANGED <<sessions, user, planVars, resultVars, performed, suspended, blind,
                   storeVars, gatewayVars>>

\* Five pages of everybody's products are read, and the seller's kept: some of
\* them, if there are more pages.
AuditInventory(found) ==
    /\ stage = "audit" /\ user # NoUser
    /\ inventory' = found
    /\ blind' = IF found = Catalogue(user) THEN blind ELSE blind \cup {user}
    /\ stage' = "notifications"
    /\ UNCHANGED <<sessions, user, alerts, plan, todo, sample, resultVars, performed,
                   suspended, storeVars, gatewayVars>>

\* A failed audit leaves the inventory empty; the session goes on.
AuditFails ==
    /\ stage = "audit" /\ user # NoUser
    /\ Lose
    /\ blind' = blind \cup {user}
    /\ stage' = "notifications"
    /\ UNCHANGED <<sessions, user, planVars, performed, suspended, storeVars, gatewayVars>>

\* Stock alerts may name a product twice, or one that is not listed any more.
Alerts == UNION {[1 .. n -> {p \in 1 .. made : owner[p] = user}] : n \in 0 .. MaxAlerts}

CheckNotifications ==
    /\ stage = "notifications" /\ user # NoUser
    /\ \/ alerts' \in Alerts /\ UNCHANGED resultVars
       \/ Refuse /\ UNCHANGED alerts
       \/ Lose /\ UNCHANGED alerts
    /\ stage' = "focus"
    /\ UNCHANGED <<sessions, user, inventory, plan, todo, sample, performed, suspended,
                   blind, storeVars, gatewayVars>>

\* The language model's plan, or the fallback's: the first focus that applies,
\* with products to create in an expansion and prices to change in a promotion.
FallbackFoci ==
    LET catalog == Cardinality(inventory)
    IN  IF Len(alerts) >= 3            THEN {"restock"}
        ELSE IF catalog < MinCatalog   THEN {"expand"}
        ELSE IF catalog >= MaxCatalog  THEN {"maintenance"}
        ELSE {"promo", "expand", "maintenance"}

FallbackPlans ==
    LET room == MaxCatalog - Cardinality(inventory)
    IN  UNION { CASE f = "expand" /\ room > 0 ->
                       {[NoPlan EXCEPT !.create = Min({room, k})] : k \in 1 .. 3}
                  [] f = "promo" -> {[NoPlan EXCEPT !.update = k] : k \in 1 .. 4}
                  [] OTHER -> {NoPlan}
              : f \in FallbackFoci }

ModelPlans == [create : 0 .. MaxPlan, update : 0 .. MaxPlan]

DecideFocus ==
    /\ stage = "focus"
    /\ plan' \in ModelPlans \cup FallbackPlans
    /\ stage' = "alerts"
    /\ UNCHANGED <<sessions, user, inventory, alerts, todo, sample, resultVars, performed,
                   suspended, blind, storeVars, gatewayVars>>

\* The alerts are handled in turn, as the language model decides, or else the
\* fallback: it restocks or ignores.
Ignore ==
    /\ stage = "alerts" /\ alerts # <<>>
    /\ alerts' = Tail(alerts)
    /\ UNCHANGED <<stage, sessions, user, inventory, plan, todo, sample, resultVars,
                   performed, suspended, blind, storeVars, gatewayVars>>

Restock ==
    /\ stage = "alerts" /\ alerts # <<>>
    /\ \E n \in Performances : (n > 0 => Head(alerts) \in listed) /\ Answer("restock", n)
    /\ alerts' = Tail(alerts)
    /\ UNCHANGED <<stage, sessions, user, inventory, plan, todo, sample, suspended, blind,
                   storeVars, gatewayVars>>

KeepListed(p) == inventory

\* Deleted: the product leaves the inventory.
Forget(p) == inventory \ {p}

Suspend ==
    /\ stage = "alerts" /\ alerts # <<>> /\ Head(alerts) \in listed
    /\ Removes(Head(alerts))
    /\ Confirm("suspend")
    /\ suspended' = suspended \cup {Head(alerts)}
    /\ inventory' = Forget(Head(alerts))
    /\ alerts' = Tail(alerts)
    /\ UNCHANGED <<stage, sessions, user, plan, todo, sample, blind, storeVars>>

\* An error status: also the 404 that an attempt gets after one whose answer
\* was lost.
SuspendRefused ==
    /\ stage = "alerts" /\ alerts # <<>>
    /\ Removes(Head(alerts)) \/ UNCHANGED <<performed, gatewayVars>>
    /\ alerts' = Tail(alerts)
    /\ UNCHANGED <<stage, sessions, user, inventory, plan, todo, sample, resultVars,
                   suspended, blind, storeVars>>

\* Without an answer, suspend lets the exception through: run_one logs it and
\* the session leaves no row.
SuspendLost ==
    /\ stage = "alerts" /\ alerts # <<>>
    /\ Removes(Head(alerts)) \/ UNCHANGED <<performed, gatewayVars>>
    /\ stage' = "idle"
    /\ UNCHANGED <<sessions, user, planVars, resultVars, suspended, blind, storeVars>>

WholePlan == plan.create

NToCreate == Min({plan.create, Max({0, MaxCatalog - Cardinality(inventory)})})

AlertsDone ==
    /\ stage = "alerts" /\ alerts = <<>>
    /\ todo' = NToCreate
    /\ stage' = "expand"
    /\ UNCHANGED <<sessions, user, inventory, alerts, plan, sample, resultVars, performed,
                   suspended, blind, storeVars, gatewayVars>>

\* The inventory does not grow; without a user nothing is sent.
CreateProduct ==
    /\ stage = "expand" /\ todo > 0
    /\ todo' = todo - 1
    /\ \/ /\ user # NoUser
          /\ \E n \in Performances : Creates(n) /\ Answer("create", n)
       \/ user = NoUser /\ UNCHANGED <<resultVars, performed, blind, gatewayVars>>
    /\ UNCHANGED <<stage, sessions, user, inventory, alerts, plan, sample, suspended,
                   storeVars>>

Relisted == Catalogue(user)

\* Prices are changed of the inventory the session has in hand.
Priceable == inventory

ExpandDone ==
    /\ stage = "expand" /\ todo = 0
    /\ sample' \in kSubset(Min({plan.update, Cardinality(inventory)}), Priceable)
    /\ stage' = "promo"
    /\ UNCHANGED <<sessions, user, inventory, alerts, plan, todo, resultVars, performed,
                   suspended, blind, storeVars, gatewayVars>>

\* A price that hardly changes is left.
UpdatePrice(p) ==
    /\ stage = "promo" /\ p \in sample
    /\ sample' = sample \ {p}
    /\ \/ \E n \in Performances : (n > 0 => p \in listed) /\ Answer("price", n)
       \/ UNCHANGED <<resultVars, performed>>
    /\ UNCHANGED <<stage, sessions, user, inventory, alerts, plan, todo, suspended, blind,
                   storeVars, gatewayVars>>

PromoDone ==
    /\ stage = "promo" /\ sample = {}
    /\ stage' = "persist"
    /\ UNCHANGED <<sessions, user, planVars, resultVars, performed, suspended, blind,
                   storeVars, gatewayVars>>

SessionOutcome ==
    IF ~errors THEN "ok"
    ELSE IF \A k \in Kinds : counted[k] = 0 THEN "error" ELSE "partial"

Persist ==
    /\ stage = "persist"
    /\ rows' = Append(rows, SessionOutcome)
    /\ stage' = "record"
    /\ UNCHANGED <<sessions, user, planVars, resultVars, performed, suspended, blind,
                   completed, gatewayVars>>

PersistFails ==
    /\ stage = "persist"
    /\ stage' = "idle"
    /\ UNCHANGED <<sessions, user, planVars, resultVars, performed, suspended, blind,
                   storeVars, gatewayVars>>

RecordCompletion ==
    /\ stage = "record"
    /\ completed' = completed + 1
    /\ stage' = "idle"
    /\ UNCHANGED <<sessions, user, planVars, resultVars, performed, suspended, blind,
                   rows, gatewayVars>>

\* The pool's shutdown cancels the session wherever it is, in a request too.
Cancelled ==
    /\ stage # "idle"
    /\ stage' = "idle"
    /\ \/ UNCHANGED <<performed, blind, gatewayVars>>
       \/ /\ stage = "expand" /\ todo > 0 /\ user # NoUser
          /\ \E n \in Performances : Creates(n)
          /\ UNCHANGED performed
       \/ /\ stage = "alerts" /\ alerts # <<>>
          /\ Removes(Head(alerts))
          /\ UNCHANGED blind
    /\ UNCHANGED <<sessions, user, planVars, resultVars, suspended, storeVars>>

Next ==
    \/ PickPersona \/ SignUpFails \/ (\E u \in NoUser .. MaxUsers : SignUp(u))
    \/ WithoutUser \/ (\E found \in SUBSET Catalogue(user) : AuditInventory(found))
    \/ AuditFails \/ CheckNotifications \/ DecideFocus
    \/ Ignore \/ Restock \/ Suspend \/ SuspendRefused \/ SuspendLost \/ AlertsDone
    \/ CreateProduct \/ ExpandDone \/ (\E p \in Products : UpdatePrice(p)) \/ PromoDone
    \/ Persist \/ PersistFails \/ RecordCompletion \/ Cancelled

Spec == Init /\ [][Next]_vars

------------------------------------------------------------------------------
(* Properties *)

\* runner.py:285-290: whatever the model plans, and whatever sessions before
\* this one did, were refused or were cancelled in, a user's catalogue stays
\* within max_catalog_size, unless a session worked on an inventory it had not
\* seen whole or a retry created a product twice.
CatalogueKept ==
    \A u \in 1 .. users : u \in blind \/ Cardinality(Catalogue(u)) <= MaxCatalog

\* repository.py:95-118: what a session counts happened at the gateway, however
\* its answers came; a session is only "ok" when every request was answered,
\* and the live statistics count only sessions with a row.
RowIsTrue ==
    /\ \A k \in Kinds : counted[k] <= performed[k]
    /\ stage = "persist" /\ SessionOutcome = "ok" => ~unanswered
    /\ completed + (IF stage = "record" THEN 1 ELSE 0) <= Len(rows)

\* suspend.py:22-23: a product whose deletion was confirmed is gone for the
\* rest of the session: its price is never changed after it.
SuspendedStaysOut == sample \cap suspended = {} /\ inventory \cap suspended = {}
==============================================================================
