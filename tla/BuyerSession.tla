----------------------------- MODULE BuyerSession ----------------------------
(***************************************************************************)
(* A buyer's session: run_session (agents/runner.py) over the graph of     *)
(* agents/graph.py, its routing functions (agents/edges.py) and its nodes  *)
(* (agents/nodes), with the pay node composed from Checkout.               *)
(*                                                                         *)
(* A node is a superstep; `node` is the one to run next.  What the model   *)
(* scores and what the dice decide is a nondeterministic choice among the  *)
(* outcomes the code gives a probability above zero.                       *)
(***************************************************************************)
EXTENDS Checkout

CONSTANTS MaxViews,       \* route_after_evaluate_item: 8
          RecursionLimit  \* run_session: 100

ASSUME SessionAssumption == MaxViews \in Nat \ {0} /\ RecursionLimit \in Nat

VARIABLES node,        \* the node the graph runs next
          steps,       \* supersteps taken
          intent,      \* state.session_intent
          candidates,  \* state.candidate_products is not empty
          views,       \* len(state.viewed_products)
          product      \* state.current_product

graphVars == <<node, steps, intent, candidates, views, product>>
vars == <<graphVars, checkoutVars>>

Anonymous == {"browse", "research"}
Intents == Anonymous \cup {"compare", "purchase"}
Nodes == {"load_persona", "decide_session", "auth", "browse_home", "search",
          "product_list", "product_detail", "evaluate_item", "add_to_cart",
          "continue_or_checkout", "checkout_decision", "pay", "abandon",
          "write_review"}

Over == node \in {"end", "failed"}

TypeOK ==
    /\ CheckoutTypeOK
    /\ node \in Nodes \cup {"end", "failed"}
    /\ steps \in 0 .. RecursionLimit
    /\ intent \in Intents \cup {"none"}
    /\ candidates \in BOOLEAN
    /\ views \in Nat
    /\ product \in {"none", "real", "synthetic"}

Init ==
    /\ CheckoutInit
    /\ node = "load_persona" /\ steps = 0
    /\ intent = "none" /\ candidates = FALSE /\ views = 0 /\ product = "none"

------------------------------------------------------------------------------
(* The graph *)

\* LangGraph runs node n and follows the edge to `next`.
Run(n, next) ==
    /\ node = n
    /\ steps < RecursionLimit
    /\ node' = next
    /\ steps' = steps + 1

\* A graph that stops at the limit without raising.
StopsSilently == FALSE

\* GraphRecursionError, before a node past the limit would start.
OutOfSteps ==
    /\ ~Over /\ stage = "idle" /\ steps = RecursionLimit
    /\ node' = "failed"
    /\ UNCHANGED <<steps, intent, candidates, views, product, checkoutVars>>

\* An exception leaves node n: run_session raises, the session is lost.
Fails(n) ==
    /\ node = n /\ steps < RecursionLimit
    /\ node' = "failed"
    /\ UNCHANGED <<steps, intent, candidates, views, product, checkoutVars>>

\* AgentPool.shutdown gives up on the worker: its task is cancelled.
Cancelled ==
    /\ ~Over
    /\ node' = "failed"
    /\ UNCHANGED <<steps, intent, candidates, views, product, checkoutVars>>

LoadPersona ==
    /\ Run("load_persona", "decide_session")
    /\ UNCHANGED <<intent, candidates, views, product, checkoutVars>>

DecideSession ==
    /\ Run("decide_session", "auth")
    /\ intent' \in Intents
    /\ UNCHANGED <<candidates, views, product, checkoutVars>>

SkipsAuthAlways == TRUE

SkipsAuth == intent \in Anonymous

Auth ==
    \/ /\ Run("auth", "browse_home")
       /\ token' = ~SkipsAuth
       /\ UNCHANGED <<intent, candidates, views, product>>
       /\ UNCHANGED <<cart, outcome, stage, attempt, tally, orders, charges>>
    \/ ~SkipsAuth /\ Fails("auth")

\* The showcase is best effort: a failure leaves no candidates.
BrowseHome ==
    /\ Run("browse_home", "search")
    /\ candidates' \in BOOLEAN
    /\ UNCHANGED <<intent, views, product, checkoutVars>>

Search ==
    \/ /\ Run("search", "product_list")
       /\ candidates' \in BOOLEAN
       /\ UNCHANGED <<intent, views, product, checkoutVars>>
    \/ Fails("search")

ProductList ==
    /\ Run("product_list", "product_detail")
    /\ UNCHANGED <<intent, candidates, views, product, checkoutVars>>

\* Without candidates, or when the gateway fails, a synthetic product.
ProductDetail ==
    /\ Run("product_detail", "evaluate_item")
    /\ \/ product' = "synthetic"
       \/ candidates /\ product' = "real"
    /\ views' = views + 1
    /\ UNCHANGED <<intent, candidates, checkoutVars>>

NeverTired == ~candidates

\* route_after_evaluate_item: going back to the list would repeat itself.
Tired == ~candidates \/ views >= MaxViews

EvaluateItem ==
    /\ \/ product # "none" /\ Run("evaluate_item", "add_to_cart")
       \/ product # "none" /\ Run("evaluate_item", "abandon")
       \/ Tired /\ Run("evaluate_item", "abandon")
       \/ ~Tired /\ Run("evaluate_item", "product_list")
    /\ UNCHANGED <<intent, candidates, views, product, checkoutVars>>

WithItem == Append(cart, product)

AddToCart ==
    /\ Run("add_to_cart", "continue_or_checkout")
    /\ Len(cart) < MaxItems                                   \* bound
    /\ cart' = IF product = "none" THEN cart ELSE WithItem
    /\ UNCHANGED <<intent, candidates, views, product>>
    /\ UNCHANGED <<token, outcome, stage, attempt, tally, orders, charges>>

ContinueOrCheckout ==
    /\ \/ Run("continue_or_checkout", "search")
       \/ Run("continue_or_checkout", "checkout_decision")
    /\ UNCHANGED <<intent, candidates, views, product, checkoutVars>>

CheckoutDecision ==
    /\ \/ Run("checkout_decision", "pay")
       \/ Run("checkout_decision", "abandon")
    /\ UNCHANGED <<intent, candidates, views, product, checkoutVars>>

\* The awaits of pay.run, all in one superstep.
Paying ==
    /\ node = "pay" /\ steps < RecursionLimit
    /\ CheckoutNext
    /\ UNCHANGED graphVars

\* pay.run returns and route_after_pay throws its dice, or pay.run raises.
Pay ==
    \/ /\ stage = "done"
       /\ Run("pay", "write_review") \/ Run("pay", "end")
       /\ stage' = "idle"
       /\ UNCHANGED <<intent, candidates, views, product>>
       /\ UNCHANGED <<cart, token, outcome, attempt, tally, orders, charges>>
    \/ stage = "crashed" /\ Fails("pay")

WriteReview ==
    /\ Run("write_review", "end")
    /\ UNCHANGED <<intent, candidates, views, product, checkoutVars>>

CartOnlyOutcome == IF cart # <<>> THEN "browsed_only" ELSE "abandoned_cart"

AbandonOutcome ==
    CASE views = 0 -> "bounced"
      [] views > 0 /\ cart # <<>> -> "abandoned_cart"
      [] OTHER -> "browsed_only"

Abandon ==
    /\ Run("abandon", "end")
    /\ outcome' = AbandonOutcome
    /\ UNCHANGED <<intent, candidates, views, product>>
    /\ UNCHANGED <<cart, token, stage, attempt, tally, orders, charges>>

Ended == Over /\ UNCHANGED vars

Step ==
    \/ LoadPersona \/ DecideSession \/ Auth \/ BrowseHome \/ Search
    \/ ProductList \/ ProductDetail \/ EvaluateItem \/ AddToCart
    \/ ContinueOrCheckout \/ CheckoutDecision \/ Paying \/ Pay
    \/ WriteReview \/ Abandon \/ OutOfSteps

Next == Step \/ Cancelled \/ Ended

Spec == Init /\ [][Next]_vars

\* Every await of a node ends: a request by its timeout and its bounded
\* attempts, a call to the model by the pool (QwenPool!WaiterServed) and the
\* same, a delay by itself.
FairSpec == Spec /\ WF_vars(Step)

------------------------------------------------------------------------------
(* Properties *)

\* An ended session says what it did: it bought exactly when its checkout
\* ran to the end; otherwise it left nothing at the gateway, and its outcome
\* tells whether it leaves a cart behind.
OutcomeTruthful ==
    node = "end" =>
        /\ outcome \in {"purchased", "abandoned_cart", "browsed_only"}
        /\ outcome = "browsed_only" <=> cart = <<>>
        /\ outcome # "purchased" => \A i \in Items : orders[i] = 0

\* nodes/auth.py:4-5: who came to compare or to buy browses with an account;
\* who came to look gets one at the checkout and nowhere before; and nothing is
\* ordered without one.
AccountWhenNeeded ==
    /\ node \in Nodes \ {"load_persona", "decide_session", "auth"} =>
           (intent \notin Anonymous => token)
    /\ intent \in Anonymous /\ token => node \in {"pay", "write_review", "end", "failed"}
    /\ (\E i \in Items : orders[i] > 0) => token

\* evaluate_item.py:98, edges.py:30-32: past MaxViews products a session only
\* goes on by putting something in the cart, so it sees at most that many and
\* one more for every item.
ViewsBounded == views <= MaxViews + Len(cart)

\* edges.py:30, "evitar sessões infinitas": every session ends.
SessionEnds == <>Over

\* How far pay.run has come with an item, and past the last one.
Progress == [idle |-> 0, loop |-> 1, create |-> 2, pay |-> 3, status |-> 4,
             done |-> 5, crashed |-> 5]

\* The reason why it ends, step by step: each step ends the session or takes it
\* on, to the next superstep, inside pay.run to the next item, with the item to
\* the next request, and with the request to the next attempt.  All four are
\* bounded, and no failure, retry or answer takes the session back.
SessionAdvances ==
    [][\/ node' \in {"end", "failed"}
       \/ steps' > steps
       \/ /\ steps' = steps
          /\ \/ Len(tally') > Len(tally)
             \/ tally' = tally /\ Progress[stage'] > Progress[stage]
             \/ tally' = tally /\ stage' = stage /\ attempt' > attempt]_vars

\* write_review.py:1, "review pós-compra": only a buyer writes a review.
ReviewOnlyAfterPurchase == node = "write_review" => outcome = "purchased"
==============================================================================
