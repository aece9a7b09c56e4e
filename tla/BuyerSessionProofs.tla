-------------------------- MODULE BuyerSessionProofs --------------------------
(***************************************************************************)
(* Safety of BuyerSession for every limit on views, supersteps, attempts   *)
(* and items.                                                              *)
(*                                                                         *)
(* The inductive invariant IInv says, for each stretch of the graph, what  *)
(* a session there has and has not done yet: what it may still view, when  *)
(* its cart is filled, when it has an account, and what the gateway holds  *)
(* for it.  The checkout is one node of the graph, so the parts about it   *)
(* are told apart by `stage`.  That every step takes the session on needs  *)
(* no more than its types.                                                 *)
(***************************************************************************)
EXTENDS BuyerSession, SequenceTheorems, TLAPS

Early == {"load_persona", "decide_session", "auth"}
Looking == {"browse_home", "search", "product_list", "product_detail"}
Leaving == {"pay", "write_review", "end", "failed"}

NoOrders == \A i \in Items : orders[i] = 0

\* On the way to a product there is room for one more view; past it there is
\* a product, and past the cart an item.
RoomToView ==
    /\ node \in Early \cup Looking \cup {"continue_or_checkout"}
           => views < MaxViews + Len(cart)
    /\ node \in Nodes \ (Early \cup Looking) => views > 0
    /\ node = "add_to_cart" => product # "none"
    /\ node \in {"continue_or_checkout", "checkout_decision", "pay", "write_review"}
           => cart # <<>>

\* The cart holds items the gateway can tell apart.
CartFits == Len(cart) <= MaxItems

\* Before the checkout there is nothing to tell of it.
Untouched ==
    /\ node \notin Leaving => outcome = "none" /\ tally = <<>> /\ NoOrders
    /\ node \notin {"pay", "failed"} => stage = "idle"
    /\ node = "pay" /\ stage = "idle" => outcome = "none" /\ tally = <<>> /\ NoOrders

\* A request is about a real item of the cart; a payment about an order, and
\* a status check about a charge.
AtGateway ==
    /\ stage \in Requests =>
           Item <= Len(cart) /\ cart[Item] = "real" /\ attempt \in 1 .. MaxAttempts
    /\ stage \in {"pay", "status"} => orders[Item] > 0
    /\ stage = "status" => charges[Item] > 0

\* What the session says of itself while and after it pays.
Told ==
    /\ stage \in {"loop", "crashed"} \cup Requests => outcome = "none" /\ token
    /\ stage = "done" => outcome \in {"purchased", "abandoned_cart"}
    /\ node \in {"pay", "write_review"} /\ outcome = "abandoned_cart" => NoOrders
    /\ node = "write_review" => outcome \in {"purchased", "abandoned_cart"}

\* An account comes with the auth node at the earliest.
NoTokenYet == node \in Early => ~token

\* The parts that only the checkout can disturb, ...
CheckoutInv == CheckoutTypeOK /\ CartFits /\ AtGateway /\ ChargedOnce /\ CountedAsCharged

\* ... and the parts about where the session is in the graph.
GraphInv ==
    /\ TypeOK /\ RoomToView /\ ViewsBounded /\ Untouched /\ Told
    /\ NoTokenYet /\ AccountWhenNeeded /\ OutcomeTruthful

IInv == CheckoutInv /\ GraphInv

------------------------------------------------------------------------------
(* The initial state, and the steps of the graph *)

\* A session starts with nothing viewed, nothing in its cart and no account.
LEMMA InitIInv == Init => IInv
<1> SUFFICES ASSUME Init PROVE IInv
    OBVIOUS
<1>1. CheckoutInv
  <2>0. cart = <<>> /\ tally = <<>> /\ Len(<<>>) = 0
    BY DEF Init, CheckoutInit
  <2>1. CheckoutTypeOK
    <3>1. cart \in Seq({"real", "synthetic"}) /\ tally \in Seq({"confirmed", "rejected"})
      BY <2>0
    <3>2. orders \in [Items -> 0 .. 2] /\ charges \in [Items -> Nat]
      BY DEF Init, CheckoutInit
    <3>3. attempt \in 0 .. MaxAttempts
      BY CheckoutAssumption DEF Init, CheckoutInit, CheckoutAssumption
    <3>4. token \in BOOLEAN
      BY Zenon DEF Init, CheckoutInit
    <3>5. stage = "idle" /\ outcome = "none"
      BY DEF Init, CheckoutInit
    <3> QED
      BY <2>0, <3>1, <3>2, <3>3, <3>4, <3>5 DEF CheckoutTypeOK, Requests
  <2>2. CartFits /\ AtGateway /\ ChargedOnce /\ CountedAsCharged
    BY CheckoutAssumption DEF Init, CheckoutInit, CartFits, AtGateway, ChargedOnce,
       CountedAsCharged, Requests, Items, CheckoutAssumption
  <2> QED
    BY <2>1, <2>2 DEF CheckoutInv
<1>2. Len(cart) = 0
    BY DEF Init, CheckoutInit
<1>3. TypeOK /\ RoomToView /\ ViewsBounded
  <2>1. candidates \in BOOLEAN
    BY Zenon DEF Init
  <2>2. /\ node = "load_persona" /\ steps = 0
        /\ intent = "none" /\ views = 0 /\ product = "none"
    BY DEF Init
  <2> QED
    BY <1>1, <1>2, <2>1, <2>2, SessionAssumption DEF CheckoutInv, TypeOK, RoomToView,
       ViewsBounded, SessionAssumption, Early, Looking, Nodes, Intents
<1>4. Untouched /\ Told /\ NoTokenYet /\ AccountWhenNeeded /\ OutcomeTruthful
    BY DEF Init, CheckoutInit, Untouched, Told, NoTokenYet, AccountWhenNeeded, OutcomeTruthful,
       Early, Nodes, Anonymous, Requests, NoOrders, Items
<1> QED
    BY <1>1, <1>3, <1>4 DEF IInv, GraphInv

\* A step that leaves the checkout alone keeps its part of the invariant.
LEMMA CheckoutAlone ==
    ASSUME CheckoutInv, UNCHANGED checkoutVars
    PROVE  CheckoutInv' /\ NoOrders' = NoOrders
BY DEF checkoutVars, CheckoutInv, CheckoutTypeOK, CartFits, AtGateway, ChargedOnce,
   CountedAsCharged, Item, NoOrders

\* The steps that move the session through the graph and leave the checkout be.
Moves ==
    \/ LoadPersona \/ DecideSession \/ BrowseHome \/ Search \/ ProductList
    \/ ProductDetail \/ EvaluateItem \/ ContinueOrCheckout \/ CheckoutDecision
    \/ WriteReview \/ Fails("auth") \/ Fails("pay") \/ OutOfSteps \/ Cancelled

\* They keep the invariant: a product is viewed only where there is room, and
\* only a session that is not tired goes back for another one.
LEMMA MovesIInv == IInv /\ Moves => IInv'
<1> SUFFICES ASSUME IInv, Moves PROVE IInv'
    OBVIOUS
<1> USE DEF IInv, GraphInv
<1> USE DEF Moves, LoadPersona, DecideSession, BrowseHome, Search, ProductList, ProductDetail,
        EvaluateItem, ContinueOrCheckout, CheckoutDecision, WriteReview, OutOfSteps, Cancelled,
        Run, Fails, checkoutVars
<1>1. UNCHANGED checkoutVars
    OBVIOUS
<1>2. CheckoutInv' /\ NoOrders' = NoOrders
    BY <1>1, CheckoutAlone
<1>3. TypeOK' /\ RoomToView' /\ ViewsBounded'
    BY <1>1, <1>2, SessionAssumption DEF CheckoutInv, CheckoutTypeOK, TypeOK, RoomToView,
       ViewsBounded, SessionAssumption, Early, Looking, Nodes, Intents, Tired, Over
<1>4. Untouched' /\ Told'
    BY <1>1, <1>2 DEF Untouched, Told, Leaving, Requests, Over
<1>5. NoTokenYet' /\ AccountWhenNeeded'
    BY <1>1 DEF NoTokenYet, AccountWhenNeeded, Untouched, NoOrders, Early, Nodes, Leaving, Over
<1>6. OutcomeTruthful'
    BY <1>1, <1>2 DEF OutcomeTruthful, Told, RoomToView, Nodes, NoOrders, Over
<1> QED
    BY <1>2, <1>3, <1>4, <1>5, <1>6

\* An account is made at the auth node for who needs one to browse, only.
LEMMA AuthIInv == IInv /\ Auth => IInv'
<1> SUFFICES ASSUME IInv, Auth PROVE IInv'
    OBVIOUS
<1>1. CASE Fails("auth")
    BY <1>1, MovesIInv DEF Moves
<1>2. CASE /\ Run("auth", "browse_home")
           /\ token' = ~SkipsAuth
           /\ UNCHANGED <<intent, candidates, views, product>>
           /\ UNCHANGED <<cart, outcome, stage, attempt, tally, orders, charges>>
  <2> USE <1>2 DEF IInv, GraphInv, Run
  <2>1. token' \in BOOLEAN
    BY Zenon
  <2>2. stage = "idle" /\ outcome = "none" /\ tally = <<>> /\ NoOrders /\ NoOrders'
    BY DEF Untouched, Leaving, NoOrders
  <2>3. CheckoutInv'
    BY <2>1, <2>2 DEF CheckoutInv, CheckoutTypeOK, CartFits, AtGateway, ChargedOnce,
       CountedAsCharged, Item, Requests
  <2>4. TypeOK' /\ RoomToView' /\ ViewsBounded'
    BY <2>3, SessionAssumption DEF CheckoutInv, TypeOK, RoomToView, ViewsBounded,
       SessionAssumption, Early, Looking, Nodes
  <2>5. Untouched' /\ Told' /\ NoTokenYet' /\ OutcomeTruthful'
    BY <2>2 DEF Untouched, Told, NoTokenYet, OutcomeTruthful, Early, Leaving, Requests
  <2>6. AccountWhenNeeded'
    BY <2>2 DEF AccountWhenNeeded, SkipsAuth, NoOrders
  <2> QED
    BY <2>3, <2>4, <2>5, <2>6
<1> QED
    BY <1>1, <1>2 DEF Auth

\* An item in the cart makes room for one more view.
LEMMA AddToCartIInv == IInv /\ AddToCart => IInv'
<1> SUFFICES ASSUME IInv, AddToCart PROVE IInv'
    OBVIOUS
<1> USE DEF IInv, GraphInv, AddToCart, Run
<1>1. stage = "idle" /\ outcome = "none" /\ tally = <<>> /\ NoOrders /\ NoOrders'
    BY DEF Untouched, Leaving, NoOrders
<1>2. /\ cart \in Seq({"real", "synthetic"}) /\ cart' \in Seq({"real", "synthetic"})
      /\ Len(cart') = Len(cart) + 1 /\ Len(cart) \in Nat
    BY DEF WithItem, RoomToView, TypeOK, CheckoutTypeOK
<1>3. CheckoutInv'
  <2>1. CheckoutTypeOK'
    BY <1>1, <1>2 DEF CheckoutInv, CheckoutTypeOK
  <2>2. CartFits' /\ AtGateway' /\ ChargedOnce' /\ CountedAsCharged'
    BY <1>1, <1>2, CheckoutAssumption DEF CheckoutInv, CartFits, AtGateway, ChargedOnce,
       CountedAsCharged, Item, Requests, CheckoutAssumption
  <2> QED
    BY <2>1, <2>2 DEF CheckoutInv
<1>4. cart' # <<>>
    BY <1>2
<1>5. TypeOK' /\ RoomToView' /\ ViewsBounded'
    BY <1>2, <1>3, <1>4, SessionAssumption DEF CheckoutInv, TypeOK, RoomToView, ViewsBounded,
       SessionAssumption, Early, Looking, Nodes
<1>6. Untouched' /\ Told' /\ NoTokenYet' /\ OutcomeTruthful'
    BY <1>1 DEF Untouched, Told, NoTokenYet, OutcomeTruthful, Early, Leaving, Requests, NoOrders
<1>7. AccountWhenNeeded'
    BY <1>1 DEF AccountWhenNeeded, Nodes, NoOrders
<1> QED
    BY <1>3, <1>5, <1>6, <1>7

\* Giving up tells whether a cart is left behind: something was viewed.
LEMMA AbandonIInv == IInv /\ Abandon => IInv'
<1> SUFFICES ASSUME IInv, Abandon PROVE IInv'
    OBVIOUS
<1> USE DEF IInv, GraphInv, Abandon, Run
<1>1. stage = "idle" /\ tally = <<>> /\ NoOrders /\ NoOrders' /\ views > 0
    BY DEF Untouched, Leaving, NoOrders, RoomToView, Nodes, Early, Looking
<1>2. outcome' = IF cart # <<>> THEN "abandoned_cart" ELSE "browsed_only"
    BY <1>1 DEF AbandonOutcome, TypeOK
<1>3. CheckoutInv'
    BY <1>1, <1>2 DEF CheckoutInv, CheckoutTypeOK, CartFits, AtGateway, ChargedOnce,
       CountedAsCharged, Item, Requests
<1>4. TypeOK' /\ RoomToView' /\ ViewsBounded'
    BY <1>3, SessionAssumption DEF CheckoutInv, TypeOK, RoomToView, ViewsBounded,
       SessionAssumption, Early, Looking, Nodes
<1>5. Untouched' /\ Told' /\ NoTokenYet'
    BY <1>1, <1>2 DEF Untouched, Told, NoTokenYet, Early, Leaving, Requests
<1>6. OutcomeTruthful'
    BY <1>1, <1>2 DEF OutcomeTruthful, NoOrders
<1>7. AccountWhenNeeded'
    BY <1>1 DEF AccountWhenNeeded, Nodes, NoOrders
<1> QED
    BY <1>3, <1>4, <1>5, <1>6, <1>7

\* The pay node ends with what it has told of itself.
LEMMA PayIInv == IInv /\ Pay => IInv'
<1> SUFFICES ASSUME IInv, Pay PROVE IInv'
    OBVIOUS
<1>1. CASE stage = "crashed" /\ Fails("pay")
    BY <1>1, MovesIInv DEF Moves
<1>2. CASE /\ stage = "done"
           /\ Run("pay", "write_review") \/ Run("pay", "end")
           /\ stage' = "idle"
           /\ UNCHANGED <<intent, candidates, views, product>>
           /\ UNCHANGED <<cart, token, outcome, attempt, tally, orders, charges>>
  <2> USE <1>2 DEF IInv, GraphInv, Run
  <2>1. outcome \in {"purchased", "abandoned_cart"} /\ NoOrders' = NoOrders
    BY DEF Told, NoOrders
  <2>2. CheckoutInv'
    BY DEF CheckoutInv, CheckoutTypeOK, CartFits, AtGateway, ChargedOnce,
       CountedAsCharged, Item, Requests
  <2>3. TypeOK' /\ RoomToView' /\ ViewsBounded'
    BY <2>2, SessionAssumption DEF CheckoutInv, TypeOK, RoomToView, ViewsBounded,
       SessionAssumption, Early, Looking, Nodes
  <2>4. Untouched' /\ Told' /\ NoTokenYet'
    BY <2>1 DEF Untouched, Told, NoTokenYet, Early, Leaving, Requests
  <2>5. OutcomeTruthful'
    BY <2>1 DEF OutcomeTruthful, Told, NoOrders, RoomToView
  <2>6. AccountWhenNeeded'
    BY DEF AccountWhenNeeded, Nodes
  <2> QED
    BY <2>2, <2>3, <2>4, <2>5, <2>6
<1> QED
    BY <1>1, <1>2 DEF Pay

------------------------------------------------------------------------------
(* The steps of the checkout *)

\* Whatever the gateway did, an order or a charge once there stays there, and
\* a payment's key keeps its charges at one.
LEMMA GatewayEffect ==
    ASSUME CheckoutInv, stage \in Requests, NEW performed \in BOOLEAN, Gateway(performed)
    PROVE  /\ orders' \in [Items -> 0 .. 2] /\ charges' \in [Items -> Nat] /\ ChargedOnce'
           /\ \A i \in Items : orders[i] > 0 => orders'[i] > 0
           /\ \A i \in Items : charges[i] > 0 => charges'[i] > 0
           /\ Item \in Items
           /\ performed /\ stage = "create" => orders'[Item] > 0
           /\ performed /\ stage = "pay" => charges'[Item] > 0
<1>1. Item \in Items
  <2>1. Len(tally) \in Nat /\ Len(cart) \in Nat /\ Item <= Len(cart) /\ Len(cart) <= MaxItems
    BY DEF CheckoutInv, CheckoutTypeOK, CartFits, AtGateway
  <2> QED
    BY <2>1, CheckoutAssumption DEF Item, Items, CheckoutAssumption
<1>2. orders \in [Items -> 0 .. 2] /\ charges \in [Items -> Nat] /\ ChargedOnce
    BY DEF CheckoutInv, CheckoutTypeOK
<1>3. orders' \in [Items -> 0 .. 2] /\ charges' \in [Items -> Nat]
    BY <1>1, <1>2 DEF Gateway, AnotherOrder, KeyedCharge
<1>4. ChargedOnce'
    BY <1>1, <1>2 DEF Gateway, KeyedCharge, ChargedOnce
<1>5. \A i \in Items : orders[i] > 0 => orders'[i] > 0
    BY <1>1, <1>2 DEF Gateway, AnotherOrder
<1>6. \A i \in Items : charges[i] > 0 => charges'[i] > 0
    BY <1>1, <1>2 DEF Gateway, KeyedCharge
<1>7. /\ performed /\ stage = "create" => orders'[Item] > 0
      /\ performed /\ stage = "pay" => charges'[Item] > 0
    BY <1>1, <1>2 DEF Gateway, AnotherOrder, KeyedCharge
<1> QED
    BY <1>1, <1>3, <1>4, <1>5, <1>6, <1>7

\* Counting the item the loop is at, as confirmed only if it was charged.
LEMMA CountItem ==
    ASSUME CheckoutInv, outcome = "none", Item <= Len(cart),
           NEW as \in {"confirmed", "rejected"}, Count(as),
           UNCHANGED <<cart, token, outcome>>,
           orders' \in [Items -> 0 .. 2], charges' \in [Items -> Nat], ChargedOnce',
           \A i \in Items : orders[i] > 0 => orders'[i] > 0,
           \A i \in Items : charges[i] > 0 => charges'[i] > 0,
           as = "confirmed" => cart[Item] = "real" /\ orders'[Item] > 0 /\ charges'[Item] > 0
    PROVE  CheckoutInv'
<1>1. /\ tally \in Seq({"confirmed", "rejected"}) /\ Len(tally) \in Nat
      /\ cart \in Seq({"real", "synthetic"}) /\ Len(cart) \in Nat /\ Len(cart) <= MaxItems
    BY DEF CheckoutInv, CheckoutTypeOK, CartFits
<1>2. tally' = Append(tally, as) /\ stage' = "loop" /\ attempt' = 0
    BY DEF Count
<1>3. /\ tally' \in Seq({"confirmed", "rejected"}) /\ Len(tally') = Item
      /\ tally'[Item] = as /\ \A i \in 1 .. Len(tally) : tally'[i] = tally[i]
  <2>1. Append(tally, as) \in Seq({"confirmed", "rejected"})
    BY <1>1, AppendProperties
  <2>2. Len(Append(tally, as)) = Len(tally) + 1
    BY <1>1
  <2>3. \A i \in 1 .. Len(tally) : Append(tally, as)[i] = tally[i]
    BY <1>1
  <2>4. Append(tally, as)[Len(tally) + 1] = as
    BY <1>1, AppendProperties, Zenon
  <2> QED
    BY <1>2, <2>1, <2>2, <2>3, <2>4 DEF Item
<1>4. CheckoutTypeOK'
  <2>1. attempt' \in 0 .. MaxAttempts
    BY <1>2, CheckoutAssumption DEF CheckoutAssumption
  <2>2. Len(tally') <= Len(cart)
    BY <1>3
  <2>3. token' \in BOOLEAN /\ outcome' = "none" /\ cart' = cart
    BY Zenon DEF CheckoutInv, CheckoutTypeOK
  <2> QED
    BY <1>1, <1>2, <1>3, <2>1, <2>2, <2>3 DEF CheckoutTypeOK
<1>5. CartFits' /\ AtGateway'
    BY <1>2 DEF CheckoutInv, CartFits, AtGateway, Requests
<1>6. CountedAsCharged'
  <2> SUFFICES ASSUME NEW i \in DOMAIN tally', tally'[i] = "confirmed"
               PROVE  cart[i] = "real" /\ orders'[i] > 0 /\ charges'[i] > 0
    BY DEF CountedAsCharged
  <2>1. i \in 1 .. Item /\ i \in Items
    BY <1>1, <1>3, CheckoutAssumption DEF Items, Item, CheckoutAssumption
  <2>2. CASE i = Item
    BY <1>3, <2>2
  <2>3. CASE i # Item
    <3>1. i \in 1 .. Len(tally)
      BY <1>1, <2>1, <2>3 DEF Item
    <3>2. i \in DOMAIN tally /\ tally[i] = "confirmed"
      BY <1>1, <1>3, <3>1
    <3> QED
      BY <2>1, <3>2 DEF CheckoutInv, CountedAsCharged
  <2> QED
    BY <2>2, <2>3
<1> QED
    BY <1>4, <1>5, <1>6 DEF CheckoutInv

\* A failed request counts its item, as confirmed only after a charge.
LEMMA FailureCounted ==
    ASSUME CheckoutInv, outcome = "none", stage \in Requests,
           NEW performed \in BOOLEAN, Gateway(performed), Count(CountedAfterFailure),
           UNCHANGED <<cart, token, outcome>>
    PROVE  CheckoutInv'
<1>1. /\ orders' \in [Items -> 0 .. 2] /\ charges' \in [Items -> Nat] /\ ChargedOnce'
      /\ \A i \in Items : orders[i] > 0 => orders'[i] > 0
      /\ \A i \in Items : charges[i] > 0 => charges'[i] > 0
      /\ Item \in Items
    BY GatewayEffect
<1>2. Item <= Len(cart) /\ cart[Item] = "real"
    BY DEF CheckoutInv, AtGateway
<1>3. CASE stage = "status"
  <2>1. orders'[Item] > 0 /\ charges'[Item] > 0
    BY <1>1, <1>3 DEF CheckoutInv, AtGateway
  <2> QED
    BY <1>1, <1>2, <1>3, <2>1, CountItem DEF CountedAfterFailure
<1>4. CASE stage # "status"
    BY <1>1, <1>2, <1>4, CountItem DEF CountedAfterFailure
<1> QED
    BY <1>3, <1>4

\* Sending a request about the item, whose order is there and charged as far
\* as the request takes for granted.
LEMMA SendRequest ==
    ASSUME CheckoutInv, outcome = "none", Item <= Len(cart), cart[Item] = "real",
           NEW request \in Requests, Send(request),
           UNCHANGED <<cart, token, outcome>>,
           orders' \in [Items -> 0 .. 2], charges' \in [Items -> Nat], ChargedOnce',
           \A i \in Items : orders[i] > 0 => orders'[i] > 0,
           \A i \in Items : charges[i] > 0 => charges'[i] > 0,
           request # "create" => orders'[Item] > 0,
           request = "status" => charges'[Item] > 0
    PROVE  CheckoutInv'
<1>1. stage' = request /\ attempt' = 1 /\ tally' = tally
    BY DEF Send
<1>2. CheckoutTypeOK'
    BY <1>1, CheckoutAssumption DEF CheckoutInv, CheckoutTypeOK, Requests, CheckoutAssumption
<1>3. CartFits' /\ AtGateway'
    BY <1>1, CheckoutAssumption DEF CheckoutInv, CartFits, AtGateway, Item, Requests,
       CheckoutAssumption
<1>4. CountedAsCharged'
  <2>1. DOMAIN tally \subseteq Items
    BY CheckoutAssumption DEF CheckoutInv, CheckoutTypeOK, CartFits, Items, CheckoutAssumption
  <2> QED
    BY <1>1, <2>1 DEF CheckoutInv, CountedAsCharged
<1> QED
    BY <1>2, <1>3, <1>4 DEF CheckoutInv

\* Within the checkout the session stays where it is, and tells nothing yet.
LEMMA StillPaying ==
    ASSUME IInv, Paying, CheckoutInv', UNCHANGED <<cart, token, outcome>>,
           stage # "idle", outcome = "none", token,
           stage' \in {"loop", "crashed"} \cup Requests
    PROVE  GraphInv'
<1> USE DEF IInv, GraphInv, Paying, graphVars
<1>1. TypeOK' /\ RoomToView' /\ ViewsBounded'
    BY DEF CheckoutInv, TypeOK, RoomToView, ViewsBounded, Nodes
<1>2. Untouched' /\ Told' /\ NoTokenYet' /\ OutcomeTruthful'
    BY DEF Untouched, Told, NoTokenYet, OutcomeTruthful, Early, Leaving, Requests
<1>3. AccountWhenNeeded'
    BY DEF AccountWhenNeeded
<1> QED
    BY <1>1, <1>2, <1>3

\* Begin signs a guest up, or abandons the cart with nothing ordered.
LEMMA BeginIInv == IInv /\ Paying /\ Begin => IInv'
<1> SUFFICES ASSUME IInv, Paying, Begin PROVE IInv'
    OBVIOUS
<1>1. /\ node = "pay" /\ outcome = "none" /\ tally = <<>> /\ NoOrders /\ NoOrders'
      /\ UNCHANGED <<cart, attempt, tally, orders, charges, graphVars>>
    BY DEF IInv, GraphInv, Untouched, Paying, Begin, NoOrders, graphVars
<1>2. \/ stage' = "loop" /\ token' /\ token' \in BOOLEAN /\ outcome' = outcome
      \/ stage' = "done" /\ token' = token /\ outcome' = "abandoned_cart"
    BY DEF Begin, EnsureAuth, IInv, CheckoutInv, CheckoutTypeOK
<1>3. CheckoutInv'
    BY <1>1, <1>2 DEF IInv, CheckoutInv, CheckoutTypeOK, CartFits, AtGateway, ChargedOnce,
       CountedAsCharged, Item, Requests
<1>4. TypeOK' /\ RoomToView' /\ ViewsBounded'
    BY <1>1, <1>3 DEF IInv, GraphInv, CheckoutInv, TypeOK, RoomToView, ViewsBounded, graphVars,
       Nodes
<1>5. Untouched' /\ Told' /\ NoTokenYet' /\ OutcomeTruthful'
    BY <1>1, <1>2 DEF Untouched, Told, NoTokenYet, OutcomeTruthful, Early, Leaving, Requests,
       graphVars
<1>6. AccountWhenNeeded'
    BY <1>1, <1>2 DEF IInv, GraphInv, AccountWhenNeeded, NoOrders, graphVars
<1> QED
    BY <1>3, <1>4, <1>5, <1>6 DEF IInv, GraphInv

\* Only the loop and its requests follow Begin.
LEMMA PastBegin == IInv /\ stage \in {"loop"} \cup Requests => outcome = "none" /\ token
BY DEF IInv, GraphInv, Told

\* The loop rejects a synthetic item, or starts on a real one.
LEMMA NextItemIInv == IInv /\ Paying /\ NextItem => IInv'
<1> SUFFICES ASSUME IInv, Paying, NextItem PROVE IInv'
    OBVIOUS
<1>1. outcome = "none" /\ token
    BY PastBegin DEF NextItem
<1>2. CheckoutInv'
  <2>1. CASE Count("rejected")
    BY <1>1, <2>1, CountItem DEF NextItem, IInv, CheckoutInv, CheckoutTypeOK, ChargedOnce
  <2>2. CASE cart[Item] = "real" /\ Send("create")
    BY <2>2, CheckoutAssumption DEF NextItem, Send, IInv, CheckoutInv, CheckoutTypeOK, CartFits,
       AtGateway, ChargedOnce, CountedAsCharged, Item, Requests, CheckoutAssumption
  <2>3. CASE stage' = "crashed" /\ UNCHANGED <<tally, attempt>>
    BY <2>3 DEF NextItem, IInv, CheckoutInv, CheckoutTypeOK, CartFits,
       AtGateway, ChargedOnce, CountedAsCharged, Item, Requests
  <2> QED
    BY <2>1, <2>2, <2>3 DEF NextItem
<1>3. stage # "idle" /\ stage' \in {"loop", "crashed"} \cup Requests
    BY DEF NextItem, Count, Send, Requests
<1> QED
    BY <1>1, <1>2, <1>3, StillPaying DEF NextItem, IInv

\* The purchase is over once every item is counted.
LEMMA PurchasedIInv == IInv /\ Paying /\ Purchased => IInv'
<1> SUFFICES ASSUME IInv, Paying, Purchased PROVE IInv'
    OBVIOUS
<1>1. outcome = "none" /\ token
    BY PastBegin DEF Purchased
<1>2. Len(tally) = Len(cart) /\ cart # <<>>
    BY DEF IInv, GraphInv, CheckoutInv, CheckoutTypeOK, RoomToView, Purchased, Paying, Item
<1>3. CheckoutInv'
    BY <1>2 DEF Purchased, IInv, CheckoutInv, CheckoutTypeOK, CartFits, AtGateway, ChargedOnce,
       CountedAsCharged, Item, Requests
<1>4. TypeOK' /\ RoomToView' /\ ViewsBounded'
    BY <1>3 DEF Purchased, Paying, IInv, GraphInv, CheckoutInv, TypeOK, RoomToView, ViewsBounded,
       graphVars, Nodes
<1>5. Untouched' /\ Told' /\ NoTokenYet' /\ OutcomeTruthful'
    BY DEF Purchased, Paying, Untouched, Told, NoTokenYet, OutcomeTruthful, Early, Leaving,
       Requests, graphVars
<1>6. AccountWhenNeeded'
    BY <1>1 DEF Purchased, Paying, IInv, GraphInv, AccountWhenNeeded, graphVars
<1> QED
    BY <1>3, <1>4, <1>5, <1>6 DEF IInv, GraphInv

\* A request is answered: an order is created before it is paid, and paid
\* before it is looked at.
LEMMA AnsweredIInv == IInv /\ Paying /\ Answered => IInv'
<1> SUFFICES ASSUME IInv, Paying, Answered PROVE IInv'
    OBVIOUS
<1>1. stage \in Requests /\ outcome = "none" /\ token
    BY PastBegin DEF Answered
<1>2. Gateway(TRUE)
    BY DEF Answered
<1>3. CheckoutInv
    BY DEF IInv
<1>4. /\ orders' \in [Items -> 0 .. 2] /\ charges' \in [Items -> Nat] /\ ChargedOnce'
      /\ \A i \in Items : orders[i] > 0 => orders'[i] > 0
      /\ \A i \in Items : charges[i] > 0 => charges'[i] > 0
      /\ Item \in Items
      /\ stage = "create" => orders'[Item] > 0
      /\ stage = "pay" => charges'[Item] > 0
    BY <1>1, <1>2, <1>3, GatewayEffect
<1>5. Item <= Len(cart) /\ cart[Item] = "real"
    BY <1>1, <1>3 DEF CheckoutInv, AtGateway
<1>6. /\ stage \in {"pay", "status"} => orders'[Item] > 0 /\ charges'[Item] > 0
    BY <1>3, <1>4 DEF CheckoutInv, AtGateway
<1>7. CheckoutInv'
  <2>1. CASE Count("rejected")
    BY <1>1, <1>3, <1>4, <1>5, <2>1, CountItem DEF Answered
  <2>2. CASE stage \in {"pay", "status"} /\ Count("confirmed")
    BY <1>1, <1>3, <1>4, <1>5, <1>6, <2>2, CountItem DEF Answered
  <2>3. CASE stage = "create" /\ Send("pay")
    BY <1>1, <1>3, <1>4, <1>5, <2>3, SendRequest DEF Answered, Requests
  <2>4. CASE stage = "pay" /\ Send("status")
    BY <1>1, <1>3, <1>4, <1>5, <1>6, <2>4, SendRequest DEF Answered, Requests
  <2> QED
    BY <2>1, <2>2, <2>3, <2>4 DEF Answered
<1>8. stage # "idle" /\ stage' \in {"loop", "crashed"} \cup Requests
    BY DEF Answered, Count, Send, Requests
<1> QED
    BY <1>1, <1>7, <1>8, StillPaying DEF Answered, IInv

\* A request is sent again: the gateway may have done it already.
LEMMA ResendIInv == IInv /\ Paying /\ Resend => IInv'
<1> SUFFICES ASSUME IInv, Paying, Resend PROVE IInv'
    OBVIOUS
<1>1. stage \in Requests /\ outcome = "none" /\ token /\ CheckoutInv
    BY PastBegin DEF Resend, IInv
<1>2. PICK performed \in BOOLEAN : Gateway(performed)
    BY DEF Resend
<1>3. /\ orders' \in [Items -> 0 .. 2] /\ charges' \in [Items -> Nat] /\ ChargedOnce'
      /\ \A i \in Items : orders[i] > 0 => orders'[i] > 0
      /\ \A i \in Items : charges[i] > 0 => charges'[i] > 0
      /\ Item \in Items
    BY <1>1, <1>2, GatewayEffect
<1>4. CheckoutInv'
  <2>1. attempt \in 0 .. MaxAttempts /\ attempt' = attempt + 1 /\ attempt < MaxAttempts
    BY <1>1 DEF Resend, NextAttempt, AttemptsLeft, CheckoutInv, CheckoutTypeOK
  <2>2. CheckoutTypeOK'
    BY <1>1, <1>3, <2>1, CheckoutAssumption DEF Resend, CheckoutInv, CheckoutTypeOK,
       CheckoutAssumption
  <2>3. CartFits' /\ AtGateway'
    BY <1>1, <1>3, <2>1, CheckoutAssumption DEF Resend, CheckoutInv, CartFits, AtGateway, Item,
       Requests, CheckoutAssumption
  <2>4. CountedAsCharged'
    <3>1. DOMAIN tally \subseteq Items
      BY <1>1, CheckoutAssumption DEF CheckoutInv, CheckoutTypeOK, CartFits, Items,
         CheckoutAssumption
    <3> QED
      BY <1>1, <1>3, <3>1 DEF Resend, CheckoutInv, CountedAsCharged
  <2> QED
    BY <1>3, <2>2, <2>3, <2>4 DEF CheckoutInv
<1> QED
    BY <1>1, <1>4, StillPaying DEF Resend, IInv, Requests

\* A request fails: the item is counted as confirmed only if it is at its
\* status check, which a charged order alone gets to.
LEMMA ErrorStatusIInv == IInv /\ Paying /\ ErrorStatus => IInv'
<1> SUFFICES ASSUME IInv, Paying, ErrorStatus PROVE IInv'
    OBVIOUS
<1>1. stage \in Requests /\ outcome = "none" /\ token /\ CheckoutInv
    BY PastBegin DEF ErrorStatus, IInv
<1>2. PICK performed \in BOOLEAN : Gateway(performed)
    BY DEF ErrorStatus
<1>3. CheckoutInv'
    BY <1>1, <1>2, FailureCounted DEF ErrorStatus
<1>4. stage # "idle" /\ stage' = "loop"
    BY <1>1 DEF ErrorStatus, Count, Requests
<1> QED
    BY <1>1, <1>3, <1>4, StillPaying DEF ErrorStatus, IInv

\* The last attempt gets no answer: as for an error status, or the session is
\* lost.
LEMMA NoAnswerIInv == IInv /\ Paying /\ NoAnswer => IInv'
<1> SUFFICES ASSUME IInv, Paying, NoAnswer PROVE IInv'
    OBVIOUS
<1>1. stage \in Requests /\ outcome = "none" /\ token /\ CheckoutInv
    BY PastBegin DEF NoAnswer, IInv
<1>2. PICK performed \in BOOLEAN : Gateway(performed)
    BY DEF NoAnswer
<1>3. CASE Count(CountedAfterFailure)
  <2>1. CheckoutInv'
    BY <1>1, <1>2, <1>3, FailureCounted DEF NoAnswer
  <2>2. stage # "idle" /\ stage' = "loop"
    BY <1>1, <1>3 DEF Count, Requests
  <2> QED
    BY <1>1, <2>1, <2>2, StillPaying DEF NoAnswer, IInv
<1>4. CASE stage' = "crashed" /\ UNCHANGED <<tally, attempt>>
  <2>1. /\ orders' \in [Items -> 0 .. 2] /\ charges' \in [Items -> Nat] /\ ChargedOnce'
        /\ \A i \in Items : orders[i] > 0 => orders'[i] > 0
        /\ \A i \in Items : charges[i] > 0 => charges'[i] > 0
    BY <1>1, <1>2, GatewayEffect
  <2>2. DOMAIN tally \subseteq Items
    BY <1>1, CheckoutAssumption DEF CheckoutInv, CheckoutTypeOK, CartFits, Items,
       CheckoutAssumption
  <2>3. CheckoutTypeOK' /\ CartFits' /\ AtGateway'
    BY <1>1, <1>4, <2>1 DEF NoAnswer, CheckoutInv, CheckoutTypeOK, CartFits, AtGateway, Requests
  <2>4. CountedAsCharged'
    BY <1>1, <1>4, <2>1, <2>2 DEF NoAnswer, CheckoutInv, CountedAsCharged
  <2>5. CheckoutInv'
    BY <2>1, <2>3, <2>4 DEF CheckoutInv
  <2> QED
    BY <1>1, <1>4, <2>5, StillPaying DEF NoAnswer, IInv, Requests
<1> QED
    BY <1>3, <1>4 DEF NoAnswer

------------------------------------------------------------------------------
(* The theorems *)

\* IInv is inductive.
LEMMA NextIInv == IInv /\ [Next]_vars => IInv'
<1> SUFFICES ASSUME IInv, [Next]_vars PROVE IInv'
    OBVIOUS
<1>1. CASE Moves
    BY <1>1, MovesIInv
<1>2. CASE Auth
    BY <1>2, AuthIInv
<1>3. CASE AddToCart
    BY <1>3, AddToCartIInv
<1>4. CASE Paying
    BY <1>4, BeginIInv, NextItemIInv, PurchasedIInv, AnsweredIInv, ResendIInv, ErrorStatusIInv,
       NoAnswerIInv DEF Paying, CheckoutNext
<1>5. CASE Pay
    BY <1>5, PayIInv
<1>6. CASE Abandon
    BY <1>6, AbandonIInv
<1>7. CASE UNCHANGED vars
  <2>1. UNCHANGED checkoutVars /\ UNCHANGED graphVars
    BY <1>7 DEF vars
  <2>2. CheckoutInv' /\ NoOrders' = NoOrders
    BY <2>1, CheckoutAlone DEF IInv
  <2> QED
    BY <2>1, <2>2 DEF IInv, GraphInv, CheckoutInv, checkoutVars, graphVars, TypeOK, RoomToView,
       ViewsBounded, Untouched, Told, NoTokenYet, AccountWhenNeeded, OutcomeTruthful
<1> QED
    BY <1>1, <1>2, <1>3, <1>4, <1>5, <1>6, <1>7 DEF Next, Step, Ended, Moves

\* Every reachable state of a session satisfies IInv.
THEOREM Inductive == Spec => []IInv
<1>1. Init => IInv
    BY InitIInv
<1>2. IInv /\ [Next]_vars => IInv'
    BY NextIInv
<1> QED
    BY <1>1, <1>2, PTL DEF Spec

\* The session's state always has its type.
THEOREM TypeCorrect == Spec => []TypeOK
<1>1. IInv => TypeOK
    BY DEF IInv, GraphInv
<1> QED
    BY <1>1, Inductive, PTL

\* With one key for all the attempts of a payment, no item is charged twice,
\* whatever the gateway answered to each attempt.
THEOREM ChargedAtMostOnce == Spec => []ChargedOnce
<1>1. IInv => ChargedOnce
    BY DEF IInv, CheckoutInv
<1> QED
    BY <1>1, Inductive, PTL

\* What a session counts as confirmed was ordered and charged, and a purchase
\* accounts for every item of the cart.
THEOREM CountedIsCharged == Spec => []CountedAsCharged
<1>1. IInv => CountedAsCharged
    BY DEF IInv, CheckoutInv
<1> QED
    BY <1>1, Inductive, PTL

\* An ended session says what it did at the gateway.
THEOREM OutcomeIsTruthful == Spec => []OutcomeTruthful
<1>1. IInv => OutcomeTruthful
    BY DEF IInv, GraphInv
<1> QED
    BY <1>1, Inductive, PTL

\* Nothing is ordered without an account, and who only came to look has none
\* before the checkout.
THEOREM AccountIsThere == Spec => []AccountWhenNeeded
<1>1. IInv => AccountWhenNeeded
    BY DEF IInv, GraphInv
<1> QED
    BY <1>1, Inductive, PTL

\* However long a session goes on, it views at most MaxViews products and one
\* more for every item in its cart.
THEOREM ViewsAreBounded == Spec => []ViewsBounded
<1>1. IInv => ViewsBounded
    BY DEF IInv, GraphInv
<1> QED
    BY <1>1, Inductive, PTL

------------------------------------------------------------------------------
(* Every step takes the session on *)

\* A step of pay.run goes on to the next item, request or attempt.
PaysOn ==
    \/ Len(tally') > Len(tally)
    \/ tally' = tally /\ Progress[stage'] > Progress[stage]
    \/ tally' = tally /\ stage' = stage /\ attempt' > attempt

Advances ==
    \/ node' \in {"end", "failed"}
    \/ steps' > steps
    \/ steps' = steps /\ PaysOn

\* An item counted is one more item.
LEMMA CountPaysOn ==
    ASSUME CheckoutTypeOK, NEW as, Count(as)
    PROVE  PaysOn
<1>1. tally' = Append(tally, as) /\ tally \in Seq({"confirmed", "rejected"})
    BY DEF Count, CheckoutTypeOK
<1>2. Len(tally') = Len(tally) + 1 /\ Len(tally) \in Nat
    BY <1>1
<1> QED
    BY <1>2 DEF PaysOn

LEMMA CheckoutAdvances ==
    ASSUME IInv, CheckoutNext
    PROVE  PaysOn
<1>1. CheckoutTypeOK /\ attempt \in Nat
    BY CheckoutAssumption DEF CheckoutAssumption, IInv, CheckoutInv, CheckoutTypeOK
<1>2. ASSUME NEW s \in DOMAIN Progress, NEW t \in DOMAIN Progress,
             stage = s, stage' = t, tally' = tally, Progress[t] > Progress[s]
      PROVE  PaysOn
    BY <1>2 DEF PaysOn
<1>3. CASE Begin
    BY <1>2, <1>3 DEF Begin, EnsureAuth, Progress
<1>4. CASE NextItem
    BY <1>1, <1>2, <1>4, CountPaysOn DEF NextItem, Send, Progress
<1>5. CASE Purchased
    BY <1>2, <1>5 DEF Purchased, Progress
<1>6. CASE Answered
    BY <1>1, <1>2, <1>6, CountPaysOn DEF Answered, Send, Progress
<1>7. CASE Resend
    BY <1>1, <1>7 DEF Resend, NextAttempt, PaysOn
<1>8. CASE ErrorStatus
    BY <1>1, <1>8, CountPaysOn DEF ErrorStatus
<1>9. CASE NoAnswer
    BY <1>1, <1>2, <1>9, CountPaysOn DEF NoAnswer, Progress
<1> QED
    BY <1>3, <1>4, <1>5, <1>6, <1>7, <1>8, <1>9 DEF CheckoutNext

\* A superstep is counted; the others end the session or pay on.
LEMMA StepAdvances == IInv /\ Next => Advances \/ UNCHANGED vars
<1> SUFFICES ASSUME IInv, Next PROVE Advances \/ UNCHANGED vars
    OBVIOUS
<1>1. steps \in Nat
    BY SessionAssumption DEF SessionAssumption, IInv, GraphInv, TypeOK
<1>2. ASSUME NEW n, NEW next, Run(n, next) PROVE Advances
    BY <1>1, <1>2 DEF Run, Advances
<1>3. CASE Paying
    BY <1>3, CheckoutAdvances DEF Paying, graphVars, Advances
<1>4. CASE OutOfSteps \/ Cancelled
    BY <1>4 DEF OutOfSteps, Cancelled, Advances
<1>5. ASSUME NEW n, Fails(n) PROVE Advances
    BY <1>5 DEF Fails, Advances
<1>6. CASE LoadPersona \/ DecideSession \/ BrowseHome \/ ProductList \/ ProductDetail
           \/ AddToCart \/ WriteReview \/ Abandon
    BY <1>2, <1>6 DEF LoadPersona, DecideSession, BrowseHome, ProductList, ProductDetail,
       AddToCart, WriteReview, Abandon
<1>7. CASE Auth \/ Search \/ Pay
    BY <1>2, <1>5, <1>7 DEF Auth, Search, Pay
<1>8. CASE EvaluateItem \/ ContinueOrCheckout \/ CheckoutDecision
    BY <1>2, <1>8 DEF EvaluateItem, ContinueOrCheckout, CheckoutDecision
<1>9. CASE Ended
    BY <1>9 DEF Ended
<1> QED
    BY <1>3, <1>4, <1>6, <1>7, <1>8, <1>9 DEF Next, Step

\* edges.py:30: no session goes round in circles.  Each step is a step towards
\* one of four bounds, whatever the gateway answers and the dice decide.
THEOREM SessionAlwaysAdvances == Spec => SessionAdvances
<1>1. IInv /\ [Next]_vars
          => [\/ node' \in {"end", "failed"}
              \/ steps' > steps
              \/ /\ steps' = steps
                 /\ \/ Len(tally') > Len(tally)
                    \/ tally' = tally /\ Progress[stage'] > Progress[stage]
                    \/ tally' = tally /\ stage' = stage /\ attempt' > attempt]_vars
    BY StepAdvances DEF Advances, PaysOn
<1> QED
    BY <1>1, Inductive, PTL DEF Spec, SessionAdvances
==============================================================================
