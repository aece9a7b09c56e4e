------------------------------- MODULE Checkout ------------------------------
(***************************************************************************)
(* The pay node (agents/nodes/pay.py) and the requests it makes through    *)
(* MelisimClient (execution/melisim_client.py): one order per cart item,   *)
(* its payment, and a look at what became of it.                           *)
(*                                                                         *)
(* The gateway is external.  An attempt that ends in a timeout, a network  *)
(* error or an error status tells the client nothing of whether the        *)
(* gateway did what was asked, so both are possible.  A payment carries an *)
(* Idempotency-Key; an order does not.                                     *)
(***************************************************************************)
EXTENDS Naturals, Sequences, FiniteSets

CONSTANTS MaxAttempts,  \* stop_after_attempt(4)
          MaxItems      \* cart items told apart at the gateway (a bound)

ASSUME CheckoutAssumption == MaxAttempts \in Nat \ {0} /\ MaxItems \in Nat

VARIABLES cart,     \* state.cart: each item "real" or "synthetic" (fallback-*)
          token,    \* state.auth_token is there
          outcome,  \* state.outcome
          stage,    \* where pay.run is: before, in the loop, in a request
          attempt,  \* the attempt of that request
          tally,    \* how each item so far was counted
          orders,   \* the gateway: orders for each item (2: two or more)
          charges   \* the gateway: charges made for each item

checkoutVars == <<cart, token, outcome, stage, attempt, tally, orders, charges>>

Items == 1 .. MaxItems
Requests == {"create", "pay", "status"}

\* The item the loop is at.
Item == Len(tally) + 1

CheckoutTypeOK ==
    /\ cart \in Seq({"real", "synthetic"})
    /\ token \in BOOLEAN
    /\ outcome \in {"none", "purchased", "abandoned_cart", "browsed_only", "bounced"}
    /\ stage \in {"idle", "loop", "done", "crashed"} \cup Requests
    /\ attempt \in 0 .. MaxAttempts
    /\ tally \in Seq({"confirmed", "rejected"})
    /\ Len(tally) <= Len(cart)
    /\ orders \in [Items -> 0 .. 2] /\ charges \in [Items -> Nat]

CheckoutInit ==
    /\ cart = <<>> /\ token = FALSE /\ outcome = "none"
    /\ stage = "idle" /\ attempt = 0 /\ tally = <<>>
    /\ orders = [i \in Items |-> 0] /\ charges = [i \in Items |-> 0]

------------------------------------------------------------------------------
\* The gateway performs a request, or only fails to answer it.
FreshKeyCharge(n) == n + 1

\* One key for all the attempts of a payment: only the first one charges.
KeyedCharge(n) == 1

\* Without a key, every attempt creates an order.
AnotherOrder(n) == IF n = 0 THEN 1 ELSE 2

Gateway(performed) ==
    /\ orders' = IF performed /\ stage = "create"
                 THEN [orders EXCEPT ![Item] = AnotherOrder(@)] ELSE orders
    /\ charges' = IF performed /\ stage = "pay"
                  THEN [charges EXCEPT ![Item] = KeyedCharge(@)] ELSE charges

Count(as) == tally' = Append(tally, as) /\ stage' = "loop" /\ attempt' = 0

Send(request) == stage' = request /\ attempt' = 1 /\ UNCHANGED tally

\* _ensure_auth: a guest signs up now, and abandons the cart if that fails.
EnsureAuth ==
    \/ token /\ stage' = "loop" /\ UNCHANGED <<token, outcome>>
    \/ ~token /\ token' = TRUE /\ stage' = "loop" /\ UNCHANGED outcome
    \/ ~token /\ outcome' = "abandoned_cart" /\ stage' = "done" /\ UNCHANGED token

Begin ==
    /\ stage = "idle"
    /\ EnsureAuth
    /\ UNCHANGED <<cart, attempt, tally, orders, charges>>

\* The loop takes its next item.  A timeout injected before create_order is
\* no HTTPStatusError: it leaves pay.run and ends the session.
NextItem ==
    /\ stage = "loop" /\ Item <= Len(cart)
    /\ \/ cart[Item] = "synthetic" /\ Count("rejected")
       \/ cart[Item] = "real" /\ Send("create")
       \/ cart[Item] = "real" /\ stage' = "crashed" /\ UNCHANGED <<tally, attempt>>
    /\ UNCHANGED <<cart, token, outcome, orders, charges>>

\* The loop is over.
Purchased ==
    /\ stage = "loop" /\ Item > Len(cart)
    /\ outcome' = "purchased" /\ stage' = "done"
    /\ UNCHANGED <<cart, token, attempt, tally, orders, charges>>

\* A 2xx answer.  The request that follows may meet an injected timeout, that
\* pay_order reports as False and the status check as UNKNOWN.
Answered ==
    /\ stage \in Requests
    /\ Gateway(TRUE)
    /\ \/ stage = "create" /\ (Send("pay") \/ Count("rejected"))
       \/ stage = "pay" /\ (Send("status") \/ Count("confirmed"))
       \/ stage = "status" /\ (Count("confirmed") \/ Count("rejected"))
    /\ UNCHANGED <<cart, token, outcome>>

AlwaysLeft == TRUE

AttemptsLeft == attempt < MaxAttempts

SameAttempt == attempt

NextAttempt == attempt + 1

\* A timeout, a network error, a 429 or a 503, with attempts left.
Resend ==
    /\ stage \in Requests /\ AttemptsLeft
    /\ \E performed \in BOOLEAN : Gateway(performed)
    /\ attempt' = NextAttempt
    /\ UNCHANGED <<cart, token, outcome, stage, tally>>

FailedPaymentStands == IF stage = "create" THEN "rejected" ELSE "confirmed"

\* How an item is counted whose request failed: an unpaid order is rejected,
\* a paid one whose status is unknown is confirmed.
CountedAfterFailure == IF stage = "status" THEN "confirmed" ELSE "rejected"

\* An error status that is not retried, or not any more.
ErrorStatus ==
    /\ stage \in Requests
    /\ \E performed \in BOOLEAN : Gateway(performed)
    /\ Count(CountedAfterFailure)
    /\ UNCHANGED <<cart, token, outcome>>

\* The last attempt gets no answer, or one breaks in a way that is not retried
\* (httpx.RemoteProtocolError): create_order lets the exception through,
\* pay_order and the status check do not.
NoAnswer ==
    /\ stage \in Requests
    /\ \E performed \in BOOLEAN : Gateway(performed)
    /\ \/ stage = "create" /\ stage' = "crashed" /\ UNCHANGED <<tally, attempt>>
       \/ stage # "create" /\ Count(CountedAfterFailure)
    /\ UNCHANGED <<cart, token, outcome>>

CheckoutNext ==
    \/ Begin \/ NextItem \/ Purchased
    \/ Answered \/ Resend \/ ErrorStatus \/ NoAnswer

------------------------------------------------------------------------------
(* Properties *)

\* pay.py:43-47: an order counted as confirmed was charged at the gateway and
\* belongs to a real product; each item is counted once, in cart order, and all
\* of them once the purchase is over.
CountedAsCharged ==
    /\ \A i \in DOMAIN tally : tally[i] = "confirmed" =>
           cart[i] = "real" /\ orders[i] > 0 /\ charges[i] > 0
    /\ outcome = "purchased" => Len(tally) = Len(cart) /\ cart # <<>>

\* pay.py:93: however often a payment is retried, no item is charged twice.
ChargedOnce == \A i \in Items : charges[i] <= 1

\* pay.py:41, "1 por item do carrinho": no item is ordered twice.
OneOrderPerItem == \A i \in Items : orders[i] <= 1
==============================================================================
