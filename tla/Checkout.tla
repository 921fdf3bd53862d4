------------------------------- MODULE Checkout --------------------------------
(***************************************************************************)
(* Checkout (CheckoutService): the price of a purchase is built from the   *)
(* listing and the commission, kept on the order as a snapshot, and        *)
(* computed again from it by every privileged transition                   *)
(* (OrderStateMachine.recompute).  A request is a row of statements and    *)
(* two transactions; other requests, the seller and a crash come between.  *)
(*                                                                         *)
(* request-payment asks Stripe for a payment intent from inside its        *)
(* transaction, which may still roll back, and an order whose checkout has *)
(* died can be taken up by its buyer.  The later transitions are one step  *)
(* here: OrderEngine has their gateway calls, locks and timers.            *)
(***************************************************************************)
EXTENDS InstantPurchase, Pricing

CONSTANTS
  Users, Seller,  \* the users, and the author of the listing
  Orders,         \* the order ids that can be drawn: bounds the orders created
  Requests,       \* the requests that can be under way at the same time
  Keys,           \* the Idempotency-Key headers the clients send
  Quantities,     \* the quantities asked for
  Offers,         \* the states the seller gives the listing
  Fees,           \* the commission configurations
  None

ASSUME CheckoutAssumption ==
  /\ Quantities \subseteq Nat \ {0}
  /\ Offers \subseteq [published : BOOLEAN, price : Nat \cup {None},
                       pickup : BOOLEAN, shipping : Nat \cup {None}]
  /\ Fees \subseteq [provider : 0 .. Whole, customer : Nat]
  /\ None \notin Nat \cup Users \cup Keys \cup Orders

VARIABLES
  offer,   \* the Listing row
  fee,     \* the CommissionConfig row
  orders,  \* the Order rows, each with the amounts it made move
  intents, \* intents[o]: the payment intents Stripe has opened for order o
  req      \* req[r]: where request r stands

vars == <<offer, fee, orders, intents, req>>

-----------------------------------------------------------------------------
\* Of an order nobody has created.  `key` and `shown` are history: the header of the
\* request that created it, and the total that request answered.
Unused == [state |-> NoOrder, buyer |-> None, key |-> None, input |-> None,
           payin |-> 0, payout |-> 0, intent |-> None, transfer |-> None,
           refund |-> None, shown |-> None]

Idle == [pc |-> "idle", verb |-> "checkout", buyer |-> None, key |-> None,
         quantity |-> 0, listing |-> None, input |-> None, order |-> None]

Goto(r, pc) == req' = [req EXCEPT ![r].pc = pc]
Done(r) == req' = [req EXCEPT ![r] = Idle]

\* shipOneItemAmount ?? 0.
ShippingFee(listing) == IF listing.shipping = None THEN 0 ELSE listing.shipping

\* buildPriceInput: what of the listing and the commission goes into the price.
PriceInput(listing, f, quantity) ==
  [unit |-> listing.price, quantity |-> quantity,
   provider |-> f.provider, customer |-> f.customer,
   pickup |-> listing.pickup, shipping |-> ShippingFee(listing),
   discount |-> 0, tax |-> 0, taxFor |-> "customer", promo |-> 0]

\* Mutant: the price is computed from the listing and the commission of the moment.
RecomputedAnew(o) ==
  Compute([orders[o].input EXCEPT !.provider = fee.provider, !.customer = fee.customer])

\* recompute, from the snapshot.
Recomputed(o) == Compute(orders[o].input)

\* Mutant: an order stays in a state that is to be left at once.
MovedOnce(o, t) ==
  LET price == IF t.privileged THEN Recomputed(o) ELSE orders[o] IN
  [orders[o] EXCEPT
     !.state    = t.to,
     !.payin    = price.payin,
     !.payout   = price.payout,
     !.intent   = IF t.action = "create-payment-intent" THEN price.payin ELSE @,
     !.transfer = IF t.action = "payout" THEN price.payout ELSE @,
     !.refund   = IF t.action = "refund-full" THEN price.payin ELSE @]

\* executeWithin, as far as the amounts go.
Moved(o, t) ==
  LET price == IF t.privileged THEN Recomputed(o) ELSE orders[o] IN
  [orders[o] EXCEPT
     !.state    = IF t.to \in DOMAIN ImmediateNext THEN Named(ImmediateNext[t.to]).to ELSE t.to,
     !.payin    = price.payin,
     !.payout   = price.payout,
     !.intent   = IF t.action = "create-payment-intent" THEN price.payin ELSE @,
     !.transfer = IF t.action = "payout" THEN price.payout ELSE @,
     !.refund   = IF t.action = "refund-full" THEN price.payin ELSE @]

Apply(o, t) ==
  /\ orders[o].state \in t.from
  /\ orders' = [orders EXCEPT ![o] = Moved(o, t)]

-----------------------------------------------------------------------------
\* checkout reads the listing.  One that is not on sale or has no price is refused, which
\* changes nothing.  speculate reads and computes the same, and changes nothing at all.
Ask(r, b, k, q) ==
  /\ req[r].pc = "idle" /\ offer.published /\ offer.price # None
  /\ req' = [req EXCEPT ![r] = [Idle EXCEPT !.pc = "fee", !.buyer = b, !.key = k,
                                            !.quantity = q, !.listing = offer]]
  /\ UNCHANGED <<offer, fee, orders, intents>>

\* Then the commission.  Nobody buys a listing of their own.
ReadFee(r) ==
  /\ req[r].pc = "fee"
  /\ IF req[r].buyer = Seller
     THEN Done(r)
     ELSE req' = [req EXCEPT ![r] = [@ EXCEPT !.pc = "create", !.listing = None,
                    !.input = PriceInput(req[r].listing, fee, req[r].quantity)]]
  /\ UNCHANGED <<offer, fee, orders, intents>>

\* order.create: in initial, without totals, with the snapshot.
Create(r) ==
  /\ req[r].pc = "create"
  /\ \E o \in Orders :
       /\ orders[o] = Unused
       /\ orders' = [orders EXCEPT ![o] =
            [@ EXCEPT !.state = "initial", !.buyer = req[r].buyer, !.key = req[r].key,
                      !.input = req[r].input]]
       /\ req' = [req EXCEPT ![r].pc = "apply", ![r].order = o]
  /\ UNCHANGED <<offer, fee, intents>>

\* POST /orders/:id/transitions/request-payment.  Sent for an order that is not in
\* initial, or by somebody else, it is refused, which changes nothing.
Resume(r, o, b) ==
  /\ req[r].pc = "idle" /\ orders[o].state = "initial" /\ orders[o].buyer = b
  /\ req' = [req EXCEPT ![r] = [Idle EXCEPT !.pc = "apply", !.verb = "transition",
                                            !.buyer = b, !.order = o]]
  /\ UNCHANGED <<offer, fee, orders, intents>>

\* Mutant: every attempt is a payment of its own to Stripe.
KeyPerRequest(o, r) == <<o, r>>

\* pi_${orderId}.
IntentKey(o, r) == o

\* request-payment takes the row lock, finds the order in initial, computes its price
\* and asks Stripe for the intent.  Stripe answers a key it knows with the intent it has,
\* and refuses it with another amount.
OpenIntent(r) ==
  LET o == req[r].order
      intent == [key |-> IntentKey(o, r), amount |-> Recomputed(o).payin] IN
  /\ req[r].pc = "apply"
  /\ \A s \in Requests : req[s].pc = "opened" => req[s].order # o
  /\ orders[o].state \in Named("request-payment").from
  /\ \A i \in intents[o] : i.key = intent.key => i = intent
  /\ intents' = [intents EXCEPT ![o] = @ \cup {intent}]
  /\ Goto(r, "opened")
  /\ UNCHANGED <<offer, fee, orders>>

\* Then it writes the rows and commits.  Only checkout has more to do.
RequestPayment(r) ==
  /\ req[r].pc = "opened"
  /\ Apply(req[r].order, Named("request-payment"))
  /\ IF req[r].verb = "checkout" THEN Goto(r, "answer") ELSE Done(r)
  /\ UNCHANGED <<offer, fee, intents>>

\* The answer carries the breakdown that was computed before the order was created.
Answer(r) ==
  /\ req[r].pc = "answer"
  /\ orders' = [orders EXCEPT ![req[r].order].shown = Compute(req[r].input).payin]
  /\ Done(r)
  /\ UNCHANGED <<offer, fee, intents>>

\* confirm, by the buyer.
Confirm(o, b) ==
  /\ orders[o].buyer = b
  /\ Apply(o, Named("confirm-payment"))
  /\ UNCHANGED <<offer, fee, intents, req>>

\* Any transition but request-payment, by its endpoint or a timer.
Advance(o, t) ==
  /\ t.name # "request-payment"
  /\ Apply(o, t)
  /\ UNCHANGED <<offer, fee, intents, req>>

\* The process dies, or a statement fails.  What is not committed is rolled back; what
\* is, and what Stripe has done, stays.
Fail(r) ==
  /\ req[r].pc # "idle"
  /\ Done(r)
  /\ UNCHANGED <<offer, fee, orders, intents>>

\* The seller edits, publishes, closes or deletes the listing; the commission changes.
Edit(new) == offer' = new /\ offer' # offer /\ UNCHANGED <<fee, orders, intents, req>>
Reprice(new) == fee' = new /\ fee' # fee /\ UNCHANGED <<offer, orders, intents, req>>

-----------------------------------------------------------------------------
Init ==
  /\ offer \in Offers /\ fee \in Fees
  /\ orders = [o \in Orders |-> Unused]
  /\ intents = [o \in Orders |-> {}]
  /\ req = [r \in Requests |-> Idle]

Step(r) ==
  \/ ReadFee(r) \/ Create(r) \/ OpenIntent(r) \/ RequestPayment(r) \/ Answer(r)
  \/ Fail(r)

Next ==
  \/ \E r \in Requests :
       \/ Step(r)
       \/ \E b \in Users, k \in Keys, q \in Quantities : Ask(r, b, k, q)
       \/ \E o \in Orders, b \in Users : Resume(r, o, b)
  \/ \E o \in Orders :
       \/ \E b \in Users : Confirm(o, b)
       \/ \E t \in Transitions : Advance(o, t)
  \/ \E new \in Offers : Edit(new)
  \/ \E new \in Fees : Reprice(new)

Spec == Init /\ [][Next]_vars

-----------------------------------------------------------------------------
(* Properties. *)

Inputs == [unit : Nat, quantity : Quantities,
           provider : 0 .. Whole, customer : Nat, pickup : BOOLEAN, shipping : Nat,
           discount : {0}, tax : {0}, taxFor : {"customer"}, promo : {0}]
Amounts == Int \cup {None}

TypeOK ==
  /\ offer \in Offers /\ fee \in Fees
  /\ orders \in [Orders ->
       [state : States \cup {NoOrder}, buyer : Users \cup {None}, key : Keys \cup {None},
        input : Inputs \cup {None}, payin : Int, payout : Int, intent : Amounts,
        transfer : Amounts, refund : Amounts, shown : Amounts]]
  /\ intents \in [Orders -> SUBSET [key : Orders, amount : Int]]
  /\ req \in [Requests ->
       [pc : {"idle", "fee", "create", "apply", "opened", "answer"},
        verb : {"checkout", "transition"},
        buyer : Users \cup {None}, key : Keys \cup {None}, quantity : Nat,
        listing : Offers \cup {None}, input : Inputs \cup {None},
        order : Orders \cup {None}]]

\* One price from the answer to the last transfer: the total a checkout answers, the
\* payment intent it opened, the totals the capture records, the refund and the
\* transfer to the seller are all of the snapshot's breakdown, although the listing
\* and the commission change meanwhile and the price is computed three times.
OnePrice ==
  \A o \in Orders : orders[o].state \notin {NoOrder, "initial"} =>
    LET price == Compute(orders[o].input) IN
    /\ orders[o].payin = price.payin /\ orders[o].payout = price.payout
    /\ orders[o].intent = price.payin
    /\ orders[o].shown \in {None, price.payin}
    /\ orders[o].refund \in {None, price.payin}
    /\ orders[o].transfer \in {None, price.payout}

\* Rounding line by line never tips the balance: the seller keeps the shipping whole,
\* the platform does not pay for an order, and each commission is within half a minor
\* unit of its percentage of the items.
OffBy(line, base, percent) == 2 * (Whole * line - base * percent)
FairSplit ==
  \A o \in Orders : orders[o].state \notin {NoOrder, "initial"} =>
    LET in == orders[o].input
        L  == LineItems(in)
        base == Subtotal(in) IN
    /\ orders[o].payout >= L.shipping.amount
    /\ orders[o].payin >= orders[o].payout
    /\ OffBy(L.customer_commission.amount, base, in.customer) \in -Whole .. Whole
    /\ OffBy(-L.provider_commission.amount, base, in.provider) \in -Whole .. Whole

\* A checkout may die after it has created the order, or after Stripe has opened the
\* intent and before the transaction commits, and the buyer may take the order up again,
\* twice at once, when listing and commission have changed: there is never a second
\* intent for an order, the intent is of the price in the snapshot, and an order whose
\* row says there is one has it.
OneIntent ==
  \A o \in Orders :
    /\ \A i, j \in intents[o] : i = j
    /\ \A i \in intents[o] : i.amount = Compute(orders[o].input).payin
    /\ orders[o].intent # None => \E i \in intents[o] : i.amount = orders[o].intent

\* Whatever requests, crashes, the seller and the commission do, an order moves as
\* OrderLifecycle has it: it is placed once, leaves by a party's request or the timer of its
\* state, is refunded at most once, and nobody is paid for a state that is not reached.
Lifecycle == INSTANCE OrderLifecycle WITH
  Requesters <- Actors \ {"system"},
  state      <- [o \in Orders |-> orders[o].state],
  live       <- [o \in Orders |-> {orders[o].state} \cap TimedStates],
  released   <- [o \in Orders |-> orders[o].transfer # None],
  refunds    <- [o \in Orders |-> IF orders[o].refund = None THEN 0 ELSE 1]
KeepsLifecycle == Lifecycle!Spec

-----------------------------------------------------------------------------
(* What the documentation of the code says, and TLC refutes. *)

\* checkout.controller.ts:126 and idempotency.service.ts:13 - a key that is replayed
\* gets the stored response: two answers to one key name one order.
ReplayIsOneOrder ==
  \A o, p \in Orders :
    orders[o].shown # None /\ orders[p].shown # None /\ orders[o].key = orders[p].key
      => o = p
=============================================================================
