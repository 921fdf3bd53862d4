---------------------------- MODULE CheckoutProofs -----------------------------
(***************************************************************************)
(* Checkout for any number of users, orders, requests and offers: one      *)
(* price per order, a fair split of it, and one payment intent.            *)
(***************************************************************************)
EXTENDS Checkout, TLAPS

-----------------------------------------------------------------------------
(* The price. *)

\* Rounding is off by at most half a unit, and rounds no percentage of up to 100 beyond
\* its base.
LEMMA HalfUpRounds ==
  ASSUME NEW n \in Nat
  PROVE  /\ HalfUp(n) \in Nat
         /\ 2 * (Whole * HalfUp(n) - n) \in -Whole .. Whole
         /\ \A b \in Nat : n <= Whole * b => HalfUp(n) <= b
  BY DEF HalfUp, Whole

\* A commission of a base that is not negative.
LEMMA PercentageRounds ==
  ASSUME NEW base \in Nat, NEW percent \in Nat
  PROVE  /\ Percentage(base, percent) \in Nat
         /\ OffBy(Percentage(base, percent), base, percent) \in -Whole .. Whole
         /\ percent <= Whole => Percentage(base, percent) <= base
<1>1. base * percent \in Nat
  OBVIOUS
<1>2. percent <= Whole => base * percent <= Whole * base
  BY DEF Whole
<1> QED
  BY <1>1, <1>2, HalfUpRounds DEF Percentage, OffBy

\* What checkout puts into the price.
LEMMA InputFields ==
  ASSUME NEW in \in Inputs
  PROVE  /\ in.unit \in Nat /\ in.quantity \in Nat /\ in.shipping \in Nat
         /\ in.provider \in Nat /\ in.provider <= Whole /\ in.customer \in Nat
         /\ in.pickup \in BOOLEAN
         /\ in.discount = 0 /\ in.tax = 0 /\ in.promo = 0 /\ in.taxFor = "customer"
<1>1. /\ in.unit \in Nat /\ in.quantity \in Quantities /\ in.shipping \in Nat
      /\ in.provider \in 0 .. Whole /\ in.customer \in Nat
  BY DEF Inputs
<1>2. in.pickup \in BOOLEAN
  BY DEF Inputs
<1>3. in.discount \in {0} /\ in.tax \in {0} /\ in.promo \in {0} /\ in.taxFor \in {"customer"}
  BY DEF Inputs
<1>4. in.quantity \in Nat
  BY <1>1, CheckoutAssumption
<1>5. in.provider \in Nat /\ in.provider <= Whole
  <2>1. \A i \in 0 .. Whole : i \in Nat /\ i <= Whole
    BY DEF Whole
  <2> QED
    BY <1>1, <2>1
<1> QED
  BY <1>1, <1>2, <1>3, <1>4, <1>5

\* The amounts of the lines that checkout's inputs give.
LEMMA LinesOfInputs ==
  ASSUME NEW in \in Inputs
  PROVE  /\ Subtotal(in) \in Nat
         /\ LineItems(in).item.amount = Subtotal(in)
         /\ LineItems(in).shipping.amount \in Nat
         /\ LineItems(in).provider_commission.amount = -Percentage(Subtotal(in), in.provider)
         /\ LineItems(in).customer_commission.amount = Percentage(Subtotal(in), in.customer)
         /\ Compute(in).payin = Subtotal(in) + LineItems(in).shipping.amount
                                + Percentage(Subtotal(in), in.customer)
         /\ Compute(in).payout = Subtotal(in) + LineItems(in).shipping.amount
                                 - Percentage(Subtotal(in), in.provider)
<1>1. /\ in.unit \in Nat /\ in.quantity \in Nat /\ in.provider \in Nat /\ in.customer \in Nat
      /\ in.shipping \in Nat /\ in.pickup \in BOOLEAN
      /\ in.discount = 0 /\ in.tax = 0 /\ in.promo = 0 /\ in.taxFor = "customer"
  BY InputFields
<1>2. Subtotal(in) \in Nat
  BY <1>1 DEF Subtotal
<1>3. /\ Percentage(Subtotal(in), in.provider) \in Nat
      /\ Percentage(Subtotal(in), in.customer) \in Nat
  BY <1>1, <1>2, PercentageRounds
<1>4. LineItems(in).shipping.amount \in Nat
  BY <1>1 DEF LineItems, Line
<1>5. /\ LineItems(in).item = Line(Subtotal(in), TRUE, TRUE)
      /\ LineItems(in).shipping = Line(LineItems(in).shipping.amount, TRUE, TRUE)
      /\ LineItems(in).discount = Line(0, TRUE, TRUE)
      /\ LineItems(in).provider_commission
           = Line(-Percentage(Subtotal(in), in.provider), FALSE, TRUE)
      /\ LineItems(in).customer_commission
           = Line(Percentage(Subtotal(in), in.customer), TRUE, FALSE)
      /\ LineItems(in).sales_tax = Line(0, TRUE, FALSE)
      /\ LineItems(in).promo = Line(0, TRUE, FALSE)
  <2>0. -in.discount = 0 /\ -in.promo = 0
    <3>1. \A i \in Int : i = 0 => -i \in Int /\ -i <= 0 /\ -i >= 0
      OBVIOUS
    <3>2. \A i \in Int : i <= 0 /\ i >= 0 => i = 0
      OBVIOUS
    <3>3. in.discount \in Int /\ in.promo \in Int
      BY <1>1
    <3> QED
      BY <1>1, <3>1, <3>2, <3>3, Zenon
  <2>1. LineItems(in).item = Line(Subtotal(in), TRUE, TRUE)
    BY DEF LineItems
  <2>2. LineItems(in).shipping = Line(LineItems(in).shipping.amount, TRUE, TRUE)
    BY DEF LineItems, Line
  <2>3. LineItems(in).discount = Line(0, TRUE, TRUE)
    BY <2>0 DEF LineItems
  <2>4. LineItems(in).provider_commission
          = Line(-Percentage(Subtotal(in), in.provider), FALSE, TRUE)
    BY DEF LineItems, CommissionBase
  <2>5. LineItems(in).customer_commission
          = Line(Percentage(Subtotal(in), in.customer), TRUE, FALSE)
    BY DEF LineItems, CommissionBase
  <2>6. LineItems(in).sales_tax = Line(0, TRUE, FALSE)
    BY <1>1 DEF LineItems, Line
  <2>7. LineItems(in).promo = Line(0, TRUE, FALSE)
    BY <2>0 DEF LineItems
  <2> QED
    BY <2>1, <2>2, <2>3, <2>4, <2>5, <2>6, <2>7
<1>6. Payin(LineItems(in)) = Subtotal(in) + LineItems(in).shipping.amount
                             + Percentage(Subtotal(in), in.customer)
  BY <1>2, <1>3, <1>4, <1>5 DEF Payin, Counted, Line
<1>7. Payout(LineItems(in)) = Subtotal(in) + LineItems(in).shipping.amount
                              - Percentage(Subtotal(in), in.provider)
  BY <1>2, <1>3, <1>4, <1>5 DEF Payout, Counted, Line
<1>8. LineItems(in).item.amount = Subtotal(in)
  BY <1>5 DEF Line
<1>9. /\ LineItems(in).provider_commission.amount = -Percentage(Subtotal(in), in.provider)
      /\ LineItems(in).customer_commission.amount = Percentage(Subtotal(in), in.customer)
  BY <1>5 DEF Line
<1>10. Compute(in).payin = Payin(LineItems(in)) /\ Compute(in).payout = Payout(LineItems(in))
  BY DEF Compute
<1> QED
  BY <1>2, <1>4, <1>6, <1>7, <1>8, <1>9, <1>10

\* The split of one price.
LEMMA SplitIsFair ==
  ASSUME NEW in \in Inputs
  PROVE  /\ Compute(in).payin \in Int /\ Compute(in).payout \in Int
         /\ Compute(in).payout >= LineItems(in).shipping.amount
         /\ Compute(in).payin >= Compute(in).payout
         /\ OffBy(LineItems(in).customer_commission.amount, Subtotal(in), in.customer)
              \in -Whole .. Whole
         /\ OffBy(-LineItems(in).provider_commission.amount, Subtotal(in), in.provider)
              \in -Whole .. Whole
<1>1. in.provider \in Nat /\ in.provider <= Whole /\ in.customer \in Nat
  BY InputFields
<1>2. /\ Percentage(Subtotal(in), in.provider) \in Nat
      /\ Percentage(Subtotal(in), in.provider) <= Subtotal(in)
      /\ Percentage(Subtotal(in), in.customer) \in Nat
      /\ OffBy(Percentage(Subtotal(in), in.provider), Subtotal(in), in.provider)
           \in -Whole .. Whole
      /\ OffBy(Percentage(Subtotal(in), in.customer), Subtotal(in), in.customer)
           \in -Whole .. Whole
  BY <1>1, LinesOfInputs, PercentageRounds
<1>3. -LineItems(in).provider_commission.amount = Percentage(Subtotal(in), in.provider)
  BY <1>2, LinesOfInputs
<1>4. /\ Compute(in).payin \in Int /\ Compute(in).payout \in Int
      /\ Compute(in).payout >= LineItems(in).shipping.amount
      /\ Compute(in).payin >= Compute(in).payout
  BY <1>2, LinesOfInputs
<1> QED
  BY <1>2, <1>3, <1>4, LinesOfInputs

\* Any price the service can be asked for, with discounts, taxes and promotions that
\* checkout never passes.
Prices == [unit : Nat, quantity : Nat, provider : Nat, customer : Nat, pickup : BOOLEAN,
           shipping : Nat, discount : Nat, tax : Nat, taxFor : {"customer", "provider"},
           promo : Nat]

\* Of every price (PricingService.compute) the platform keeps the two commissions and the
\* tax, whichever side it is charged to, less the promotion; discounts and shipping are
\* between buyer and seller.
THEOREM MarginIsCommissions ==
  ASSUME NEW in \in Prices
  PROVE  /\ Compute(in).payin = Compute(in).payout + Compute(in).margin
         /\ Compute(in).margin = Percentage(Subtotal(in), in.provider)
              + Percentage(Subtotal(in), in.customer) + in.tax - in.promo
<1> DEFINE L == LineItems(in)
           a == Percentage(Subtotal(in), in.provider)
           b == Percentage(Subtotal(in), in.customer)
           delivery == IF in.pickup THEN 0 ELSE in.shipping
<1>1. /\ in.unit \in Nat /\ in.quantity \in Nat /\ in.provider \in Nat /\ in.customer \in Nat
      /\ in.shipping \in Nat /\ in.discount \in Nat /\ in.tax \in Nat /\ in.promo \in Nat
      /\ in.taxFor \in {"customer", "provider"}
  BY DEF Prices
<1>2. Subtotal(in) \in Nat
  BY <1>1 DEF Subtotal
<1>3. a \in Nat /\ b \in Nat
  BY <1>1, <1>2, PercentageRounds
<1>4. delivery \in Nat
  BY <1>1
<1>5. /\ L.item = Line(Subtotal(in), TRUE, TRUE) /\ L.shipping = Line(delivery, TRUE, TRUE)
      /\ L.discount = Line(-in.discount, TRUE, TRUE)
      /\ L.provider_commission = Line(-a, FALSE, TRUE)
      /\ L.customer_commission = Line(b, TRUE, FALSE)
      /\ L.promo = Line(-in.promo, TRUE, FALSE)
  BY DEF LineItems, CommissionBase
<1>6. L.sales_tax = IF in.taxFor = "provider" THEN Line(-in.tax, FALSE, TRUE)
                    ELSE Line(in.tax, TRUE, FALSE)
  BY DEF LineItems
<1>7. Compute(in).payin = Payin(L) /\ Compute(in).payout = Payout(L)
      /\ Compute(in).margin = Payin(L) - Payout(L)
  BY DEF Compute
<1> HIDE DEF L, a, b, delivery
<1>8. Payin(L) = Subtotal(in) + delivery - in.discount + b - in.promo
                 + (IF in.taxFor = "provider" THEN 0 ELSE in.tax)
  BY <1>1, <1>2, <1>3, <1>4, <1>5, <1>6 DEF Payin, Counted, Line
<1>9. Payout(L) = Subtotal(in) + delivery - in.discount - a
                  - (IF in.taxFor = "provider" THEN in.tax ELSE 0)
  BY <1>1, <1>2, <1>3, <1>4, <1>5, <1>6 DEF Payout, Counted, Line
<1>10. /\ Payin(L) = Payout(L) + (Payin(L) - Payout(L))
       /\ Payin(L) - Payout(L) = a + b + in.tax - in.promo
  BY <1>1, <1>2, <1>3, <1>4, <1>8, <1>9
<1> QED
  BY <1>7, <1>10 DEF a, b

-----------------------------------------------------------------------------
(* The inductive invariant. *)

OrderRows ==
  [state : States \cup {NoOrder}, buyer : Users \cup {None}, key : Keys \cup {None},
   input : Inputs \cup {None}, payin : Int, payout : Int, intent : Amounts,
   transfer : Amounts, refund : Amounts, shown : Amounts]

RequestRows ==
  [pc : {"idle", "fee", "create", "apply", "opened", "answer"},
   verb : {"checkout", "transition"},
   buyer : Users \cup {None}, key : Keys \cup {None}, quantity : Nat,
   listing : Offers \cup {None}, input : Inputs \cup {None}, order : Orders \cup {None}]

IntentRows == [Orders -> SUBSET [key : Orders, amount : Int]]

Begun(x) == x.state \notin {NoOrder, "initial"}

\* What OnePrice says of one order.
Priced(x) ==
  LET price == Compute(x.input) IN
  /\ x.payin = price.payin /\ x.payout = price.payout /\ x.intent = price.payin
  /\ x.shown \in {None, price.payin}
  /\ x.refund \in {None, price.payin} /\ x.transfer \in {None, price.payout}

\* An order that exists has its snapshot, and no money before its first transition.
SoundOrder(x) ==
  /\ x.state # NoOrder => x.input \in Inputs
  /\ x.state = "initial" => /\ x.intent = None /\ x.shown = None
                            /\ x.refund = None /\ x.transfer = None
  /\ Begun(x) => Priced(x)

\* A checkout knows the snapshot of the order it created; a request that applies a
\* transition has an order.
SoundRequest(table, q) ==
  /\ q.pc = "fee" => /\ q.quantity \in Quantities
                     /\ q.listing \in Offers /\ q.listing.price # None
  /\ q.pc \in {"create", "answer"} => q.input \in Inputs
  /\ q.pc \in {"apply", "opened", "answer"} =>
       /\ q.order \in Orders /\ table[q.order].state # NoOrder
       /\ q.verb = "checkout" => q.input \in Inputs /\ table[q.order].input = q.input
  /\ q.pc = "answer" => table[q.order].state # "initial" /\ q.verb = "checkout"

IInv ==
  /\ TypeOK
  /\ \A o \in Orders : SoundOrder(orders[o])
  /\ \A r \in Requests : SoundRequest(orders, req[r])

\* The marks for "nothing here" are none of the values.
LEMMA NonesApart ==
  /\ None \notin Orders /\ None \notin Nat
  /\ NoOrder \notin States /\ NoOrder # "initial"
  BY CheckoutAssumption DEF NoOrder, States

\* The type invariant, table by table.
LEMMA TypeRows ==
  TypeOK <=> /\ offer \in Offers /\ fee \in Fees
             /\ orders \in [Orders -> OrderRows] /\ req \in [Requests -> RequestRows]
             /\ intents \in IntentRows
  BY DEF TypeOK, OrderRows, RequestRows, IntentRows

\* The transitions that open the payment intent or start at initial are one.
LEMMA FirstTransition ==
  ASSUME NEW t \in Transitions
  PROVE  /\ "initial" \in t.from <=> t.action = "create-payment-intent"
         /\ NoOrder \notin t.from
         /\ t.action = "create-payment-intent" => t.privileged /\ t.from = {"initial"}
         /\ "initial" \in t.from => t.name = "request-payment"
  BY DEF Transitions, TransitionDef, NoOrder

\* The two transitions that checkout applies, and the states they start at.
LEMMA NamedHere ==
  /\ Named("request-payment") \in Transitions
  /\ Named("request-payment").from = {"initial"}
  /\ Named("confirm-payment") \in Transitions
  /\ Named("confirm-payment").from = {"pending-payment"}
  /\ Named("confirm-payment").name = "confirm-payment"
<1>1. \E t \in Transitions : t.name = "request-payment"
  BY DEF Transitions, TransitionDef
<1>2. \E t \in Transitions : t.name = "confirm-payment"
  BY DEF Transitions, TransitionDef
<1>3. /\ Named("request-payment") \in Transitions
      /\ Named("request-payment").name = "request-payment"
      /\ Named("confirm-payment") \in Transitions
      /\ Named("confirm-payment").name = "confirm-payment"
  BY <1>1, <1>2 DEF Named
<1>4. \A t \in Transitions : /\ t.name = "request-payment" => t.from = {"initial"}
                             /\ t.name = "confirm-payment" => t.from = {"pending-payment"}
  BY DEF Transitions, TransitionDef
<1> QED
  BY <1>3, <1>4

\* The state a transition leaves an order in.
Entered(t) == IF t.to \in DOMAIN ImmediateNext THEN Named(ImmediateNext[t.to]).to ELSE t.to

\* No transition brings an order back to initial.
LEMMA EnteredIsBegun ==
  ASSUME NEW t \in Transitions
  PROVE  Entered(t) \in States /\ Entered(t) \notin {NoOrder, "initial"}
<1>1. CASE t.to \in DOMAIN ImmediateNext
  <2>1. ImmediateNext[t.to] = "mark-completed"
    BY <1>1 DEF ImmediateNext
  <2>2. \E u \in Transitions : u.name = "mark-completed"
    BY DEF Transitions, TransitionDef
  <2>3. Named("mark-completed") \in Transitions /\ Named("mark-completed").name = "mark-completed"
    BY <2>2 DEF Named
  <2>4. \A u \in Transitions : u.name = "mark-completed" => u.to = "completed"
    BY DEF Transitions, TransitionDef
  <2>5. Entered(t) = "completed"
    BY <1>1, <2>1, <2>3, <2>4 DEF Entered
  <2> QED
    BY <2>5 DEF States, NoOrder
<1>2. CASE t.to \notin DOMAIN ImmediateNext
  <2>1. Entered(t) = t.to
    BY <1>2 DEF Entered
  <2>2. t.to \in States
    BY DEF Transitions, TransitionDef, States
  <2>3. t.to # "initial"
    BY DEF Transitions, TransitionDef
  <2> QED
    BY <2>1, <2>2, <2>3, NonesApart
<1> QED
  BY <1>1, <1>2

\* A transition of an order whose row is sound.
LEMMA MovedIsSound ==
  ASSUME NEW o \in Orders, NEW t \in Transitions, TypeOK,
         SoundOrder(orders[o]), orders[o].state \in t.from
  PROVE  /\ Moved(o, t) \in OrderRows
         /\ Begun(Moved(o, t)) /\ SoundOrder(Moved(o, t))
         /\ Moved(o, t).input = orders[o].input /\ orders[o].state # NoOrder
<1> DEFINE x == orders[o]  m == Moved(o, t)  p == Compute(x.input)
<1>0. x \in OrderRows
  BY TypeRows
<1>1. x.state # NoOrder /\ x.input \in Inputs
  BY FirstTransition DEF SoundOrder
<1>2. p.payin \in Int /\ p.payout \in Int
  BY <1>1, SplitIsFair
<1>3. CASE x.state = "initial"
  <2>1. t.privileged /\ t.action = "create-payment-intent"
    BY <1>3, FirstTransition
  <2>2. m = [x EXCEPT !.state = Entered(t), !.payin = p.payin, !.payout = p.payout,
                      !.intent = p.payin, !.transfer = x.transfer, !.refund = x.refund]
    BY <2>1 DEF Moved, Recomputed, Entered
  <2>3. m.input = x.input /\ m.state = Entered(t)
    BY <2>2, <1>0 DEF OrderRows
  <2>4. m \in OrderRows
    BY <2>2, <1>0, <1>2, EnteredIsBegun DEF OrderRows, Amounts
  <2>5. Priced(m)
    BY <2>2, <1>0, <1>3 DEF OrderRows, Priced, SoundOrder
  <2> QED
    BY <1>1, <2>3, <2>4, <2>5, EnteredIsBegun DEF SoundOrder, Begun
<1>4. CASE x.state # "initial"
  <2>1. Priced(x)
    BY <1>1, <1>4 DEF SoundOrder, Begun
  <2>2. t.action # "create-payment-intent"
    BY <1>4, FirstTransition
  <2>3. m = [x EXCEPT !.state = Entered(t), !.payin = p.payin, !.payout = p.payout,
               !.intent = x.intent,
               !.transfer = IF t.action = "payout" THEN p.payout ELSE x.transfer,
               !.refund = IF t.action = "refund-full" THEN p.payin ELSE x.refund]
    BY <2>1, <2>2 DEF Moved, Recomputed, Entered, Priced
  <2>4. m.input = x.input /\ m.state = Entered(t)
    BY <2>3, <1>0 DEF OrderRows
  <2>5. m \in OrderRows
    <3> DEFINE tr == IF t.action = "payout" THEN p.payout ELSE x.transfer
               re == IF t.action = "refund-full" THEN p.payin ELSE x.refund
    <3>1. x.transfer \in Amounts /\ x.refund \in Amounts /\ x.intent \in Amounts
      BY <1>0 DEF OrderRows
    <3>2. tr \in Amounts /\ re \in Amounts
      BY <3>1, <1>2 DEF Amounts
    <3> HIDE DEF tr, re, p
    <3>3. m = [x EXCEPT !.state = Entered(t), !.payin = p.payin, !.payout = p.payout,
                        !.intent = x.intent, !.transfer = tr, !.refund = re]
      BY <2>3 DEF tr, re, p
    <3> QED
      BY <3>1, <3>2, <3>3, <1>0, <1>2, EnteredIsBegun DEF OrderRows, p
  <2>6. Priced(m)
    BY <2>3, <2>1, <1>0 DEF OrderRows, Priced
  <2> QED
    BY <1>1, <2>4, <2>5, <2>6, EnteredIsBegun DEF SoundOrder, Begun
<1> QED
  BY <1>3, <1>4

-----------------------------------------------------------------------------
(* Its steps. *)

\* The other requests do not notice a request that moves on its own.
LEMMA OwnStep ==
  ASSUME IInv, NEW r \in Requests, NEW q \in RequestRows, SoundRequest(orders, q),
         req' = [req EXCEPT ![r] = q], offer' \in Offers, fee' \in Fees, orders' = orders,
         intents' \in IntentRows
  PROVE  IInv'
<1>1. TypeOK'
  BY TypeRows DEF IInv, TypeOK, OrderRows, RequestRows, IntentRows
<1>2. \A o \in Orders : SoundOrder(orders'[o])
  BY DEF IInv
<1>3. ASSUME NEW s \in Requests PROVE SoundRequest(orders', req'[s])
  <2>1. req'[s] = IF s = r THEN q ELSE req[s]
    BY TypeRows DEF IInv
  <2> QED
    BY <2>1 DEF IInv
<1> QED
  BY <1>1, <1>2, <1>3 DEF IInv, SoundOrder, Begun, Priced

\* One order moves and keeps its snapshot; the requests stay sound.
LEMMA OrderStep ==
  ASSUME IInv, NEW o \in Orders, NEW m \in OrderRows, SoundOrder(m),
         orders[o].state # NoOrder => m.input = orders[o].input /\ m.state # NoOrder,
         orders[o].state \notin {NoOrder, "initial"} => m.state # "initial",
         orders' = [orders EXCEPT ![o] = m]
  PROVE  /\ orders' \in [Orders -> OrderRows]
         /\ \A p \in Orders : SoundOrder(orders'[p])
         /\ \A q \in RequestRows : SoundRequest(orders, q) => SoundRequest(orders', q)
<1>1. orders \in [Orders -> OrderRows]
  BY TypeRows DEF IInv
<1>2. \A p \in Orders : orders'[p] = IF p = o THEN m ELSE orders[p]
  BY <1>1
<1>3. orders' \in [Orders -> OrderRows]
  BY <1>1
<1>4. \A p \in Orders : SoundOrder(orders'[p])
  BY <1>2 DEF IInv
<1>5. ASSUME NEW q \in RequestRows, SoundRequest(orders, q) PROVE SoundRequest(orders', q)
  <2>1. q.pc \in {"apply", "opened", "answer"} =>
          /\ q.order \in Orders /\ orders'[q.order].state # NoOrder
          /\ q.verb = "checkout" => q.input \in Inputs /\ orders'[q.order].input = q.input
    BY <1>2, <1>5 DEF SoundRequest
  <2>2. q.pc = "answer" => orders'[q.order].state # "initial" /\ q.verb = "checkout"
    BY <1>2, <1>5 DEF SoundRequest
  <2> QED
    BY <2>1, <2>2, <1>5 DEF SoundRequest
<1> QED
  BY <1>3, <1>4, <1>5

\* An order moves, and no request.
LEMMA TransitionStep ==
  ASSUME IInv, NEW o \in Orders, NEW t \in Transitions, Apply(o, t),
         UNCHANGED <<offer, fee, intents, req>>
  PROVE  IInv'
<1>1. SoundOrder(orders[o]) /\ TypeOK /\ orders[o].state \in t.from
  BY DEF IInv, Apply
<1>2. /\ Moved(o, t) \in OrderRows
      /\ Begun(Moved(o, t)) /\ SoundOrder(Moved(o, t))
      /\ Moved(o, t).input = orders[o].input
  BY <1>1, MovedIsSound
<1>3. /\ orders' \in [Orders -> OrderRows]
      /\ \A p \in Orders : SoundOrder(orders'[p])
      /\ \A q \in RequestRows : SoundRequest(orders, q) => SoundRequest(orders', q)
  BY <1>2, OrderStep DEF Apply, Begun
<1>4. TypeOK'
  BY <1>1, <1>3, TypeRows DEF TypeOK, OrderRows, RequestRows, IntentRows
<1>5. \A r \in Requests : SoundRequest(orders', req'[r])
  <2> SUFFICES ASSUME NEW r \in Requests PROVE SoundRequest(orders', req'[r])
    OBVIOUS
  <2>1. req[r] \in RequestRows /\ SoundRequest(orders, req[r]) /\ req'[r] = req[r]
    BY TypeRows DEF IInv
  <2> QED
    BY <2>1, <1>3
<1> QED
  BY <1>3, <1>4, <1>5 DEF IInv, SoundOrder, Begun, Priced

\* An order and a request move together.
LEMMA PairStep ==
  ASSUME IInv, NEW o \in Orders, NEW m \in OrderRows, SoundOrder(m),
         orders[o].state # NoOrder => m.input = orders[o].input /\ m.state # NoOrder,
         orders[o].state \notin {NoOrder, "initial"} => m.state # "initial",
         orders' = [orders EXCEPT ![o] = m],
         NEW r \in Requests, NEW q \in RequestRows, SoundRequest(orders', q),
         req' = [req EXCEPT ![r] = q], UNCHANGED <<offer, fee, intents>>
  PROVE  IInv'
<1>1. /\ orders' \in [Orders -> OrderRows]
      /\ \A p \in Orders : SoundOrder(orders'[p])
      /\ \A u \in RequestRows : SoundRequest(orders, u) => SoundRequest(orders', u)
  BY OrderStep
<1>2. req \in [Requests -> RequestRows] /\ req' \in [Requests -> RequestRows]
  BY TypeRows DEF IInv
<1>3. TypeOK'
  BY <1>1, <1>2, TypeRows DEF IInv, TypeOK, OrderRows, RequestRows, IntentRows
<1>4. ASSUME NEW s \in Requests PROVE SoundRequest(orders', req'[s])
  <2>1. CASE s = r
    BY <2>1, <1>2
  <2>2. CASE s # r
    <3>1. req'[s] = req[s] /\ req[s] \in RequestRows /\ SoundRequest(orders, req[s])
      BY <2>2, <1>2 DEF IInv
    <3> QED
      BY <3>1, <1>1
  <2> QED
    BY <2>1, <2>2
<1> QED
  BY <1>1, <1>3, <1>4 DEF IInv, SoundOrder, Begun, Priced

\* A request that asks for nothing is sound.
LEMMA IdleIsSound == Idle \in RequestRows /\ SoundRequest(orders, Idle)
  BY DEF Idle, RequestRows, SoundRequest

\* What a request computes its price from.
LEMMA InputOfOffer ==
  ASSUME NEW listing \in Offers, listing.price # None, NEW f \in Fees, NEW n \in Quantities
  PROVE  PriceInput(listing, f, n) \in Inputs
<1>1. listing.price \in Nat /\ listing.pickup \in BOOLEAN /\ listing.shipping \in Nat \cup {None}
  BY CheckoutAssumption
<1>2. ShippingFee(listing) \in Nat
  BY <1>1 DEF ShippingFee
<1>3. f.provider \in 0 .. Whole /\ f.customer \in Nat
  BY CheckoutAssumption
<1> QED
  BY <1>1, <1>2, <1>3 DEF PriceInput, Inputs

\* An order that does not exist is sound.
LEMMA UnusedIsSound == Unused \in OrderRows /\ SoundOrder(Unused)
  BY NonesApart DEF Unused, OrderRows, Amounts, SoundOrder, Begun

\* No orders and no requests: the invariant holds at the start.
LEMMA InitIsSound == Init => IInv
<1> SUFFICES ASSUME Init PROVE IInv
  OBVIOUS
<1>1. Unused \in OrderRows /\ SoundOrder(Unused)
  BY UnusedIsSound
<1>2. /\ orders \in [Orders -> OrderRows] /\ req \in [Requests -> RequestRows]
      /\ \A o \in Orders : SoundOrder(orders[o])
      /\ \A r \in Requests : SoundRequest(orders, req[r])
      /\ intents \in IntentRows
  BY <1>1, IdleIsSound DEF Init, IntentRows
<1> QED
  BY <1>2, TypeRows DEF Init, IInv

\* A request arrives and reads the listing.
LEMMA AskIsSound ==
  ASSUME IInv, NEW r \in Requests, NEW b \in Users, NEW k \in Keys, NEW n \in Quantities,
         Ask(r, b, k, n)
  PROVE  IInv'
<1> DEFINE q == [Idle EXCEPT !.pc = "fee", !.buyer = b, !.key = k,
                             !.quantity = n, !.listing = offer]
<1>1. offer \in Offers /\ fee \in Fees /\ intents \in IntentRows
  BY TypeRows DEF IInv
<1>2. n \in Nat
  BY CheckoutAssumption
<1>3. q \in RequestRows
  BY <1>1, <1>2 DEF Idle, RequestRows
<1>4. q.pc = "fee" /\ q.quantity = n /\ q.listing = offer
  BY DEF Idle
<1>5. SoundRequest(orders, q)
  BY <1>1, <1>4 DEF Ask, SoundRequest
<1>6. req' = [req EXCEPT ![r] = q] /\ UNCHANGED <<offer, fee, orders, intents>>
  BY DEF Ask
<1> HIDE DEF q
<1> QED
  BY <1>1, <1>3, <1>5, <1>6, OwnStep

\* A request reads the commissions and computes its price.
LEMMA ReadFeeIsSound ==
  ASSUME IInv, NEW r \in Requests, ReadFee(r)
  PROVE  IInv'
<1>0. /\ req[r] \in RequestRows /\ SoundRequest(orders, req[r])
      /\ offer \in Offers /\ fee \in Fees /\ intents \in IntentRows
  BY TypeRows DEF IInv
<1>1. CASE Done(r)
  BY <1>0, <1>1, IdleIsSound, OwnStep DEF ReadFee, Done
<1>2. CASE req[r].buyer # Seller
  <2> DEFINE in == PriceInput(req[r].listing, fee, req[r].quantity)
             q == [req[r] EXCEPT !.pc = "create", !.listing = None, !.input = in]
  <2>1. in \in Inputs
    BY <1>0, InputOfOffer DEF ReadFee, SoundRequest
  <2> HIDE DEF in
  <2>2. q \in RequestRows /\ q.pc = "create" /\ q.input = in
    BY <1>0, <2>1 DEF RequestRows
  <2>3. SoundRequest(orders, q)
    BY <2>1, <2>2 DEF SoundRequest
  <2>4. req' = [req EXCEPT ![r] = q] /\ UNCHANGED <<offer, fee, orders, intents>>
    BY <1>2 DEF ReadFee, in
  <2> HIDE DEF q
  <2> QED
    BY <1>0, <2>2, <2>3, <2>4, OwnStep
<1> QED
  BY <1>1, <1>2 DEF ReadFee

\* orders.create: the price that the buyer was shown becomes the snapshot.
LEMMA CreateIsSound ==
  ASSUME IInv, NEW r \in Requests, Create(r)
  PROVE  IInv'
<1>0. req[r] \in RequestRows /\ SoundRequest(orders, req[r])
  BY TypeRows DEF IInv
<1>1. PICK o \in Orders :
        /\ orders[o] = Unused
        /\ orders' = [orders EXCEPT ![o] =
             [@ EXCEPT !.state = "initial", !.buyer = req[r].buyer, !.key = req[r].key,
                       !.input = req[r].input]]
        /\ req' = [req EXCEPT ![r].pc = "apply", ![r].order = o]
  BY DEF Create
<1> DEFINE m == [Unused EXCEPT !.state = "initial", !.buyer = req[r].buyer,
                               !.key = req[r].key, !.input = req[r].input]
           q == [req[r] EXCEPT !.pc = "apply", !.order = o]
<1>2. req[r].input \in Inputs
  BY <1>0 DEF Create, SoundRequest
<1>3. /\ m \in OrderRows /\ m.state = "initial" /\ m.input = req[r].input
      /\ m.intent = None /\ m.shown = None /\ m.refund = None /\ m.transfer = None
  <2>1. Unused \in OrderRows
    BY UnusedIsSound
  <2>2. req[r].buyer \in Users \cup {None} /\ req[r].key \in Keys \cup {None}
    BY <1>0 DEF RequestRows
  <2>3. "initial" \in States
    BY DEF States
  <2>4. m \in OrderRows
    BY <2>1, <2>2, <2>3, <1>2 DEF OrderRows
  <2>5. m.state = "initial" /\ m.input = req[r].input
    BY <2>1 DEF OrderRows
  <2>6. m.intent = None /\ m.shown = None /\ m.refund = None /\ m.transfer = None
    BY DEF Unused
  <2> QED
    BY <2>4, <2>5, <2>6
<1>4. SoundOrder(m)
  BY <1>2, <1>3 DEF SoundOrder, Begun
<1>5. q \in RequestRows /\ q.pc = "apply" /\ q.order = o /\ q.input = req[r].input
  BY <1>0 DEF RequestRows
<1>6. orders' = [orders EXCEPT ![o] = m] /\ orders'[o] = m
  BY <1>1, TypeRows DEF IInv
<1>7. req' = [req EXCEPT ![r] = q]
  BY <1>1, TypeRows DEF IInv
<1>8. orders[o].state = NoOrder
  BY <1>1 DEF Unused
<1>9. UNCHANGED <<offer, fee, intents>>
  BY DEF Create
<1> HIDE DEF m, q
<1>10. SoundRequest(orders', q)
  BY <1>2, <1>3, <1>5, <1>6, NonesApart DEF SoundRequest
<1> QED
  BY <1>3, <1>4, <1>5, <1>6, <1>7, <1>8, <1>9, <1>10, PairStep

\* The buyer takes up an order whose checkout may have died.
LEMMA ResumeIsSound ==
  ASSUME IInv, NEW r \in Requests, NEW o \in Orders, NEW b \in Users, Resume(r, o, b)
  PROVE  IInv'
<1> DEFINE q == [Idle EXCEPT !.pc = "apply", !.verb = "transition", !.buyer = b, !.order = o]
<1>1. offer \in Offers /\ fee \in Fees /\ intents \in IntentRows
  BY TypeRows DEF IInv
<1>2. q \in RequestRows /\ q.pc = "apply" /\ q.order = o /\ q.verb = "transition"
  BY DEF Idle, RequestRows
<1>3. orders[o].state # NoOrder
  BY NonesApart DEF Resume
<1>4. SoundRequest(orders, q)
  BY <1>2, <1>3 DEF SoundRequest
<1>5. req' = [req EXCEPT ![r] = q] /\ UNCHANGED <<offer, fee, orders, intents>>
  BY DEF Resume
<1> HIDE DEF q
<1> QED
  BY <1>1, <1>2, <1>4, <1>5, OwnStep

\* The engine recomputes the snapshot and asks Stripe for the payment intent.
LEMMA OpenIntentIsSound ==
  ASSUME IInv, NEW r \in Requests, OpenIntent(r)
  PROVE  IInv'
<1> DEFINE o == req[r].order
           q == [req[r] EXCEPT !.pc = "opened"]
           intent == [key |-> IntentKey(o, r), amount |-> Recomputed(o).payin]
<1>0. /\ req[r] \in RequestRows /\ SoundRequest(orders, req[r])
      /\ offer \in Offers /\ fee \in Fees /\ intents \in IntentRows
  BY TypeRows DEF IInv
<1>1. o \in Orders /\ orders[o].input \in Inputs
  BY <1>0 DEF OpenIntent, SoundRequest, IInv, SoundOrder
<1>2. q \in RequestRows /\ q.pc = "opened" /\ q.order = o
      /\ q.input = req[r].input /\ q.verb = req[r].verb
  BY <1>0 DEF RequestRows
<1>3. SoundRequest(orders, q)
  BY <1>0, <1>2 DEF OpenIntent, SoundRequest
<1>4. intent \in [key : Orders, amount : Int]
  BY <1>1, SplitIsFair DEF IntentKey, Recomputed
<1>5. /\ req' = [req EXCEPT ![r] = q] /\ UNCHANGED <<offer, fee, orders>>
      /\ intents' = [intents EXCEPT ![o] = @ \cup {intent}]
  BY DEF OpenIntent, Goto
<1> HIDE DEF intent, q
<1>6. intents' \in IntentRows
  BY <1>0, <1>1, <1>4, <1>5 DEF IntentRows
<1> QED
  BY <1>0, <1>2, <1>3, <1>5, <1>6, OwnStep

\* The engine commits request-payment.
LEMMA RequestPaymentIsSound ==
  ASSUME IInv, NEW r \in Requests, RequestPayment(r)
  PROVE  IInv'
<1> DEFINE o == req[r].order
           t == Named("request-payment")
           m == Moved(o, t)
           q == IF req[r].verb = "checkout" THEN [req[r] EXCEPT !.pc = "answer"] ELSE Idle
<1>0. req[r] \in RequestRows /\ SoundRequest(orders, req[r])
  BY TypeRows DEF IInv
<1>1. o \in Orders /\ (req[r].verb = "checkout" =>
                        req[r].input \in Inputs /\ orders[o].input = req[r].input)
  BY <1>0 DEF RequestPayment, SoundRequest
<1>2. SoundOrder(orders[o]) /\ TypeOK /\ orders[o].state \in t.from /\ t \in Transitions
  BY <1>1, NamedHere DEF IInv, RequestPayment, Apply
<1>3. /\ m \in OrderRows /\ Begun(m) /\ SoundOrder(m)
      /\ m.input = orders[o].input
  BY <1>1, <1>2, MovedIsSound
<1>4. q \in RequestRows /\ (q = Idle \/ /\ q.pc = "answer" /\ q.order = o
                                        /\ q.verb = "checkout" /\ req[r].verb = "checkout"
                                        /\ q.input = req[r].input)
  BY <1>0, IdleIsSound DEF RequestRows
<1>5. orders' = [orders EXCEPT ![o] = m] /\ orders'[o] = m
  BY <1>1, TypeRows DEF IInv, RequestPayment, Apply
<1>6. req' = [req EXCEPT ![r] = q] /\ UNCHANGED <<offer, fee, intents>>
  BY TypeRows DEF IInv, RequestPayment, Goto, Done
<1> HIDE DEF m, q, t, o
<1>7. SoundRequest(orders', q)
  <2>1. CASE q = Idle
    BY <2>1 DEF SoundRequest, Idle
  <2>2. CASE q # Idle
    BY <2>2, <1>1, <1>3, <1>4, <1>5 DEF SoundRequest, Begun
  <2> QED
    BY <2>1, <2>2
<1> QED
  BY <1>1, <1>3, <1>4, <1>5, <1>6, <1>7, PairStep DEF Begun

\* The endpoint reads the order again and shows its amount.
LEMMA AnswerIsSound ==
  ASSUME IInv, NEW r \in Requests, Answer(r)
  PROVE  IInv'
<1> DEFINE o == req[r].order
           m == [orders[o] EXCEPT !.shown = Compute(req[r].input).payin]
<1>0. req[r] \in RequestRows /\ SoundRequest(orders, req[r]) /\ orders \in [Orders -> OrderRows]
  BY TypeRows DEF IInv
<1>1. /\ o \in Orders /\ orders[o].input = req[r].input /\ req[r].input \in Inputs
      /\ Begun(orders[o])
  BY <1>0 DEF Answer, SoundRequest, Begun
<1>2. Priced(orders[o]) /\ orders[o] \in OrderRows
  BY <1>0, <1>1 DEF IInv, SoundOrder
<1>3. Compute(req[r].input).payin \in Int
  BY <1>1, SplitIsFair
<1>4. /\ m \in OrderRows /\ m.state = orders[o].state /\ m.input = orders[o].input
      /\ m.payin = orders[o].payin /\ m.payout = orders[o].payout
      /\ m.intent = orders[o].intent /\ m.refund = orders[o].refund
      /\ m.transfer = orders[o].transfer /\ m.shown = Compute(req[r].input).payin
  BY <1>2, <1>3 DEF OrderRows, Amounts
<1>5. orders' = [orders EXCEPT ![o] = m] /\ req' = [req EXCEPT ![r] = Idle]
  BY <1>0, <1>1 DEF Answer, Done
<1> HIDE DEF m, o
<1>6. SoundOrder(m)
  BY <1>1, <1>2, <1>4 DEF SoundOrder, Begun, Priced
<1>7. SoundRequest(orders', Idle)
  BY DEF SoundRequest, Idle
<1>8. UNCHANGED <<offer, fee, intents>>
  BY DEF Answer
<1> QED
  BY <1>1, <1>4, <1>5, <1>6, <1>7, <1>8, IdleIsSound, PairStep DEF Begun

-----------------------------------------------------------------------------
(* The theorems. *)

\* Every step of every request, of the engine and of the sellers keeps the invariant.
LEMMA StepIsSound == IInv /\ [Next]_vars => IInv'
<1> SUFFICES ASSUME IInv, [Next]_vars PROVE IInv'
  OBVIOUS
<1>0. offer \in Offers /\ fee \in Fees /\ intents \in IntentRows
  BY TypeRows DEF IInv
<1>1. ASSUME NEW r \in Requests, Step(r) PROVE IInv'
  <2>1. CASE Fail(r)
    BY <2>1, <1>0, IdleIsSound, OwnStep DEF Fail, Done
  <2> QED
    BY <2>1, <1>1, ReadFeeIsSound, CreateIsSound, OpenIntentIsSound,
       RequestPaymentIsSound, AnswerIsSound
    DEF Step
<1>2. ASSUME NEW r \in Requests, NEW b \in Users,
             \/ \E k \in Keys, n \in Quantities : Ask(r, b, k, n)
             \/ \E o \in Orders : Resume(r, o, b)
      PROVE  IInv'
  BY <1>2, AskIsSound, ResumeIsSound
<1>3. ASSUME NEW o \in Orders, NEW b \in Users, Confirm(o, b) PROVE IInv'
  BY <1>3, NamedHere, TransitionStep DEF Confirm
<1>4. ASSUME NEW o \in Orders, NEW t \in Transitions, Advance(o, t) PROVE IInv'
  BY <1>4, TransitionStep DEF Advance
<1>5. ASSUME orders' = orders, req' = req, intents' = intents,
             offer' \in Offers, fee' \in Fees
      PROVE  IInv'
  <2>1. TypeOK'
    BY <1>5 DEF IInv, TypeOK
  <2> QED
    BY <2>1, <1>5 DEF IInv
<1>6. ASSUME NEW new \in Offers, Edit(new) PROVE IInv'
  BY <1>6, <1>5, <1>0 DEF Edit
<1>7. ASSUME NEW new \in Fees, Reprice(new) PROVE IInv'
  BY <1>7, <1>5, <1>0 DEF Reprice
<1>8. CASE UNCHANGED vars
  BY <1>8, <1>5, <1>0 DEF vars
<1> QED
  BY <1>1, <1>2, <1>3, <1>4, <1>6, <1>7, <1>8 DEF Next

\* The inductive invariant of checkout.
THEOREM CheckoutSound == Spec => []IInv
  BY InitIsSound, StepIsSound, PTL DEF Spec

\* The variables of CheckoutService's model keep their types.
THEOREM CheckoutTypeCorrect == Spec => []TypeOK
<1>1. IInv => TypeOK
  BY DEF IInv
<1> QED
  BY <1>1, CheckoutSound, PTL

\* What checkout answers, what the intent holds, what the capture records, the refund and
\* the transfer are one price, whatever becomes of the listing and the commission.
THEOREM CheckoutOnePrice == Spec => []OnePrice
<1>1. IInv => OnePrice
  BY DEF IInv, OnePrice, SoundOrder, Begun, Priced
<1> QED
  BY <1>1, CheckoutSound, PTL

\* Rounding never leaves the seller without the shipping, the platform with a loss, or a
\* commission more than half a minor unit off.
THEOREM CheckoutFairSplit == Spec => []FairSplit
<1>1. ASSUME IInv, NEW o \in Orders, orders[o].state \notin {NoOrder, "initial"}
      PROVE  LET in == orders[o].input  L == LineItems(in)  base == Subtotal(in) IN
             /\ orders[o].payout >= L.shipping.amount
             /\ orders[o].payin >= orders[o].payout
             /\ OffBy(L.customer_commission.amount, base, in.customer) \in -Whole .. Whole
             /\ OffBy(-L.provider_commission.amount, base, in.provider) \in -Whole .. Whole
  <2>1. orders[o].input \in Inputs /\ Priced(orders[o])
    BY <1>1 DEF IInv, SoundOrder, Begun
  <2>2. /\ orders[o].payin = Compute(orders[o].input).payin
        /\ orders[o].payout = Compute(orders[o].input).payout
    BY <2>1 DEF Priced
  <2> QED
    BY <2>1, <2>2, SplitIsFair
<1>2. IInv => FairSplit
  BY <1>1 DEF FairSplit
<1> QED
  BY <1>2, CheckoutSound, PTL

\* Stripe has at most the intent of an order's key, with the price of its snapshot; it has
\* it before the row says so and before request-payment commits.
Intent(o) == [key |-> o, amount |-> Compute(orders[o].input).payin]
SoundIntents ==
  /\ \A o \in Orders :
       /\ intents[o] # {} => orders[o].state # NoOrder /\ intents[o] = {Intent(o)}
       /\ orders[o].intent # None => intents[o] # {}
  /\ \A r \in Requests : req[r].pc = "opened" => intents[req[r].order] # {}

\* A transition other than request-payment asks Stripe for no intent.
LEMMA MovedIntent ==
  ASSUME IInv, NEW o \in Orders, NEW t \in Transitions, orders[o].state \in t.from
  PROVE  /\ Moved(o, t).input = orders[o].input /\ Moved(o, t).state # NoOrder
         /\ t.name # "request-payment" => Moved(o, t).intent = orders[o].intent
         /\ orders[o].state # NoOrder
<1>1. orders[o] \in OrderRows /\ SoundOrder(orders[o]) /\ TypeOK
  BY TypeRows DEF IInv
<1>2. /\ Moved(o, t).input = orders[o].input /\ Moved(o, t).state # NoOrder
      /\ orders[o].state # NoOrder
  BY <1>1, MovedIsSound DEF Begun
<1>3. t.name # "request-payment" => t.action # "create-payment-intent"
  BY FirstTransition
<1>4. t.action # "create-payment-intent" => Moved(o, t).intent = orders[o].intent
  BY <1>1 DEF Moved, OrderRows
<1> QED
  BY <1>2, <1>3, <1>4

\* The requests that wait for their commit are the same or fewer.
StillOpened ==
  \A r \in Requests : req'[r].pc = "opened" => req[r].pc = "opened" /\ req'[r].order = req[r].order

\* The orders keep what their intents depend on, and none gets one in its row that
\* Stripe does not have.
LEMMA IntentsKept ==
  ASSUME SoundIntents, StillOpened, intents' = intents,
         \A o \in Orders :
           /\ orders[o].state # NoOrder =>
                orders'[o].state # NoOrder /\ orders'[o].input = orders[o].input
           /\ orders'[o].intent # None => intents[o] # {}
  PROVE  SoundIntents'
<1>1. \A o \in Orders : intents[o] # {} => Intent(o)' = Intent(o)
  BY DEF SoundIntents, Intent
<1>2. \A o \in Orders : intents'[o] # {} => orders'[o].state # NoOrder /\ intents'[o] = {Intent(o)'}
  BY <1>1 DEF SoundIntents
<1>3. \A r \in Requests : req'[r].pc = "opened" => intents'[req'[r].order] # {}
  BY DEF SoundIntents, StillOpened
<1> QED
  BY <1>2, <1>3 DEF SoundIntents, Intent

\* Every step keeps them so.
LEMMA StepKeepsIntents == IInv /\ SoundIntents /\ [Next]_vars => SoundIntents'
<1> SUFFICES ASSUME IInv, SoundIntents, [Next]_vars PROVE SoundIntents'
  OBVIOUS
<1>0. /\ orders \in [Orders -> OrderRows] /\ req \in [Requests -> RequestRows]
      /\ intents \in IntentRows
  BY TypeRows DEF IInv
<1>1. ASSUME orders' = orders, intents' = intents, StillOpened PROVE SoundIntents'
  BY <1>1, IntentsKept DEF SoundIntents
<1>2. ASSUME NEW o \in Orders, NEW t \in Transitions, Apply(o, t), intents' = intents, StillOpened,
             t.name # "request-payment" \/ intents[o] # {}
      PROVE  SoundIntents'
  <2>1. /\ Moved(o, t).input = orders[o].input /\ Moved(o, t).state # NoOrder
        /\ t.name # "request-payment" => Moved(o, t).intent = orders[o].intent
    BY <1>2, MovedIntent DEF Apply
  <2>2. \A p \in Orders : orders'[p] = IF p = o THEN Moved(o, t) ELSE orders[p]
    BY <1>0, <1>2 DEF Apply
  <2>3. \A p \in Orders :
          /\ orders[p].state # NoOrder =>
               orders'[p].state # NoOrder /\ orders'[p].input = orders[p].input
          /\ orders'[p].intent # None => intents[p] # {}
    BY <2>1, <2>2, <1>2 DEF SoundIntents
  <2> QED
    BY <2>3, <1>2, IntentsKept
<1>3. ASSUME req' = req PROVE StillOpened
  BY <1>3 DEF StillOpened
<1>4. ASSUME NEW r \in Requests, NEW q \in RequestRows, q.pc # "opened",
             req' = [req EXCEPT ![r] = q]
      PROVE  StillOpened
  BY <1>0, <1>4 DEF StillOpened
<1>5. ASSUME NEW r \in Requests, Done(r) PROVE StillOpened
  <2>1. Idle \in RequestRows /\ Idle.pc # "opened"
    BY IdleIsSound DEF Idle
  <2> QED
    BY <2>1, <1>4, <1>5 DEF Done
<1>6. ASSUME NEW r \in Requests, Step(r) PROVE SoundIntents'
  <2>0. req[r] \in RequestRows /\ SoundRequest(orders, req[r])
    BY <1>0 DEF IInv
  <2>1. CASE ReadFee(r)
    <3>1. CASE Done(r)
      BY <3>1, <2>1, <1>1, <1>5 DEF ReadFee
    <3>2. CASE req[r].buyer # Seller
      <4> DEFINE in == PriceInput(req[r].listing, fee, req[r].quantity)
                 q == [req[r] EXCEPT !.pc = "create", !.listing = None, !.input = in]
      <4>1. in \in Inputs
        BY <2>0, <2>1, InputOfOffer DEF ReadFee, SoundRequest, IInv, TypeOK
      <4> HIDE DEF in
      <4>2. q \in RequestRows /\ q.pc = "create"
        BY <2>0, <4>1 DEF RequestRows
      <4>3. req' = [req EXCEPT ![r] = q] /\ UNCHANGED <<orders, intents>>
        BY <2>1, <3>2 DEF ReadFee, in
      <4> HIDE DEF q
      <4> QED
        BY <4>2, <4>3, <1>1, <1>4
    <3> QED
      BY <2>1, <3>1, <3>2 DEF ReadFee
  <2>2. CASE Create(r)
    <3>1. PICK o \in Orders :
            /\ orders[o] = Unused
            /\ orders' = [orders EXCEPT ![o] =
                 [@ EXCEPT !.state = "initial", !.buyer = req[r].buyer, !.key = req[r].key,
                           !.input = req[r].input]]
            /\ req' = [req EXCEPT ![r].pc = "apply", ![r].order = o]
      BY <2>2 DEF Create
    <3> DEFINE q == [req[r] EXCEPT !.pc = "apply", !.order = o]
    <3>2. q \in RequestRows /\ q.pc = "apply" /\ req' = [req EXCEPT ![r] = q]
      BY <3>1, <2>0, <1>0 DEF RequestRows
    <3>3. StillOpened
      BY <3>2, <1>4
    <3>4. orders'[o].intent = None /\ \A p \in Orders : p # o => orders'[p] = orders[p]
      BY <3>1, <1>0 DEF Unused
    <3>5. orders[o].state = NoOrder
      BY <3>1 DEF Unused
    <3>6. intents' = intents
      BY <2>2 DEF Create
    <3> HIDE DEF q
    <3> QED
      BY <3>3, <3>4, <3>5, <3>6, IntentsKept DEF SoundIntents
  <2>3. CASE OpenIntent(r)
    <3> DEFINE o == req[r].order
    <3>1. o \in Orders /\ orders[o].state # NoOrder
      BY <2>0, <2>3 DEF OpenIntent, SoundRequest
    <3>2. /\ intents' = [intents EXCEPT ![o] = @ \cup {Intent(o)}] /\ orders' = orders
          /\ req' = [req EXCEPT ![r].pc = "opened"]
      BY <2>3 DEF OpenIntent, Goto, IntentKey, Recomputed, Intent
    <3>3. \A p \in Orders : intents'[p] = IF p = o THEN intents[o] \cup {Intent(o)} ELSE intents[p]
      BY <3>1, <3>2, <1>0 DEF IntentRows
    <3>4. \A s \in Requests : req'[s].order = req[s].order
                             /\ (s # r => req'[s].pc = req[s].pc)
      BY <3>2, <1>0 DEF RequestRows
    <3> HIDE DEF o
    <3>5. \A p \in Orders : /\ intents'[p] # {} => /\ orders'[p].state # NoOrder
                                                   /\ intents'[p] = {Intent(p)'}
                            /\ orders'[p].intent # None => intents'[p] # {}
      <4>1. \A p \in Orders : Intent(p)' = Intent(p)
        BY <3>2 DEF Intent
      <4> QED
        BY <4>1, <3>1, <3>2, <3>3 DEF SoundIntents
    <3>6. ASSUME NEW s \in Requests, req'[s].pc = "opened" PROVE intents'[req'[s].order] # {}
      <4>1. CASE s = r
        BY <4>1, <3>1, <3>3, <3>4 DEF o
      <4>2. CASE s # r
        <5>1. req[s].pc = "opened" /\ intents[req[s].order] # {} /\ req[s].order \in Orders
          BY <4>2, <3>4, <3>6 DEF SoundIntents, IInv, SoundRequest
        <5> QED
          BY <5>1, <3>3, <3>4
      <4> QED
        BY <4>1, <4>2
    <3> QED
      BY <3>5, <3>6 DEF SoundIntents, Intent
  <2>4. CASE RequestPayment(r)
    <3>1. req[r].order \in Orders /\ intents[req[r].order] # {}
      BY <2>0, <2>4 DEF RequestPayment, SoundRequest, SoundIntents
    <3>2. StillOpened
      <4>1. CASE req[r].verb = "checkout"
        <5> DEFINE q == [req[r] EXCEPT !.pc = "answer"]
        <5>1. q \in RequestRows /\ q.pc = "answer" /\ req' = [req EXCEPT ![r] = q]
          BY <2>0, <2>4, <4>1, <1>0 DEF RequestPayment, Goto, RequestRows
        <5> HIDE DEF q
        <5> QED
          BY <5>1, <1>4
      <4> QED
        BY <4>1, <2>4, <1>5 DEF RequestPayment
    <3> QED
      BY <3>1, <3>2, <2>4, <1>2, NamedHere DEF RequestPayment
  <2>5. CASE Answer(r)
    <3>1. \A p \in Orders : /\ orders'[p].state = orders[p].state
                            /\ orders'[p].input = orders[p].input
                            /\ orders'[p].intent = orders[p].intent
      BY <2>5, <1>0 DEF Answer, OrderRows
    <3> QED
      BY <3>1, <2>5, <1>5, IntentsKept DEF Answer, SoundIntents
  <2>6. CASE Fail(r)
    BY <2>6, <1>1, <1>5 DEF Fail
  <2> QED
    BY <1>6, <2>1, <2>2, <2>3, <2>4, <2>5, <2>6 DEF Step
<1>7. ASSUME NEW r \in Requests, NEW b \in Users, NEW k \in Keys, NEW n \in Quantities,
             Ask(r, b, k, n)
      PROVE  SoundIntents'
  <2> DEFINE q == [Idle EXCEPT !.pc = "fee", !.buyer = b, !.key = k,
                               !.quantity = n, !.listing = offer]
  <2>1. n \in Nat /\ offer \in Offers
    BY CheckoutAssumption DEF IInv, TypeOK
  <2>2. q \in RequestRows /\ q.pc = "fee" /\ req' = [req EXCEPT ![r] = q]
    BY <2>1, <1>7 DEF Ask, Idle, RequestRows
  <2> HIDE DEF q
  <2> QED
    BY <2>2, <1>1, <1>4, <1>7 DEF Ask
<1>8. ASSUME NEW r \in Requests, NEW o \in Orders, NEW b \in Users, Resume(r, o, b)
      PROVE  SoundIntents'
  <2> DEFINE q == [Idle EXCEPT !.pc = "apply", !.verb = "transition", !.buyer = b, !.order = o]
  <2>1. q \in RequestRows /\ q.pc = "apply" /\ req' = [req EXCEPT ![r] = q]
    BY <1>8 DEF Resume, Idle, RequestRows
  <2> HIDE DEF q
  <2> QED
    BY <2>1, <1>1, <1>4, <1>8 DEF Resume
<1>9. ASSUME NEW o \in Orders, NEW b \in Users, Confirm(o, b) PROVE SoundIntents'
  BY <1>9, <1>2, <1>3, NamedHere DEF Confirm
<1>10. ASSUME NEW o \in Orders, NEW t \in Transitions, Advance(o, t) PROVE SoundIntents'
  BY <1>10, <1>2, <1>3 DEF Advance
<1>11. ASSUME \/ \E new \in Offers : Edit(new)
              \/ \E new \in Fees : Reprice(new)
              \/ UNCHANGED vars
       PROVE  SoundIntents'
  BY <1>11, <1>1, <1>3 DEF Edit, Reprice, vars
<1> QED
  BY <1>6, <1>7, <1>8, <1>9, <1>10, <1>11 DEF Next

\* However often a checkout dies between Stripe and its commit, and its order is taken up
\* again, an order has one intent at Stripe at most, of the price in its snapshot, and the
\* one its row says.
THEOREM CheckoutOneIntent == Spec => []OneIntent
<1>1. Init => SoundIntents
  BY DEF Init, Unused, Idle, SoundIntents
<1>2. ASSUME IInv, SoundIntents, NEW o \in Orders
      PROVE  /\ \A i, j \in intents[o] : i = j
             /\ \A i \in intents[o] : i.amount = Compute(orders[o].input).payin
             /\ orders[o].intent # None => \E i \in intents[o] : i.amount = orders[o].intent
  <2>1. intents[o] # {} => intents[o] = {Intent(o)} /\ orders[o].state # NoOrder
    BY <1>2 DEF SoundIntents
  <2>2. Intent(o).amount = Compute(orders[o].input).payin
    BY DEF Intent
  <2>3. orders[o].intent # None => intents[o] # {}
    BY <1>2 DEF SoundIntents
  <2>4. orders[o].intent # None => orders[o].intent = Compute(orders[o].input).payin
    BY <2>1, <2>3, <1>2 DEF IInv, SoundOrder, Begun, Priced
  <2> HIDE DEF Intent
  <2> QED
    BY <2>1, <2>2, <2>3, <2>4
<1>3. IInv /\ SoundIntents => OneIntent
  BY <1>2 DEF OneIntent
<1> QED
  BY <1>1, <1>3, CheckoutSound, StepKeepsIntents, PTL DEF Spec

-----------------------------------------------------------------------------
(* Checkout implements OrderLifecycle. *)

\* Where the money of an order went shows in its state: back to the buyer exactly if it was
\* canceled, to the seller exactly if it was completed.
Settled(x) ==
  /\ x.state # "received"
  /\ x.refund # None <=> x.state = "canceled"
  /\ x.transfer # None <=> x.state \in {"completed", "reviewed"}

Closed == \A o \in Orders : Settled(orders[o])

\* What the table says of refunds and transfers.
LEMMA MoneyInTheTable ==
  ASSUME NEW t \in Transitions, NEW s \in t.from
  PROVE  /\ s \notin {"canceled", "reviewed"}
         /\ t.action = "refund-full" <=> t.to = "canceled"
         /\ t.action = "payout" <=> t.to = "received"
         /\ t.to = "reviewed" <=> s = "completed"
         /\ t.to = "completed" <=> s = "received"
<1>1. s \notin {"canceled", "reviewed"}
  BY DEF Transitions, TransitionDef
<1>2. t.action = "refund-full" <=> t.to = "canceled"
  BY DEF Transitions, TransitionDef
<1>3. t.action = "payout" <=> t.to = "received"
  BY DEF Transitions, TransitionDef
<1>4. t.to = "reviewed" <=> s = "completed"
  BY DEF Transitions, TransitionDef
<1>5. t.to = "completed" <=> s = "received"
  BY DEF Transitions, TransitionDef
<1> QED
  BY <1>1, <1>2, <1>3, <1>4, <1>5

\* received is left at once, and no other state is.
LEMMA EnteredState ==
  ASSUME NEW t \in Transitions
  PROVE  Entered(t) = IF t.to = "received" THEN "completed" ELSE t.to
<1>1. \E u \in Transitions : u.name = "mark-completed"
  BY DEF Transitions, TransitionDef
<1>2. Named("mark-completed") \in Transitions /\ Named("mark-completed").name = "mark-completed"
  BY <1>1 DEF Named
<1>3. \A u \in Transitions : u.name = "mark-completed" => u.to = "completed"
  BY DEF Transitions, TransitionDef
<1> QED
  BY <1>2, <1>3 DEF Entered, ImmediateNext

\* A transition that only the system may ask for is the timer of the state it starts in.
LEMMA SystemIsTimer ==
  ASSUME NEW t \in Transitions, NEW s \in t.from, s # "received",
         t.actor \cap (Actors \ {"system"}) = {}
  PROVE  s \in TimedStates /\ t = Named(StateTimers[s])
<1>1. "customer" \notin t.actor /\ "provider" \notin t.actor /\ "operator" \notin t.actor
  BY DEF Actors
<1>2. s \in TimedStates /\ t.name = StateTimers[s]
  BY <1>1 DEF Transitions, TransitionDef, TimedStates, StateTimers
<1>3. Named(StateTimers[s]) \in Transitions /\ Named(StateTimers[s]).name = t.name
  BY <1>2 DEF Named
<1>4. ASSUME NEW u \in Transitions, u.name = t.name PROVE u = t
  <2>1. CASE t.name = "expire-payment"
    <3>1. \A v \in Transitions : v.name = "expire-payment" =>
            v = TransitionDef("expire-payment", {"pending-payment"}, "payment-expired",
                              {"system"}, FALSE, "cancel-payment-intent")
      BY DEF Transitions, TransitionDef
    <3> QED
      BY <3>1, <2>1, <1>4
  <2>2. CASE t.name = "auto-cancel"
    <3>1. \A v \in Transitions : v.name = "auto-cancel" =>
            v = TransitionDef("auto-cancel", {"purchased"}, "canceled",
                              {"system"}, FALSE, "refund-full")
      BY DEF Transitions, TransitionDef
    <3> QED
      BY <3>1, <2>2, <1>4
  <2>3. CASE t.name = "auto-mark-received"
    <3>1. \A v \in Transitions : v.name = "auto-mark-received" =>
            v = TransitionDef("auto-mark-received", {"delivered"}, "received",
                              {"system"}, FALSE, "payout")
      BY DEF Transitions, TransitionDef
    <3> QED
      BY <3>1, <2>3, <1>4
  <2>4. CASE t.name = "auto-escalate-dispute"
    <3>1. \A v \in Transitions : v.name = "auto-escalate-dispute" =>
            v = TransitionDef("auto-escalate-dispute", {"disputed"}, "escalated-dispute",
                              {"system"}, FALSE, "none")
      BY DEF Transitions, TransitionDef
    <3> QED
      BY <3>1, <2>4, <1>4
  <2>5. CASE t.name = "expire-review-period"
    <3>1. \A v \in Transitions : v.name = "expire-review-period" =>
            v = TransitionDef("expire-review-period", {"completed"}, "reviewed",
                              {"system"}, FALSE, "none")
      BY DEF Transitions, TransitionDef
    <3> QED
      BY <3>1, <2>5, <1>4
  <2> QED
    BY <1>2, <2>1, <2>2, <2>3, <2>4, <2>5 DEF StateTimers, TimedStates
<1> QED
  BY <1>2, <1>3, <1>4

\* What a transition does to where the money of an order is.
LEMMA MovedMoney ==
  ASSUME IInv, NEW o \in Orders, NEW t \in Transitions, orders[o].state \in t.from,
         Settled(orders[o])
  PROVE  /\ Moved(o, t).state = Entered(t)
         /\ Moved(o, t).refund # None <=> (orders[o].refund # None \/ t.action = "refund-full")
         /\ Moved(o, t).transfer # None <=> (orders[o].transfer # None \/ t.action = "payout")
         /\ t.action = "refund-full" => orders[o].refund = None
         /\ Settled(Moved(o, t))
<1> DEFINE x == orders[o]  m == Moved(o, t)
           p == IF t.privileged THEN Recomputed(o) ELSE orders[o]
<1>1. x \in OrderRows /\ SoundOrder(x) /\ x.state # NoOrder /\ x.input \in Inputs
  BY TypeRows, FirstTransition DEF IInv, SoundOrder
<1>2. m = [x EXCEPT !.state = Entered(t), !.payin = p.payin, !.payout = p.payout,
             !.intent = IF t.action = "create-payment-intent" THEN p.payin ELSE x.intent,
             !.transfer = IF t.action = "payout" THEN p.payout ELSE x.transfer,
             !.refund = IF t.action = "refund-full" THEN p.payin ELSE x.refund]
  BY DEF Moved, Entered
<1>3. /\ m.state = Entered(t)
      /\ m.transfer = IF t.action = "payout" THEN p.payout ELSE x.transfer
      /\ m.refund = IF t.action = "refund-full" THEN p.payin ELSE x.refund
  BY <1>1, <1>2 DEF OrderRows
<1>4. t.action \in {"payout", "refund-full"} => p.payin # None /\ p.payout # None
  <2>1. /\ Compute(x.input).payin \in Int /\ Compute(x.input).payout \in Int
        /\ Compute(x.input).payin >= Compute(x.input).payout
        /\ Compute(x.input).payout >= LineItems(x.input).shipping.amount
        /\ LineItems(x.input).shipping.amount \in Nat
    BY <1>1, SplitIsFair, LinesOfInputs
  <2>2. Compute(x.input).payin \in Nat /\ Compute(x.input).payout \in Nat
    BY <2>1
  <2>3. t.action \in {"payout", "refund-full"} => x.state # "initial"
    BY FirstTransition
  <2>4. x.state # "initial" => p.payin = Compute(x.input).payin
                               /\ p.payout = Compute(x.input).payout
    BY <1>1 DEF SoundOrder, Begun, Priced, Recomputed
  <2> QED
    BY <2>2, <2>3, <2>4, NonesApart
<1> HIDE DEF m, p, x
<1>5. /\ x.state \notin {"canceled", "reviewed", "received"}
      /\ t.action = "refund-full" <=> Entered(t) = "canceled"
      /\ Entered(t) # "received"
      /\ Entered(t) \in {"completed", "reviewed"}
           <=> (x.state \in {"completed", "reviewed"} \/ t.action = "payout")
  BY MoneyInTheTable, EnteredState DEF x, Settled
<1> QED
  BY <1>3, <1>4, <1>5 DEF x, m, Settled

\* An order, as far as the lifecycle sees it, is created, moves, or stays as it is.
Placed(o) == /\ orders[o].state = NoOrder /\ orders'[o].state = "initial"
             /\ orders'[o].refund = orders[o].refund /\ orders'[o].transfer = orders[o].transfer
             /\ \A p \in Orders : p # o => orders'[p] = orders[p]
Unseen == \A o \in Orders :
  /\ orders'[o].state = orders[o].state
  /\ orders'[o].refund = orders[o].refund /\ orders'[o].transfer = orders[o].transfer

LEMMA StepsOfOrders ==
  ASSUME IInv, [Next]_vars
  PROVE  \/ Unseen
         \/ \E o \in Orders : Placed(o)
         \/ \E o \in Orders, t \in Transitions : Apply(o, t)
<1>0. orders \in [Orders -> OrderRows]
  BY TypeRows DEF IInv
<1>1. ASSUME orders' = orders PROVE Unseen
  BY <1>1 DEF Unseen
<1>2. ASSUME NEW r \in Requests, Create(r) PROVE \E o \in Orders : Placed(o)
  <2>1. PICK o \in Orders :
          /\ orders[o] = Unused
          /\ orders' = [orders EXCEPT ![o] =
               [@ EXCEPT !.state = "initial", !.buyer = req[r].buyer, !.key = req[r].key,
                         !.input = req[r].input]]
    BY <1>2 DEF Create
  <2> QED
    BY <1>0, <2>1 DEF Placed, Unused
<1>3. ASSUME NEW r \in Requests, RequestPayment(r)
      PROVE  \E o \in Orders, t \in Transitions : Apply(o, t)
  <2>1. req[r].order \in Orders
    BY <1>3 DEF IInv, SoundRequest, RequestPayment
  <2> QED
    BY <2>1, <1>3, NamedHere DEF RequestPayment
<1>4. ASSUME NEW r \in Requests, Answer(r) PROVE Unseen
  BY <1>0, <1>4 DEF Answer, Unseen, OrderRows
<1>5. ASSUME NEW r \in Requests, ReadFee(r) \/ OpenIntent(r) \/ Fail(r) PROVE orders' = orders
  BY <1>5 DEF ReadFee, OpenIntent, Fail
<1>6. ASSUME NEW r \in Requests, NEW o, NEW b, NEW k, NEW n, Ask(r, b, k, n) \/ Resume(r, o, b)
      PROVE  orders' = orders
  BY <1>6 DEF Ask, Resume
<1>7. ASSUME NEW o \in Orders, NEW b \in Users, Confirm(o, b)
      PROVE  \E t \in Transitions : Apply(o, t)
  BY <1>7, NamedHere DEF Confirm
<1>8. ASSUME NEW o \in Orders, NEW t \in Transitions, Advance(o, t) PROVE Apply(o, t)
  BY <1>8 DEF Advance
<1>9. ASSUME \/ \E new \in Offers : Edit(new)
             \/ \E new \in Fees : Reprice(new)
             \/ UNCHANGED vars
      PROVE  orders' = orders
  BY <1>9 DEF Edit, Reprice, vars
<1> QED
  BY <1>1, <1>2, <1>3, <1>4, <1>5, <1>6, <1>7, <1>8, <1>9 DEF Next, Step

\* Transfers and refunds stay where the states say they are.
LEMMA StepCloses == IInv /\ Closed /\ [Next]_vars => Closed'
<1> SUFFICES ASSUME IInv, Closed, [Next]_vars PROVE Closed'
  OBVIOUS
<1>0. orders \in [Orders -> OrderRows]
  BY TypeRows DEF IInv
<1>1. CASE Unseen
  BY <1>1 DEF Unseen, Closed, Settled
<1>2. ASSUME NEW o \in Orders, Placed(o) PROVE Closed'
  BY <1>2 DEF Placed, Closed, Settled, NoOrder
<1>3. ASSUME NEW o \in Orders, NEW t \in Transitions, Apply(o, t) PROVE Closed'
  <2>1. Settled(Moved(o, t))
    BY <1>3, MovedMoney DEF Apply, Closed
  <2>2. \A p \in Orders : orders'[p] = IF p = o THEN Moved(o, t) ELSE orders[p]
    BY <1>0, <1>3 DEF Apply
  <2> QED
    BY <2>1, <2>2 DEF Closed, Settled
<1> QED
  BY <1>1, <1>2, <1>3, StepsOfOrders

\* The abstract specification reads the same table.
LEMMA SameTable ==
  /\ Lifecycle!Transitions = Transitions
  /\ Lifecycle!TimedStates = TimedStates
  /\ Lifecycle!NoOrder = NoOrder
  /\ Lifecycle!Actors = Actors
  /\ Lifecycle!StateTimers = StateTimers
  /\ Lifecycle!ImmediateNext = ImmediateNext
  /\ \A n : Lifecycle!Named(n) = Named(n)
<1>1. Lifecycle!Transitions = Transitions
  BY DEF Lifecycle!Transitions, Lifecycle!TransitionDef, Transitions, TransitionDef
<1>2. /\ Lifecycle!TimedStates = TimedStates /\ Lifecycle!NoOrder = NoOrder
      /\ Lifecycle!Actors = Actors
  BY DEF Lifecycle!TimedStates, TimedStates, Lifecycle!NoOrder, NoOrder,
         Lifecycle!Actors, Actors
<1>3. Lifecycle!StateTimers = StateTimers /\ Lifecycle!ImmediateNext = ImmediateNext
  BY DEF Lifecycle!StateTimers, StateTimers, Lifecycle!ImmediateNext, ImmediateNext,
         Lifecycle!TimedStates, TimedStates
<1>4. \A n : Lifecycle!Named(n) = Named(n)
  BY <1>1 DEF Lifecycle!Named, Named
<1> QED
  BY <1>1, <1>2, <1>3, <1>4

\* order.create places an order.
LEMMA PlaceRefines ==
  ASSUME NEW o \in Orders, Placed(o)
  PROVE  Lifecycle!Place(o)
<1>1. [p \in Orders |-> orders'[p].state]
        = [[p \in Orders |-> orders[p].state] EXCEPT ![o] = "initial"]
  BY DEF Placed
<1>2. \A p \in Orders : {orders'[p].state} \cap TimedStates = {orders[p].state} \cap TimedStates
  <2>1. {NoOrder} \cap TimedStates = {} /\ {"initial"} \cap TimedStates = {}
    BY DEF NoOrder, TimedStates
  <2> QED
    BY <2>1 DEF Placed
<1>3. \A p \in Orders : /\ orders'[p].transfer = orders[p].transfer
                        /\ orders'[p].refund = orders[p].refund
  BY DEF Placed
<1>4. orders[o].state = NoOrder
  BY DEF Placed
<1> QED
  BY <1>1, <1>2, <1>3, <1>4, SameTable DEF Lifecycle!Place

\* A transition is a step of the lifecycle, of a party or of the timer.
LEMMA ApplyRefines ==
  ASSUME IInv, Closed, NEW o \in Orders, NEW t \in Transitions, Apply(o, t)
  PROVE  \/ Lifecycle!Ask(o, t)
         \/ \E s \in TimedStates : Lifecycle!FireTimer(o, s)
<1> DEFINE x == orders[o]  m == Moved(o, t)
<1>1. x.state \in t.from /\ Settled(x)
  BY DEF Apply, Closed
<1>2. /\ m.state = Entered(t)
      /\ m.refund # None <=> (x.refund # None \/ t.action = "refund-full")
      /\ m.transfer # None <=> (x.transfer # None \/ t.action = "payout")
      /\ t.action = "refund-full" => x.refund = None
  BY <1>1, MovedMoney
<1> HIDE DEF m
<1>3. orders'[o] = m /\ \A p \in Orders : p # o => orders'[p] = orders[p]
  BY TypeRows DEF Apply, IInv, m
<1>4. Entered(t) = Lifecycle!Final(t)
  BY SameTable DEF Entered, Lifecycle!Final
<1>5. Lifecycle!Move(o, t)
  <2>1. [p \in Orders |-> orders'[p].state]
          = [[p \in Orders |-> orders[p].state] EXCEPT ![o] = Lifecycle!Final(t)]
    BY <1>2, <1>3, <1>4
  <2>2. [p \in Orders |-> {orders'[p].state} \cap TimedStates]
          = [[p \in Orders |-> {orders[p].state} \cap TimedStates]
               EXCEPT ![o] = {Lifecycle!Final(t)} \cap TimedStates]
    BY <1>2, <1>3, <1>4
  <2>3. [p \in Orders |-> orders'[p].transfer # None]
          = [[p \in Orders |-> orders[p].transfer # None] EXCEPT ![o] = @ \/ t.action = "payout"]
    BY <1>2, <1>3
  <2>4. [p \in Orders |-> IF orders'[p].refund = None THEN 0 ELSE 1]
          = [[p \in Orders |-> IF orders[p].refund = None THEN 0 ELSE 1]
               EXCEPT ![o] = IF t.action = "refund-full" THEN @ + 1 ELSE @]
    <3> DEFINE times(row) == IF row.refund = None THEN 0 ELSE 1
    <3>1. times(m) = IF t.action = "refund-full" THEN times(x) + 1 ELSE times(x)
      BY <1>2
    <3> HIDE DEF times
    <3>2. [p \in Orders |-> times(orders'[p])]
            = [[p \in Orders |-> times(orders[p])]
                 EXCEPT ![o] = IF t.action = "refund-full" THEN @ + 1 ELSE @]
      BY <3>1, <1>3
    <3> QED
      BY <3>2 DEF times
  <2> QED
    BY <2>1, <2>2, <2>3, <2>4, <1>1, SameTable DEF Lifecycle!Move
<1>6. CASE t.actor \cap (Actors \ {"system"}) # {}
  BY <1>5, <1>6, SameTable DEF Lifecycle!Ask
<1>7. CASE t.actor \cap (Actors \ {"system"}) = {}
  <2>1. x.state \in TimedStates /\ t = Named(StateTimers[x.state])
    BY <1>1, <1>7, SystemIsTimer DEF Settled
  <2> QED
    BY <2>1, <1>5, SameTable DEF Lifecycle!FireTimer
<1> QED
  BY <1>6, <1>7

\* Every step of checkout is one of the lifecycle, or cannot be seen.
LEMMA StepRefines == IInv /\ Closed /\ [Next]_vars => [Lifecycle!Next]_(Lifecycle!lvars)
<1> SUFFICES ASSUME IInv, Closed, [Next]_vars PROVE [Lifecycle!Next]_(Lifecycle!lvars)
  OBVIOUS
<1>1. CASE Unseen
  BY <1>1 DEF Unseen, Lifecycle!lvars
<1>2. ASSUME NEW o \in Orders, Placed(o) PROVE Lifecycle!Next
  BY <1>2, PlaceRefines DEF Lifecycle!Next
<1>3. ASSUME NEW o \in Orders, NEW t \in Transitions, Apply(o, t) PROVE Lifecycle!Next
  BY <1>3, ApplyRefines, SameTable DEF Lifecycle!Next
<1> QED
  BY <1>1, <1>2, <1>3, StepsOfOrders

\* The money of an order has gone one way at most, and the state says which.
THEOREM CheckoutClosesOneWay == Spec => []Closed
<1>1. Init => Closed
  BY NonesApart DEF Init, Unused, Closed, Settled, NoOrder
<1> QED
  BY <1>1, CheckoutSound, StepCloses, PTL DEF Spec

\* Beside requests that stop anywhere, edits and new commissions, an order moves as
\* OrderLifecycle has it, which is what the engine implements.
THEOREM CheckoutKeepsLifecycle == Spec => KeepsLifecycle
<1>1. Init => Lifecycle!Init
  <2> SUFFICES ASSUME Init PROVE Lifecycle!Init
    OBVIOUS
  <2>1. \A o \in Orders : /\ orders[o].state = NoOrder
                         /\ orders[o].transfer = None /\ orders[o].refund = None
    BY DEF Init, Unused
  <2>2. {NoOrder} \cap TimedStates = {}
    BY DEF NoOrder, TimedStates
  <2> QED
    BY <2>1, <2>2, SameTable DEF Lifecycle!Init
<1> QED
  BY <1>1, CheckoutSound, CheckoutClosesOneWay, StepRefines, PTL
  DEF Spec, KeepsLifecycle, Lifecycle!Spec

\* An order never returns to a state it has left: at most twelve transitions after it
\* was placed, it rests for good.
THEOREM CheckoutMovesForward ==
  Spec => [][\A o \in Orders : orders'[o].state # orders[o].state =>
               Rank[orders[o].state] < Rank[orders'[o].state]]_vars
<1>1. ASSUME NEW t \in Transitions, NEW s \in t.from PROVE Rank[s] < Rank[Entered(t)]
  <2>1. Rank[s] < Rank[t.to]
    BY DEF Transitions, TransitionDef, Rank, States, NoOrder
  <2>2. t.to = "received" => Rank[s] < Rank["completed"]
    BY <2>1 DEF Transitions, TransitionDef, Rank, States, NoOrder
  <2> QED
    BY <2>1, <2>2, EnteredState
<1>2. ASSUME IInv, Closed, [Next]_vars, NEW o \in Orders, orders'[o].state # orders[o].state
      PROVE  Rank[orders[o].state] < Rank[orders'[o].state]
  <2>1. ASSUME NEW p \in Orders, Placed(p) PROVE Rank[orders[o].state] < Rank[orders'[o].state]
    BY <2>1, <1>2 DEF Placed, Rank, States, NoOrder
  <2>2. ASSUME NEW p \in Orders, NEW t \in Transitions, Apply(p, t)
        PROVE  Rank[orders[o].state] < Rank[orders'[o].state]
    <3>1. orders' = [orders EXCEPT ![p] = Moved(p, t)] /\ orders[p].state \in t.from
      BY <2>2 DEF Apply
    <3>2. p = o /\ orders'[o].state = Entered(t)
      BY <3>1, <1>2, MovedMoney, TypeRows DEF IInv, Closed
    <3> QED
      BY <3>1, <3>2, <1>1
  <2> QED
    BY <1>2, <2>1, <2>2, StepsOfOrders DEF Unseen
<1>3. IInv /\ Closed /\ [Next]_vars =>
        [\A o \in Orders : orders'[o].state # orders[o].state =>
           Rank[orders[o].state] < Rank[orders'[o].state]]_vars
  BY <1>2
<1> QED
  BY <1>3, CheckoutSound, CheckoutClosesOneWay, PTL DEF Spec
=============================================================================
