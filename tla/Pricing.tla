-------------------------------- MODULE Pricing --------------------------------
(***************************************************************************)
(* The price of an order (PricingService.compute, Money): lines for the    *)
(* items, the delivery, the commissions, the tax and the promotion, each   *)
(* counted for the customer, the provider or both.                         *)
(*                                                                         *)
(* Amounts are minor units, percentages hundredths of a percent (the       *)
(* column is Decimal(5, 2)).  An optional amount that is absent is 0: the  *)
(* code treats both alike.  buildPriceInput, the only caller, gives one    *)
(* item, so that there are at most seven lines of the fifty allowed.       *)
(***************************************************************************)
EXTENDS Integers

Whole == 10000  \* 100 %

\* Money.percentage: to a whole minor unit, a half rounded up.
HalfUp(n) == (2 * n + Whole) \div (2 * Whole)

\* Mutant: the fraction is cut off.
Truncated(amount, percent) == (amount * percent) \div Whole

Percentage(amount, percent) == HalfUp(amount * percent)

Subtotal(in) == in.unit * in.quantity

Line(amount, customer, provider) ==
  [amount |-> amount, customer |-> customer, provider |-> provider]

\* Mutant: the commission is taken of the shipping as well.
CommissionOnShipping(in) == Subtotal(in) + (IF in.pickup THEN 0 ELSE in.shipping)

CommissionBase(in) == Subtotal(in)

\* The lines of a breakdown; a line that is left out has amount 0.
LineItems(in) ==
  LET withheld == in.taxFor = "provider" IN
  [item     |-> Line(Subtotal(in), TRUE, TRUE),
   shipping |-> Line(IF in.pickup THEN 0 ELSE in.shipping, TRUE, TRUE),
   discount |-> Line(-in.discount, TRUE, TRUE),
   provider_commission |-> Line(-Percentage(CommissionBase(in), in.provider), FALSE, TRUE),
   customer_commission |-> Line(Percentage(CommissionBase(in), in.customer), TRUE, FALSE),
   sales_tax |-> Line(IF withheld THEN -in.tax ELSE in.tax, ~withheld, withheld),
   promo    |-> Line(-in.promo, TRUE, FALSE)]

Counted(line, side) == IF side THEN line.amount ELSE 0
Payin(L) ==
  Counted(L.item, L.item.customer) + Counted(L.shipping, L.shipping.customer)
  + Counted(L.discount, L.discount.customer)
  + Counted(L.provider_commission, L.provider_commission.customer)
  + Counted(L.customer_commission, L.customer_commission.customer)
  + Counted(L.sales_tax, L.sales_tax.customer) + Counted(L.promo, L.promo.customer)
Payout(L) ==
  Counted(L.item, L.item.provider) + Counted(L.shipping, L.shipping.provider)
  + Counted(L.discount, L.discount.provider)
  + Counted(L.provider_commission, L.provider_commission.provider)
  + Counted(L.customer_commission, L.customer_commission.provider)
  + Counted(L.sales_tax, L.sales_tax.provider) + Counted(L.promo, L.promo.provider)

Compute(in) ==
  LET L == LineItems(in) IN
  [lines |-> L, payin |-> Payin(L), payout |-> Payout(L), margin |-> Payin(L) - Payout(L)]
=============================================================================
