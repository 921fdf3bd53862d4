------------------------------ MODULE CheckoutMC -------------------------------
(***************************************************************************)
(* TLC instances of Checkout.                                              *)
(***************************************************************************)
EXTENDS Checkout, TLC

\* On sale, and closed with another price and delivery.  With three of each and these
\* commissions a line falls on, below and above half a minor unit.
MCOffers ==
  {[published |-> TRUE, price |-> 5, pickup |-> FALSE, shipping |-> 7],
   [published |-> FALSE, price |-> 14, pickup |-> TRUE, shipping |-> None]}

MCFees == {[provider |-> 1000, customer |-> 450], [provider |-> 10000, customer |-> 220]}

CheckoutSymmetry == Permutations(Orders) \cup Permutations(Requests) \cup Permutations(Keys)
=============================================================================
