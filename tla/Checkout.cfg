\* One buyer and the seller, two orders, two requests at a time, three states of the
\* listing and two commissions.
CONSTANTS
  Users = {b1, seller}
  Seller = seller
  Orders = {o1, o2}
  Requests = {r1, r2}
  Keys = {k1}
  Quantities = {3}
  Offers <- MCOffers
  Fees <- MCFees
  None = none
SYMMETRY CheckoutSymmetry
SPECIFICATION Spec
CHECK_DEADLOCK FALSE
INVARIANT OnePrice
INVARIANT FairSplit
INVARIANT OneIntent
PROPERTY KeepsLifecycle
