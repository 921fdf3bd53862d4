\* One buyer who sends the same checkout again.
CONSTANTS
  Users = {b1, seller}
  Seller = seller
  Orders = {o1, o2}
  Requests = {r1}
  Keys = {k1}
  Quantities = {1}
  Offers <- MCOffers
  Fees <- MCFees
  None = none
SPECIFICATION Spec
INVARIANT ReplayIsOneOrder
