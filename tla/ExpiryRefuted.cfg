\* expire-payment after the buyer has paid.
CONSTANTS
  Orders = {o1}
  Sweeps = {w1}
  Client = client
  BatchSize = 1
  Requesters = {"customer"}
  MaxFaults = 0
SPECIFICATION Spec
CHECK_DEADLOCK FALSE
INVARIANT ExpiredKeepsNothing
