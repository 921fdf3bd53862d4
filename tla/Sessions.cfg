\* One account, two requests at a time, at most three refresh tokens.
CONSTANTS
  Users = {u1}
  Credentials = {c1, c2, c3}
  Requests = {r1, r2}
  None = none
SYMMETRY SessionSymmetry
SPECIFICATION Spec
CHECK_DEADLOCK FALSE
INVARIANT TypeOK
INVARIANT RotatedIsConsumed
PROPERTY DeadStaysDead
PROPERTY BanTakesHold
