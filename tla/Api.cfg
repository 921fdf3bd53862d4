\* Two requests at a time by two users, nobody, an operator and a browser.
CONSTANTS
  Users = {u1, u2}
  Requests = {r1, r2}
  Tables = {"own", "session", "listing", "order", "story", "highlight", "user", "case"}
  None = none
SYMMETRY ApiSymmetry
SPECIFICATION Spec
INVARIANT EveryPathFindsItsRoute
INVARIANT CallersAreKnown
INVARIANT GuardedWrites
INVARIANT PermissionTakesHold
INVARIANT AnswersAreDeclared
INVARIANT DecisionsAreAudited
INVARIANT StatusTellsHistory
