\* Two users, a story and a listing, two requests at a time.
CONSTANTS
  Users = {a, b}
  Stories = {s}
  Listings = {l}
  Requests = {r1, r2}
  None = none
SPECIFICATION FairSpec
INVARIANT CountersMatchEdges
PROPERTY RequestsEnd
PROPERTY ImplementsGraph
