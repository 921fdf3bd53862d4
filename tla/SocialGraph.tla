------------------------------ MODULE SocialGraph ------------------------------
(***************************************************************************)
(* What the social services promise to whoever reads their tables: edges   *)
(* come and go one at a time, the counters are those of the edges that are *)
(* there, and a new follow is announced, all in one step.  There are no    *)
(* requests, locks, duplicates or deadlocks here: SocialCounters shows     *)
(* that they do not show.                                                  *)
(***************************************************************************)
EXTENDS FiniteSets

CONSTANTS
  Edges, Counters,
  Touched,    \* Touched[e]: the counters that count edge e
  Announced   \* the edges whose arrival is announced

VARIABLES
  edges,     \* those that are there
  counters,
  news       \* the announcements made

gvars == <<edges, counters, news>>

Tally(E) == [c \in Counters |-> Cardinality({e \in E : c \in Touched[e]})]

Add(e) ==
  /\ e \notin edges
  /\ edges' = edges \cup {e}
  /\ counters' = Tally(edges')
  /\ news' = news \cup ({e} \cap Announced)

Remove(e) ==
  /\ e \in edges
  /\ edges' = edges \ {e}
  /\ counters' = Tally(edges')
  /\ UNCHANGED news

Init == edges = {} /\ counters = Tally({}) /\ news = {}

Next == \E e \in Edges : Add(e) \/ Remove(e)

Spec == Init /\ [][Next]_gvars
=============================================================================
