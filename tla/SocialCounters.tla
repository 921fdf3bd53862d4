----------------------------- MODULE SocialCounters -----------------------------
(***************************************************************************)
(* Follows, story likes and favorites, and the counters kept beside them   *)
(* (FollowService, StoryService, FavoriteService).  Adding or removing an  *)
(* edge and moving its counters is one database transaction of several     *)
(* statements, each of which takes a row lock and may have to wait.        *)
(***************************************************************************)
EXTENDS Integers, Sequences, FiniteSets

CONSTANTS
  Users, Stories, Listings,
  Requests,     \* the requests that can be under way at the same time
  None          \* no edge

VARIABLES
  edges,     \* the Follow, StoryLike and Favorite rows, as committed
  counters,  \* the denormalized counters, as committed
  notified,  \* the follows announced in the outbox
  tx         \* tx[r]: the transaction of request r

vars == <<edges, counters, notified, tx>>

-----------------------------------------------------------------------------
\* follow refuses to follow oneself.
Edges == {e \in [kind : {"follow"}, from : Users, to : Users] : e.from # e.to}
         \cup [kind : {"like"}, from : Users, to : Stories]
         \cup [kind : {"favorite"}, from : Users, to : Listings]

Counters == [row : Users, column : {"followers", "following"}]
            \cup [row : Stories, column : {"likes"}]

\* The counters an edge moves, in the order of the update statements.
Bumps(e) ==
  CASE e.kind = "follow" -> <<[row |-> e.to, column |-> "followers"],
                              [row |-> e.from, column |-> "following"]>>
    [] e.kind = "like"   -> <<[row |-> e.to, column |-> "likes"]>>
    [] OTHER             -> <<>>

Idle == [pc |-> "idle", edge |-> None, verb |-> "add", done |-> 0]

\* Transaction v has written edge e, and not yet committed.
Holds(v, e) == tx[v].pc = "bump" /\ tx[v].edge = e
EdgeFree(r) == \A v \in Requests \ {r} : ~Holds(v, tx[r].edge)

\* The rows of the counters it has updated.
Locked(v) == {Bumps(tx[v].edge)[i].row : i \in 1 .. tx[v].done}
Wanted(r) == Bumps(tx[r].edge)[tx[r].done + 1].row

End(r) == tx' = [tx EXCEPT ![r] = Idle] /\ UNCHANGED <<edges, counters, notified>>

-----------------------------------------------------------------------------
\* The request comes in.  deleteMany looks for the row: a request that removes an
\* edge that is not there, as committed, ends.
Begin(r, e, verb) ==
  /\ tx[r].pc = "idle" /\ (verb = "remove" => e \in edges)
  /\ tx' = [tx EXCEPT ![r] = [pc |-> "edge", edge |-> e, verb |-> verb, done |-> 0]]
  /\ UNCHANGED <<edges, counters, notified>>

\* Mutant: the outbox row is written beside the transaction.
WriteEdgeAnnounced(r) ==
  /\ tx[r].pc = "edge" /\ EdgeFree(r)
  /\ tx[r].verb = "add" => tx[r].edge \notin edges
  /\ notified' = notified \cup {e \in {tx[r].edge} : e.kind = "follow" /\ tx[r].verb = "add"}
  /\ tx' = [tx EXCEPT ![r].pc = "bump"]
  /\ UNCHANGED <<edges, counters>>

\* The insert, or the delete of the row that was found, once nobody else holds it.
WriteEdge(r) ==
  /\ tx[r].pc = "edge" /\ EdgeFree(r)
  /\ tx[r].verb = "add" => tx[r].edge \notin edges
  /\ tx' = [tx EXCEPT ![r].pc = "bump"]
  /\ UNCHANGED <<edges, counters, notified>>

\* Mutant: the duplicate key does not end the transaction.
DuplicateGoesOn(r) ==
  /\ tx[r].pc = "edge" /\ EdgeFree(r)
  /\ tx[r].verb = "add" /\ tx[r].edge \in edges
  /\ tx' = [tx EXCEPT ![r].pc = "bump"]
  /\ UNCHANGED <<edges, counters, notified>>

\* P2002, caught: the edge is there already.
Duplicate(r) ==
  /\ tx[r].pc = "edge" /\ EdgeFree(r)
  /\ tx[r].verb = "add" /\ tx[r].edge \in edges
  /\ End(r)

\* The next counter, once its row is free.
Bump(r) ==
  /\ tx[r].pc = "bump" /\ tx[r].done < Len(Bumps(tx[r].edge))
  /\ \A v \in Requests \ {r} : Wanted(r) \notin Locked(v)
  /\ tx' = [tx EXCEPT ![r].done = @ + 1]
  /\ UNCHANGED <<edges, counters, notified>>

Moved(r) ==
  LET e == tx[r].edge
      by == IF tx[r].verb = "add" THEN 1 ELSE -1
  IN  [c \in Counters |-> IF \E i \in 1 .. Len(Bumps(e)) : Bumps(e)[i] = c
                          THEN counters[c] + by ELSE counters[c]]

\* deleteMany waited for the row that r deletes: it deletes nothing, and ends.
Misses(r, v) ==
  /\ tx[v].pc = "edge" /\ tx[v].verb = "remove"
  /\ tx[r].verb = "remove" /\ tx[v].edge = tx[r].edge

Commit(r) ==
  /\ tx[r].pc = "bump" /\ tx[r].done = Len(Bumps(tx[r].edge))
  /\ edges' = IF tx[r].verb = "add" THEN edges \cup {tx[r].edge} ELSE edges \ {tx[r].edge}
  /\ counters' = Moved(r)
  /\ notified' = IF tx[r].verb = "add" /\ tx[r].edge.kind = "follow"
                 THEN notified \cup {tx[r].edge} ELSE notified
  /\ tx' = [v \in Requests |-> IF v = r \/ Misses(r, v) THEN Idle ELSE tx[v]]

-----------------------------------------------------------------------------
\* r waits for a row that v has locked.
Waits(r, v) ==
  \/ tx[r].pc = "edge" /\ Holds(v, tx[r].edge)
  \/ /\ tx[r].pc = "bump" /\ tx[r].done < Len(Bumps(tx[r].edge))
     /\ Wanted(r) \in Locked(v)

Deadlocked(S) == S # {} /\ \A r \in S : \E v \in S \ {r} : Waits(r, v)

\* Mutant: PostgreSQL does not look for deadlocks.
NoVictim(r) == FALSE /\ UNCHANGED vars

\* PostgreSQL rolls back a transaction of a deadlock.
Victim(r) ==
  /\ \E S \in SUBSET Requests :
       r \in S /\ Deadlocked(S) /\ \A v \in S : ~Deadlocked(S \ {v})
  /\ End(r)

\* The connection or the process is lost: the transaction is rolled back.
Rollback(r) == tx[r].pc # "idle" /\ End(r)

Init ==
  /\ edges = {}
  /\ counters = [c \in Counters |-> 0]
  /\ notified = {}
  /\ tx = [r \in Requests |-> Idle]

Step(r) == WriteEdge(r) \/ Duplicate(r) \/ Bump(r) \/ Commit(r) \/ Victim(r)

Next ==
  \E r \in Requests :
    \/ Step(r) \/ Rollback(r)
    \/ \E e \in Edges, verb \in {"add", "remove"} : Begin(r, e, verb)

Spec == Init /\ [][Next]_vars

\* The database runs the statements it can run, and finds deadlocks.  Strong fairness,
\* because it queues those who wait for a row: other requests that keep locking it
\* do not keep a waiting one from its turn.  Nobody has to send a request.
FairSpec == Spec /\ \A r \in Requests : SF_vars(Step(r))

-----------------------------------------------------------------------------
(* Properties. *)

TypeOK ==
  /\ edges \subseteq Edges
  /\ counters \in [Counters -> Nat]
  /\ notified \subseteq Edges
  /\ tx \in [Requests -> [pc : {"idle", "edge", "bump"}, edge : Edges \cup {None},
                          verb : {"add", "remove"}, done : 0 .. 2]]

Counted(c) ==
  {e \in edges : \E i \in 1 .. Len(Bumps(e)) : Bumps(e)[i] = c}

\* Counters never drift from the edge set, and so are never negative: not when the same
\* follow is added or removed twice at once, nor when a transaction of the two is
\* rolled back, by a deadlock for instance.
CountersMatchEdges == \A c \in Counters : counters[c] = Cardinality(Counted(c))

\* To whoever reads the tables, a request is one step or none: edge, counters and the
\* announcement of a follow appear together, once, or not at all.
Graph == INSTANCE SocialGraph WITH
  Touched   <- [e \in Edges |-> {Bumps(e)[i] : i \in 1 .. Len(Bumps(e))}],
  Announced <- {e \in Edges : e.kind = "follow"},
  news      <- notified
ImplementsGraph == Graph!Spec

\* No request waits for ever, although two follows of each other lock the two users
\* in opposite order.
RequestsEnd == \A r \in Requests : tx[r].pc # "idle" ~> tx[r].pc = "idle"
=============================================================================
