------------------------- MODULE SocialCountersProofs --------------------------
(***************************************************************************)
(* The counters of follows and likes match the rows they count, for any    *)
(* number of users, stories, listings and concurrent requests.             *)
(***************************************************************************)
EXTENDS SocialCounters, FiniteSetTheorems, TLAPS

Touches(e, c) == \E i \in 1 .. Len(Bumps(e)) : Bumps(e)[i] = c

TxRows == [pc : {"idle", "edge", "bump"}, edge : Edges \cup {None},
           verb : {"add", "remove"}, done : 0 .. 2]

\* What a transaction knows of the rows: the edge it deletes is there from the moment it
\* was found, and the one it inserted is not there until it commits.
Informed(t) ==
  /\ t.pc # "idle" => t.edge \in Edges
  /\ t.pc # "idle" /\ t.verb = "remove" => t.edge \in edges
  /\ t.pc = "bump" /\ t.verb = "add" => t.edge \notin edges

\* Nobody else has written the edge that a transaction has written.
Exclusive ==
  \A r, v \in Requests :
    tx[r].pc = "bump" /\ tx[v].pc = "bump" /\ tx[r].edge = tx[v].edge => r = v

IInv ==
  /\ edges \subseteq Edges /\ IsFiniteSet(edges) /\ notified \subseteq Edges
  /\ tx \in [Requests -> TxRows]
  /\ \A r \in Requests : Informed(tx[r])
  /\ Exclusive
  /\ counters \in [Counters -> Int]
  /\ CountersMatchEdges

-----------------------------------------------------------------------------
\* No edge moves more than two counters.
LEMMA BumpsAreFew ==
  ASSUME NEW e \in Edges
  PROVE  Len(Bumps(e)) \in 0 .. 2
  BY DEF Bumps

\* A request that has begun nothing knows nothing of the rows.
LEMMA IdleIsInformed == Idle \in TxRows /\ Informed(Idle) /\ Idle.pc = "idle"
  BY DEF Idle, TxRows, Informed

\* What is counted is a finite set.
LEMMA CountedFinite ==
  ASSUME IInv, NEW c
  PROVE  /\ IsFiniteSet(Counted(c)) /\ Cardinality(Counted(c)) \in Nat
         /\ Counted(c) = {e \in edges : Touches(e, c)}
<1>1. Counted(c) = {e \in edges : Touches(e, c)}
  BY DEF Counted, Touches
<1>2. IsFiniteSet(Counted(c))
  BY <1>1, FS_Subset DEF IInv
<1> QED
  BY <1>1, <1>2, FS_CardinalityType

\* Empty tables and counters at zero are consistent.
LEMMA InitIsSound == Init => IInv
<1> SUFFICES ASSUME Init PROVE IInv
  OBVIOUS
<1>1. edges = {} /\ notified = {} /\ IsFiniteSet(edges) /\ Cardinality({}) = 0
  BY FS_EmptySet DEF Init
<1>2. tx \in [Requests -> TxRows] /\ \A r \in Requests : tx[r] = Idle
  BY IdleIsInformed DEF Init
<1>3. Exclusive /\ \A r \in Requests : Informed(tx[r])
  BY <1>2, IdleIsInformed DEF Exclusive
<1>4. counters \in [Counters -> Int] /\ \A c \in Counters : counters[c] = 0
  BY DEF Init
<1>5. \A c : Counted(c) = {}
  BY <1>1 DEF Counted
<1>6. CountersMatchEdges
  BY <1>1, <1>4, <1>5 DEF CountersMatchEdges
<1> QED
  BY <1>1, <1>2, <1>3, <1>4, <1>6 DEF IInv

\* A step of one transaction that commits nothing.
LEMMA PrivateStep ==
  ASSUME IInv, NEW r \in Requests, NEW t \in TxRows, Informed(t),
         tx' = [tx EXCEPT ![r] = t], UNCHANGED <<edges, counters, notified>>,
         t.pc = "bump" => \A v \in Requests \ {r} : ~(tx[v].pc = "bump" /\ tx[v].edge = t.edge)
  PROVE  IInv'
<1>1. \A v \in Requests : tx'[v] = IF v = r THEN t ELSE tx[v]
  BY DEF IInv
<1>2. tx' \in [Requests -> TxRows]
  BY DEF IInv
<1>3. \A v \in Requests : Informed(tx[v])'
  BY <1>1 DEF IInv, Informed
<1>4. Exclusive'
  BY <1>1 DEF IInv, Exclusive
<1>5. CountersMatchEdges'
  BY DEF IInv, CountersMatchEdges, Counted
<1> QED
  BY <1>2, <1>3, <1>4, <1>5 DEF IInv

\* A request that ends without a commit.
LEMMA EndStep ==
  ASSUME IInv, NEW r \in Requests, End(r)
  PROVE  IInv'
  BY IdleIsInformed, PrivateStep DEF End

-----------------------------------------------------------------------------
\* The commit adds or removes the one edge and moves exactly the counters that count it.
LEMMA CommitStep ==
  ASSUME IInv, NEW r \in Requests, Commit(r)
  PROVE  IInv'
<1> DEFINE e == tx[r].edge
<1>0. /\ e \in Edges /\ tx[r].pc = "bump" /\ tx[r].verb \in {"add", "remove"}
      /\ tx[r].verb = "add" => e \notin edges
      /\ tx[r].verb = "remove" => e \in edges
  BY DEF IInv, Informed, Commit, TxRows
<1>1. edges' = IF tx[r].verb = "add" THEN edges \cup {e} ELSE edges \ {e}
  BY DEF Commit
<1>2. edges' \subseteq Edges /\ IsFiniteSet(edges') /\ notified' \subseteq Edges
  <2>1. IsFiniteSet(edges \cup {e}) /\ IsFiniteSet(edges \ {e})
    BY FS_AddElement, FS_RemoveElement DEF IInv
  <2> QED
    BY <2>1, <1>0, <1>1 DEF IInv, Commit
<1>3. \A v \in Requests : tx'[v] = IF v = r \/ Misses(r, v) THEN Idle ELSE tx[v]
  BY DEF Commit
<1>4. tx' \in [Requests -> TxRows]
  BY IdleIsInformed DEF IInv, Commit
<1>5. ASSUME NEW v \in Requests PROVE Informed(tx[v])'
  <2>1. CASE v = r \/ Misses(r, v)
    BY <2>1, <1>3, IdleIsInformed DEF Informed
  <2>2. CASE ~(v = r \/ Misses(r, v))
    <3>1. tx'[v] = tx[v] /\ Informed(tx[v]) /\ tx[v] \in TxRows
      BY <2>2, <1>3 DEF IInv
    <3>2. tx[v].pc = "bump" => tx[v].edge # e
      BY <2>2, <1>0 DEF IInv, Exclusive
    <3>3. tx[v].pc # "idle" /\ tx[v].verb = "remove" => tx[v].edge \in edges'
      <4> SUFFICES ASSUME tx[v].pc # "idle", tx[v].verb = "remove" PROVE tx[v].edge \in edges'
        OBVIOUS
      <4>1. tx[v].edge \in edges
        BY <3>1 DEF Informed
      <4>2. tx[r].verb = "remove" => tx[v].edge # e
        BY <2>2, <3>1, <3>2 DEF Misses, TxRows
      <4> QED
        BY <4>1, <4>2, <1>0, <1>1
    <3>4. tx[v].pc = "bump" /\ tx[v].verb = "add" => tx[v].edge \notin edges'
      BY <3>1, <3>2, <1>1 DEF Informed
    <3>5. tx[v].pc # "idle" => tx[v].edge \in Edges
      BY <3>1 DEF Informed
    <3> QED
      BY <3>1, <3>3, <3>4, <3>5 DEF Informed
  <2> QED
    BY <2>1, <2>2
<1>6. Exclusive'
  BY <1>3, IdleIsInformed DEF IInv, Exclusive
<1>7. \A c \in Counters : counters'[c] =
        IF Touches(e, c) THEN counters[c] + (IF tx[r].verb = "add" THEN 1 ELSE -1)
        ELSE counters[c]
  BY DEF Commit, Moved, Touches
<1>8. counters' \in [Counters -> Int]
  <2>1. \A c \in Counters : counters[c] \in Int
    BY DEF IInv
  <2>2. DOMAIN counters' = Counters /\ counters' = [c \in Counters |-> counters'[c]]
    BY DEF Commit, Moved
  <2>3. \A c \in Counters : counters'[c] \in Int
    BY <2>1, <1>7
  <2> QED
    BY <2>2, <2>3
<1>9. ASSUME NEW c \in Counters PROVE counters'[c] = Cardinality(Counted(c)')
  <2>1. /\ IsFiniteSet(Counted(c)) /\ Cardinality(Counted(c)) \in Nat
        /\ Counted(c) = {x \in edges : Touches(x, c)}
    BY CountedFinite
  <2>2. Counted(c)' = {x \in edges' : Touches(x, c)}
    BY DEF Counted, Touches
  <2>3. counters[c] = Cardinality(Counted(c))
    BY DEF IInv, CountersMatchEdges
  <2>4. CASE ~Touches(e, c)
    <3>1. Counted(c)' = Counted(c)
      BY <2>1, <2>2, <2>4, <1>1
    <3> QED
      BY <3>1, <2>3, <2>4, <1>7
  <2>5. CASE Touches(e, c) /\ tx[r].verb = "add"
    <3>1. Counted(c)' = Counted(c) \cup {e} /\ e \notin Counted(c)
      BY <2>1, <2>2, <2>5, <1>0, <1>1
    <3>2. Cardinality(Counted(c) \cup {e}) = Cardinality(Counted(c)) + 1
      BY <2>1, <3>1, FS_AddElement
    <3> QED
      BY <3>1, <3>2, <2>3, <2>5, <1>7
  <2>6. CASE Touches(e, c) /\ tx[r].verb = "remove"
    <3>1. Counted(c)' = Counted(c) \ {e} /\ e \in Counted(c)
      BY <2>1, <2>2, <2>6, <1>0, <1>1
    <3>2. Cardinality(Counted(c) \ {e}) = Cardinality(Counted(c)) - 1
      BY <2>1, <3>1, FS_RemoveElement
    <3>3. counters'[c] = counters[c] + (-1)
      BY <2>6, <1>7
    <3> QED
      BY <2>1, <3>1, <3>2, <3>3, <2>3
  <2> QED
    BY <2>4, <2>5, <2>6, <1>0
<1>10. CountersMatchEdges'
  BY <1>9 DEF CountersMatchEdges
<1> QED
  BY <1>2, <1>4, <1>5, <1>6, <1>8, <1>10 DEF IInv

\* A transaction that has looked for its edge has written nothing.
LEMMA BeginStep ==
  ASSUME IInv, NEW r \in Requests, NEW e \in Edges, NEW verb \in {"add", "remove"},
         Begin(r, e, verb)
  PROVE  IInv'
<1> DEFINE t == [pc |-> "edge", edge |-> e, verb |-> verb, done |-> 0]
<1>1. t \in TxRows /\ Informed(t) /\ t.pc = "edge"
  BY DEF TxRows, Informed, Begin
<1>2. tx' = [tx EXCEPT ![r] = t] /\ UNCHANGED <<edges, counters, notified>>
  BY DEF Begin
<1> HIDE DEF t
<1> QED
  BY <1>1, <1>2, PrivateStep

\* Writing the edge takes its lock: no other transaction has written it.
LEMMA WriteEdgeStep ==
  ASSUME IInv, NEW r \in Requests, WriteEdge(r)
  PROVE  IInv'
<1> DEFINE t == [tx[r] EXCEPT !.pc = "bump"]
<1>1. tx[r] \in TxRows /\ Informed(tx[r])
  BY DEF IInv
<1>2. t \in TxRows /\ t.pc = "bump" /\ t.edge = tx[r].edge /\ t.verb = tx[r].verb
  BY <1>1 DEF TxRows
<1>3. Informed(t)
  BY <1>1, <1>2 DEF WriteEdge, Informed
<1>4. tx' = [tx EXCEPT ![r] = t] /\ UNCHANGED <<edges, counters, notified>>
  BY DEF WriteEdge, IInv
<1>5. \A v \in Requests \ {r} : ~(tx[v].pc = "bump" /\ tx[v].edge = t.edge)
  BY <1>2 DEF WriteEdge, EdgeFree, Holds
<1> HIDE DEF t
<1> QED
  BY <1>2, <1>3, <1>4, <1>5, PrivateStep

\* A counter's row is locked one after the other, the edge's lock being kept.
LEMMA BumpStep ==
  ASSUME IInv, NEW r \in Requests, Bump(r)
  PROVE  IInv'
<1> DEFINE t == [tx[r] EXCEPT !.done = tx[r].done + 1]
<1>1. tx[r] \in TxRows /\ Informed(tx[r])
  BY DEF IInv
<1>2. tx[r].pc = "bump" /\ tx[r].edge \in Edges /\ tx[r].done < Len(Bumps(tx[r].edge))
  BY <1>1 DEF Bump, Informed
<1>3. tx[r].done + 1 \in 0 .. 2
  <2>1. tx[r].done \in 0 .. 2
    BY <1>1 DEF TxRows
  <2>2. Len(Bumps(tx[r].edge)) \in 0 .. 2
    BY <1>2, BumpsAreFew
  <2>3. \A d, n \in 0 .. 2 : d < n => d + 1 \in 0 .. 2
    OBVIOUS
  <2> HIDE DEF t
  <2> QED
    BY <1>2, <2>1, <2>2, <2>3
<1>4. /\ t \in TxRows /\ t.pc = "bump" /\ t.edge = tx[r].edge /\ t.verb = tx[r].verb
  BY <1>1, <1>2, <1>3 DEF TxRows
<1>5. Informed(t)
  BY <1>1, <1>2, <1>4 DEF Informed
<1>6. tx' = [tx EXCEPT ![r] = t] /\ UNCHANGED <<edges, counters, notified>>
  BY DEF Bump, IInv
<1>7. \A v \in Requests \ {r} : ~(tx[v].pc = "bump" /\ tx[v].edge = t.edge)
  BY <1>2, <1>4 DEF IInv, Exclusive
<1> HIDE DEF t
<1> QED
  BY <1>4, <1>5, <1>6, <1>7, PrivateStep

\* Every step of every request keeps the invariant.
LEMMA StepIsSound == IInv /\ [Next]_vars => IInv'
<1> SUFFICES ASSUME IInv, [Next]_vars PROVE IInv'
  OBVIOUS
<1>1. ASSUME NEW r \in Requests, Step(r) \/ Rollback(r) PROVE IInv'
  <2>1. CASE Duplicate(r) \/ Victim(r) \/ Rollback(r)
    BY <2>1, EndStep DEF Duplicate, Victim, Rollback
  <2> QED
    BY <1>1, <2>1, WriteEdgeStep, BumpStep, CommitStep DEF Step
<1>2. ASSUME NEW r \in Requests, NEW e \in Edges, NEW verb \in {"add", "remove"},
             Begin(r, e, verb)
      PROVE  IInv'
  BY <1>2, BeginStep
<1>3. CASE UNCHANGED vars
  BY <1>3 DEF vars, IInv, Informed, Exclusive, CountersMatchEdges, Counted
<1> QED
  BY <1>1, <1>2, <1>3 DEF Next

\* The inductive invariant of the counters.
THEOREM SocialSound == Spec => []IInv
  BY InitIsSound, StepIsSound, PTL DEF Spec

\* The counters of follows and likes match the rows, whatever requests run at once and
\* whichever of them are rolled back.
THEOREM SocialCountersMatchEdges == Spec => []CountersMatchEdges
<1>1. IInv => CountersMatchEdges
  BY DEF IInv
<1> QED
  BY <1>1, SocialSound, PTL

\* The variables keep their types: the counters are never negative.
THEOREM SocialTypeCorrect == Spec => []TypeOK
<1>1. ASSUME IInv PROVE TypeOK
  <2>1. \A c \in Counters : counters[c] \in Nat
    BY <1>1, CountedFinite DEF IInv, CountersMatchEdges
  <2>2. counters \in [Counters -> Nat]
    BY <1>1, <2>1 DEF IInv
  <2> QED
    BY <1>1, <2>2 DEF IInv, TypeOK, TxRows
<1> QED
  BY <1>1, SocialSound, PTL

-----------------------------------------------------------------------------
(* The counters implement SocialGraph. *)

\* The counters of a set of edges are what CountersMatchEdges says.
LEMMA TallyCounts ==
  /\ IInv => counters = Graph!Tally(edges)
  /\ IInv' => counters' = Graph!Tally(edges')
<1>1. \A S : Graph!Cardinality(S) = Cardinality(S)
  BY Zenon DEF Graph!Cardinality, Cardinality
<1>2. \A e \in Edges : \A c :
        c \in {Bumps(e)[i] : i \in 1 .. Len(Bumps(e))} <=> Touches(e, c)
  BY DEF Touches
<1>3. ASSUME IInv PROVE counters = Graph!Tally(edges)
  <2>1. counters = [c \in Counters |-> counters[c]]
    BY <1>3 DEF IInv
  <2>2. ASSUME NEW c \in Counters
        PROVE  counters[c] = Cardinality({e \in edges :
                 c \in [x \in Edges |-> {Bumps(x)[i] : i \in 1 .. Len(Bumps(x))}][e]})
    <3>1. counters[c] = Cardinality({e \in edges : Touches(e, c)})
      BY <1>3, CountedFinite DEF IInv, CountersMatchEdges
    <3>2. {e \in edges : Touches(e, c)} = {e \in edges :
             c \in [x \in Edges |-> {Bumps(x)[i] : i \in 1 .. Len(Bumps(x))}][e]}
      BY <1>2, <1>3 DEF IInv
    <3> QED
      BY <3>1, <3>2
  <2> QED
    BY <1>1, <2>1, <2>2 DEF Graph!Tally
<1>4. ASSUME IInv' PROVE counters' = Graph!Tally(edges')
  <2>1. counters' = [c \in Counters |-> counters'[c]]
    BY <1>4 DEF IInv
  <2>2. ASSUME NEW c \in Counters
        PROVE  counters'[c] = Cardinality({e \in edges' :
                 c \in [x \in Edges |-> {Bumps(x)[i] : i \in 1 .. Len(Bumps(x))}][e]})
    <3>1. counters'[c] = Cardinality({e \in edges' : Touches(e, c)})
      BY <1>4 DEF IInv, CountersMatchEdges, Counted, Touches
    <3>2. {e \in edges' : Touches(e, c)} = {e \in edges' :
             c \in [x \in Edges |-> {Bumps(x)[i] : i \in 1 .. Len(Bumps(x))}][e]}
      BY <1>2, <1>4 DEF IInv
    <3> QED
      BY <3>1, <3>2
  <2> QED
    BY <1>1, <2>1, <2>2 DEF Graph!Tally
<1> QED
  BY <1>3, <1>4

\* A commit adds or removes the edge that its transaction knows to be gone or there.
LEMMA CommitRefines ==
  ASSUME IInv, NEW r \in Requests, Commit(r)
  PROVE  Graph!Next
<1> DEFINE e == tx[r].edge
<1>1. /\ e \in Edges /\ tx[r].verb \in {"add", "remove"}
      /\ tx[r].verb = "add" => e \notin edges
      /\ tx[r].verb = "remove" => e \in edges
  BY DEF IInv, Informed, Commit, TxRows
<1>2. counters' = Graph!Tally(edges')
  BY CommitStep, TallyCounts
<1>3. CASE tx[r].verb = "add"
  <2>1. edges' = edges \cup {e}
    BY <1>3 DEF Commit
  <2>2. notified' = notified \cup ({e} \cap {x \in Edges : x.kind = "follow"})
    BY <1>1, <1>3 DEF Commit
  <2> QED
    BY <1>1, <1>2, <1>3, <2>1, <2>2 DEF Graph!Next, Graph!Add
<1>4. CASE tx[r].verb = "remove"
  <2>1. edges' = edges \ {e} /\ notified' = notified
    BY <1>4 DEF Commit
  <2> QED
    BY <1>1, <1>2, <1>4, <2>1 DEF Graph!Next, Graph!Remove
<1> QED
  BY <1>1, <1>3, <1>4

\* No other step can be seen in the tables.
LEMMA StepRefines == IInv /\ [Next]_vars => [Graph!Next]_(Graph!gvars)
<1> SUFFICES ASSUME IInv, [Next]_vars PROVE [Graph!Next]_(Graph!gvars)
  OBVIOUS
<1>1. ASSUME NEW r \in Requests,
             \/ WriteEdge(r) \/ Duplicate(r) \/ Bump(r) \/ Victim(r) \/ Rollback(r)
             \/ \E e \in Edges, verb \in {"add", "remove"} : Begin(r, e, verb)
      PROVE  UNCHANGED <<edges, counters, notified>>
  BY <1>1 DEF WriteEdge, Duplicate, Bump, Victim, Rollback, Begin, End
<1>2. CASE UNCHANGED vars
  BY <1>2 DEF vars, Graph!gvars
<1> QED
  BY <1>1, <1>2, CommitRefines DEF Next, Step, Graph!gvars

\* Seen through the tables, follows, likes and favorites are SocialGraph: one step each, with
\* their counters and their announcement, or none.
THEOREM SocialImplementsGraph == Spec => ImplementsGraph
<1>1. Init => Graph!Init
  BY InitIsSound, TallyCounts DEF Init, Graph!Init
<1> QED
  BY <1>1, SocialSound, StepRefines, PTL DEF Spec, ImplementsGraph, Graph!Spec
=============================================================================
