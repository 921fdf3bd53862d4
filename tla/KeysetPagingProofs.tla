--------------------------- MODULE KeysetPagingProofs ---------------------------
(***************************************************************************)
(* Proofs about KeysetPaging: for any rows, page size and direction, and   *)
(* any writers, pages deliver no row twice; and, as long as the sort       *)
(* column is not nullable, they skip none.                                 *)
(***************************************************************************)
EXTENDS KeysetPaging, TLAPS, FiniteSetTheorems

\* What is left to deliver, and what was delivered: a row that did not change is
\* delivered at most once, and never again once the cursor has passed it.
Usable == cursor.at = "after" /\ cursor.v # Null
DeliveredInv ==
  \A i \in Ids \ moved :
    /\ times[i] <= 1
    /\ times[i] = 1 => i \in Present /\ cursor # Start /\ (Usable => i \notin Selected)

\* A row that was there from the beginning is delivered or still to come.
AheadInv ==
  \A i \in Present \ (moved \cup born) :
    /\ cursor = End => times[i] = 1
    /\ cursor.at = "after" => times[i] = 1 \/ i \in Selected

\* The row comparison is a strict order of the pairs of values and ids.
LEMMA LessIsOrder ==
  /\ \A v, i \in Nat : ~Less(v, i, v, i)
  /\ \A v, i, w, j \in Nat : Less(v, i, w, j) => ~Less(w, j, v, i)
  /\ \A v, i, w, j \in Nat : Less(v, i, w, j) \/ Less(w, j, v, i) \/ (v = w /\ i = j)
  /\ \A v, i, w, j, x, k \in Nat :
       Less(v, i, w, j) /\ Less(w, j, x, k) => Less(v, i, x, k)
  BY SortAssumption DEF Less, Tie

\* ORDER BY is a strict order of the rows that are there, NULL or not.
LEMMA PrecedesIsOrder ==
  ASSUME TypeOK
  PROVE  /\ \A i \in Present : ~Precedes(i, i)
         /\ \A i, j \in Present : Precedes(i, j) => ~Precedes(j, i)
         /\ \A i, j \in Present : Precedes(i, j) \/ Precedes(j, i) \/ i = j
         /\ \A i, j, k \in Present : Precedes(i, j) /\ Precedes(j, k) => Precedes(i, k)
<1>1. \A i \in Present : i \in Nat /\ (rows[i] # Null => rows[i] \in Nat)
  BY IdsAssumption, MarksAssumption DEF TypeOK, Present, Column
<1>2. ASSUME NEW i \in Present, NEW j \in Present
      PROVE  /\ ~Precedes(i, i)
             /\ Precedes(i, j) => ~Precedes(j, i)
             /\ Precedes(i, j) \/ Precedes(j, i) \/ i = j
  BY <1>1, SortAssumption DEF Precedes, Less, Tie
<1>3. ASSUME NEW i \in Present, NEW j \in Present, NEW k \in Present,
             Precedes(i, j), Precedes(j, k)
      PROVE  Precedes(i, k)
  BY <1>1, <1>3, SortAssumption DEF Precedes, Less, Tie
<1> QED BY <1>2, <1>3

\* A page is cut where the order says: what is not on it comes after all that is.
LEMMA PageIsCut ==
  ASSUME TypeOK, NEW i \in Selected \ Page(Selected), NEW p \in Page(Selected)
  PROVE  Precedes(p, i)
<1> DEFINE Before(x) == {j \in Selected : Precedes(j, x)}
<1>1. Selected \subseteq Present /\ Page(Selected) \subseteq Selected
  BY DEF Selected, Page
<1>2. IsFiniteSet(Selected)
  BY <1>1, IdsAssumption, FS_Subset DEF Present
<1>3. SUFFICES ASSUME ~Precedes(p, i) PROVE FALSE
  OBVIOUS
<1>4. Precedes(i, p)
  BY <1>1, <1>3, PrecedesIsOrder
<1>5. Before(i) \subseteq Before(p)
  BY <1>1, <1>4, PrecedesIsOrder
<1>6. /\ IsFiniteSet(Before(p)) /\ IsFiniteSet(Before(i))
      /\ Cardinality(Before(i)) <= Cardinality(Before(p))
      /\ Cardinality(Before(i)) \in Nat /\ Cardinality(Before(p)) \in Nat
  BY <1>2, <1>5, FS_Subset, FS_CardinalityType
<1>7. Cardinality(Before(p)) < PerPage /\ ~(Cardinality(Before(i)) < PerPage)
  BY DEF Page
<1> QED BY <1>6, <1>7, PerPageAssumption

\* Where no page follows, all that was selected is on the page.
LEMMA LastPageIsAll ==
  ASSUME TypeOK, ~HasMore(Selected)
  PROVE  Page(Selected) = Selected
<1>1. Selected \subseteq Present
  BY DEF Selected
<1>2. IsFiniteSet(Selected) /\ Cardinality(Selected) \in Nat
  BY <1>1, IdsAssumption, FS_Subset, FS_CardinalityType DEF Present
<1>3. ASSUME NEW i \in Selected
      PROVE  Cardinality({j \in Selected : Precedes(j, i)}) < PerPage
  <2> DEFINE B == {j \in Selected : Precedes(j, i)}
  <2>1. B \subseteq Selected \ {i}
    BY <1>1, PrecedesIsOrder
  <2>2. IsFiniteSet(Selected \ {i}) /\ Cardinality(Selected \ {i}) = Cardinality(Selected) - 1
    BY <1>2, <1>3, FS_RemoveElement
  <2>3. Cardinality(B) <= Cardinality(Selected \ {i}) /\ Cardinality(B) \in Nat
    BY <2>1, <2>2, FS_Subset, FS_CardinalityType
  <2>4. Cardinality(Selected) <= PerPage
    BY <1>2, PerPageAssumption DEF HasMore
  <2> QED BY <1>2, <2>2, <2>3, <2>4, PerPageAssumption
<1> QED BY <1>3 DEF Page


-----------------------------------------------------------------------------
\* The variables keep their types.
THEOREM PagingTypes == Spec => []TypeOK
<1>1. Init => TypeOK
  BY DEF Init, TypeOK, Start
<1>2. TypeOK /\ [Next]_vars => TypeOK'
  <2> SUFFICES ASSUME TypeOK, [Next]_vars PROVE TypeOK'
    OBVIOUS
  <2>1. ASSUME Fetch PROVE TypeOK'
    <3>1. \A i \in Last(Selected) : i \in Ids /\ rows[i] \in Column
      BY DEF Last, Page, Selected, Present
    <3>2. times' \in [Ids -> Nat]
      BY <2>1 DEF Fetch, TypeOK
    <3>3. \/ cursor' \in {Start, End, Failed}
          \/ cursor'.at = "after" /\ cursor'.v \in Column /\ cursor'.id \in Ids
      BY <2>1, <3>1 DEF Fetch, After
    <3> QED BY <2>1, <3>2, <3>3 DEF Fetch, TypeOK, Start, End, Failed
  <2>2. ASSUME NEW i \in Ids, Insert(i) PROVE TypeOK'
    BY <2>2 DEF Insert, TypeOK, Start, End, Failed
  <2>3. ASSUME NEW i \in Ids, Change(i) PROVE TypeOK'
    BY <2>3 DEF Change, TypeOK, Start, End, Failed
  <2>4. CASE UNCHANGED vars
    BY <2>4 DEF vars, TypeOK, Start, End, Failed
  <2> QED BY <2>1, <2>2, <2>3, <2>4 DEF Next
<1> QED BY <1>1, <1>2, PTL DEF Spec

\* What Fetch does with the rows: none of the page was delivered before, and the
\* cursor is past all that was delivered.
LEMMA FetchDelivers ==
  ASSUME TypeOK, DeliveredInv, Fetch
  PROVE  DeliveredInv'
<1>1. CASE cursor.at = "after" /\ cursor.v = Null
  BY <1>1 DEF Fetch, DeliveredInv, Failed, Start, Usable, Present
<1>2. CASE ~(cursor.at = "after" /\ cursor.v = Null)
  <2> SUFFICES ASSUME NEW i \in Ids \ moved
               PROVE  /\ times'[i] <= 1
                      /\ times'[i] = 1 => /\ i \in Present' /\ cursor' # Start
                                          /\ Usable' => i \notin Selected'
    BY DEF Fetch, DeliveredInv
  <2>1. /\ rows' = rows /\ moved' = moved /\ Present' = Present
        /\ times' = [r \in Ids |-> IF r \in Page(Selected) THEN times[r] + 1 ELSE times[r]]
        /\ cursor' = End \/ \E l \in Last(Selected) : cursor' = After(l)
        /\ cursor = Start \/ Usable
    BY <1>2 DEF Fetch, Present, Usable, TypeOK, Start, End, Failed
  <2>2. times[i] \in Nat /\ times[i] <= 1 /\ cursor' # Start
    BY <2>1 DEF TypeOK, DeliveredInv, Start, End, After
  <2>3. Last(Selected) \subseteq Page(Selected) /\ Page(Selected) \subseteq Selected
        /\ Selected \subseteq Present
    BY DEF Last, Page, Selected
  <2>4. i \in Page(Selected) => times[i] = 0
    BY <2>1, <2>2, <2>3 DEF DeliveredInv
  <2>5. times'[i] <= 1 /\ (times'[i] = 1 => i \in Present)
    BY <2>1, <2>2, <2>3, <2>4 DEF DeliveredInv
  <2>6. ASSUME times'[i] = 1, Usable', i \in Selected' PROVE FALSE
    <3>1. PICK l \in Last(Selected) : cursor' = After(l)
      BY <2>1, <2>6 DEF Usable, End
    <3>2. /\ rows[l] # Null /\ rows[i] # Null /\ i \in Present /\ l \in Present
          /\ Less(rows[l], l, rows[i], i)
      BY <2>1, <2>3, <2>6, <3>1 DEF Selected, Usable, After
    <3>3. CASE i \in Page(Selected)
      <4>1. i = l \/ Precedes(i, l)
        BY <3>3 DEF Last
      <4>2. Precedes(l, i)
        BY <3>2 DEF Precedes
      <4> QED BY <3>2, <4>1, <4>2, PrecedesIsOrder
    <3>4. CASE i \notin Page(Selected)
      <4>1. times[i] = 1
        BY <2>1, <2>6, <3>4
      <4>2. Usable /\ i \notin Selected
        BY <2>1, <4>1 DEF DeliveredInv
      <4>3. Less(cursor.v, cursor.id, rows[l], l)
        BY <2>3, <4>2 DEF Selected, Usable
      <4>4. /\ cursor.v \in Nat /\ cursor.id \in Nat /\ rows[l] \in Nat
            /\ rows[i] \in Nat /\ l \in Nat /\ i \in Nat
        <5>1. cursor.at = "after" /\ cursor.v \in Column /\ cursor.id \in Ids
          BY <4>2 DEF TypeOK, Usable, Start, End, Failed
        <5>2. Column \ {Null} \subseteq Nat
          BY IdsAssumption DEF Column
        <5>3. rows[l] \in Column /\ rows[i] \in Column /\ l \in Ids /\ i \in Ids
          BY <3>2 DEF Present
        <5> QED BY <3>2, <4>2, <5>1, <5>2, <5>3, IdsAssumption DEF Usable
      <4>5. Less(cursor.v, cursor.id, rows[i], i)
        BY <3>2, <4>3, <4>4, LessIsOrder
      <4> QED BY <3>2, <4>2, <4>5 DEF Selected
    <3> QED BY <3>3, <3>4
  <2> QED BY <2>1, <2>2, <2>5, <2>6
<1> QED BY <1>1, <1>2

\* No step, of the client or of anybody else, makes a row come twice.
LEMMA DeliveredIsInductive ==
  ASSUME TypeOK, DeliveredInv, [Next]_vars
  PROVE  DeliveredInv'
<1>1. ASSUME Fetch PROVE DeliveredInv'
  BY <1>1, FetchDelivers
<1>2. ASSUME NEW k \in Ids, Insert(k) PROVE DeliveredInv'
  <2>1. k \notin Present
    BY <1>2, MarksAssumption DEF Insert, Present, Column
  <2>2. \A i \in Ids \ {k} : rows'[i] = rows[i]
    BY <1>2 DEF Insert, TypeOK
  <2>3. Usable' = Usable /\ times' = times /\ moved' = moved /\ cursor' = cursor
    BY <1>2 DEF Insert, Usable
  <2>4. ASSUME NEW i \in Ids \ {k}
        PROVE  (i \in Present' <=> i \in Present) /\ (i \in Selected' <=> i \in Selected)
    BY <2>2, <2>3 DEF Present, Selected
  <2> QED BY <2>1, <2>3, <2>4 DEF DeliveredInv
<1>3. ASSUME NEW k \in Ids, Change(k) PROVE DeliveredInv'
  <2>1. \A i \in Ids \ {k} : rows'[i] = rows[i]
    BY <1>3 DEF Change, TypeOK
  <2>2. Usable' = Usable /\ times' = times /\ moved' = moved \cup {k} /\ cursor' = cursor
    BY <1>3 DEF Change, Usable
  <2>3. ASSUME NEW i \in Ids \ {k}
        PROVE  (i \in Present' <=> i \in Present) /\ (i \in Selected' <=> i \in Selected)
    BY <2>1, <2>2 DEF Present, Selected
  <2> QED BY <2>2, <2>3 DEF DeliveredInv
<1>4. CASE UNCHANGED vars
  BY <1>4 DEF vars, DeliveredInv, Usable, Present, Selected
<1> QED BY <1>1, <1>2, <1>3, <1>4 DEF Next

\* For any page size, direction, nullable or not, and whatever others do: no row is
\* delivered on two pages unless its own sort value changed.
THEOREM NoRowComesTwice == Spec => []SeenOnce
<1>1. Init => DeliveredInv
  BY DEF Init, DeliveredInv
<1>2. TypeOK /\ DeliveredInv /\ [Next]_vars => DeliveredInv'
  BY DeliveredIsInductive
<1>3. DeliveredInv => SeenOnce
  BY DEF DeliveredInv, SeenOnce
<1> QED BY <1>1, <1>2, <1>3, PagingTypes, PTL DEF Spec

-----------------------------------------------------------------------------
\* As long as the sort column has no NULL, a fetch leaves no row behind.
LEMMA FetchKeepsAhead ==
  ASSUME ~Nullable, TypeOK, DeliveredInv, AheadInv, Fetch
  PROVE  AheadInv'
<1>1. /\ rows' = rows /\ moved' = moved /\ born' = born /\ Present' = Present
  BY DEF Fetch, Present
<1>2. \A i \in Present : rows[i] # Null
  BY MarksAssumption DEF Present, Column
<1>3. CASE cursor.at = "after" /\ cursor.v = Null
  BY <1>1, <1>3 DEF Fetch, AheadInv, Failed, End
<1>4. CASE ~(cursor.at = "after" /\ cursor.v = Null)
  <2> SUFFICES ASSUME NEW i \in Present \ (moved \cup born)
               PROVE  /\ cursor' = End => times'[i] = 1
                      /\ cursor'.at = "after" => times'[i] = 1 \/ i \in Selected'
    BY <1>1 DEF AheadInv
  <2>1. /\ times' = [r \in Ids |-> IF r \in Page(Selected) THEN times[r] + 1 ELSE times[r]]
        /\ IF HasMore(Selected) THEN \E l \in Last(Selected) : cursor' = After(l)
                                ELSE cursor' = End
    BY <1>4 DEF Fetch
  <2>2. i \in Ids /\ i \notin moved /\ times[i] \in Nat /\ times[i] <= 1
    BY DEF Present, TypeOK, DeliveredInv
  <2>3. i \in Selected \/ times[i] = 1
    <3>1. cursor.at \in {"start", "after"}
      BY DEF Fetch
    <3> QED BY <3>1 DEF AheadInv, Selected
  <2>4. CASE i \in Page(Selected)
    <3>1. times'[i] = times[i] + 1
      BY <2>1, <2>2, <2>4
    <3>2. times'[i] <= 1
      BY <1>1, <2>2, FetchDelivers DEF DeliveredInv
    <3> QED BY <2>2, <3>1, <3>2
  <2>5. CASE i \in Selected \ Page(Selected)
    <3>1. HasMore(Selected)
      BY <2>5, LastPageIsAll
    <3>2. PICK l \in Last(Selected) : cursor' = After(l)
      BY <2>1, <3>1
    <3>3. l \in Page(Selected) /\ l \in Present
      BY DEF Last, Page, Selected
    <3>4. Precedes(l, i)
      BY <2>5, <3>3, PageIsCut
    <3>5. Less(rows[l], l, rows[i], i)
      BY <1>2, <3>3, <3>4 DEF Precedes
    <3>6. i \in Selected'
      BY <1>1, <1>2, <3>2, <3>5 DEF Selected, After
    <3>7. cursor' # End
      BY <3>2 DEF After, End
    <3> QED BY <3>6, <3>7
  <2>6. CASE i \notin Selected
    <3>1. times'[i] = 1
      BY <2>1, <2>2, <2>3, <2>6 DEF Page
    <3> QED BY <3>1
  <2> QED BY <2>4, <2>5, <2>6
<1> QED BY <1>3, <1>4

\* Rows that others insert or change are not the ones the client must see.
LEMMA AheadIsInductive ==
  ASSUME ~Nullable, TypeOK, DeliveredInv, AheadInv, [Next]_vars
  PROVE  AheadInv'
<1>1. ASSUME Fetch PROVE AheadInv'
  BY <1>1, FetchKeepsAhead
<1>2. ASSUME NEW k \in Ids, Insert(k) PROVE AheadInv'
  <2>1. \A i \in Ids \ {k} : rows'[i] = rows[i]
    BY <1>2 DEF Insert, TypeOK
  <2>2. times' = times /\ moved' = moved /\ born' = born \cup {k} /\ cursor' = cursor
    BY <1>2 DEF Insert
  <2>3. ASSUME NEW i \in Ids \ {k}
        PROVE  (i \in Present' <=> i \in Present) /\ (i \in Selected' <=> i \in Selected)
    BY <2>1, <2>2 DEF Present, Selected
  <2>4. Present' \subseteq Ids
    BY DEF Present
  <2> QED BY <2>2, <2>3, <2>4 DEF AheadInv
<1>3. ASSUME NEW k \in Ids, Change(k) PROVE AheadInv'
  <2>1. \A i \in Ids \ {k} : rows'[i] = rows[i]
    BY <1>3 DEF Change, TypeOK
  <2>2. times' = times /\ moved' = moved \cup {k} /\ born' = born /\ cursor' = cursor
    BY <1>3 DEF Change
  <2>3. ASSUME NEW i \in Ids \ {k}
        PROVE  (i \in Present' <=> i \in Present) /\ (i \in Selected' <=> i \in Selected)
    BY <2>1, <2>2 DEF Present, Selected
  <2>4. Present' \subseteq Ids
    BY DEF Present
  <2> QED BY <2>2, <2>3, <2>4 DEF AheadInv
<1>4. CASE UNCHANGED vars
  BY <1>4 DEF vars, AheadInv, Present, Selected
<1> QED BY <1>1, <1>2, <1>3, <1>4 DEF Next

\* For any page size and direction: where the sort column is not nullable, who reads
\* to the end has seen every row that was there all along.
THEOREM ListIsComplete ==
  ASSUME ~Nullable
  PROVE  Spec => []NothingSkipped
<1>1. Init => DeliveredInv /\ AheadInv
  BY DEF Init, DeliveredInv, AheadInv, Start, End
<1>2. TypeOK /\ DeliveredInv /\ AheadInv /\ [Next]_vars => (DeliveredInv /\ AheadInv)'
  BY DeliveredIsInductive, AheadIsInductive
<1>3. AheadInv => NothingSkipped
  BY DEF AheadInv, NothingSkipped
<1> QED BY <1>1, <1>2, <1>3, PagingTypes, PTL DEF Spec

=============================================================================
