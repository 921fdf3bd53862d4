------------------------------ MODULE KeysetPaging ------------------------------
(***************************************************************************)
(* A client reads a list page by page with the keyset cursor of            *)
(* cursor.util.ts, the way SearchService.queryListings and the lists of    *)
(* the other services do, while the rows of the list come, change and go.  *)
(***************************************************************************)
EXTENDS Naturals, FiniteSets

CONSTANTS
  Ids,         \* the ids of the rows, ordered as uuids are
  Values,      \* the values of the sort column
  Nullable,    \* the sort column can be NULL (price_amount can, created_at cannot)
  Descending,  \* the direction of the sort
  PerPage,     \* perPage
  MaxInserts, MaxMoved, \* bounds on the rows inserted and changed meanwhile
  Null,        \* NULL
  NotYet, Gone \* a row before its insertion, and after its deletion

ASSUME IdsAssumption == Ids \subseteq Nat /\ IsFiniteSet(Ids) /\ Values \subseteq Nat
ASSUME SortAssumption == Nullable \in BOOLEAN /\ Descending \in BOOLEAN
ASSUME PerPageAssumption == PerPage \in Nat \ {0}
ASSUME BoundsAssumption == MaxInserts \in Nat /\ MaxMoved \in Nat
ASSUME MarksAssumption == /\ Null \notin Values /\ NotYet \notin Values \cup {Null}
                          /\ Gone \notin Values \cup {Null, NotYet}

VARIABLES
  rows,    \* rows[i]: the sort value of row i, or NotYet, or Gone
  cursor,  \* where the client stands
  times,   \* times[i]: how often row i was delivered to the client (history)
  moved,   \* rows that changed, or went, since the client began (history)
  born     \* rows inserted since the client began (history)

vars == <<rows, cursor, times, moved, born>>

-----------------------------------------------------------------------------
Start == [at |-> "start"]
End == [at |-> "end"]
Failed == [at |-> "failed"]   \* the value of the cursor cannot be cast: 500

\* Mutant: the cursor holds the id where the sort value belongs.
AfterById(i) == [at |-> "after", v |-> i, id |-> i]

\* The cursor is made from the last row of a page.
After(i) == [at |-> "after", v |-> rows[i], id |-> i]

Column == Values \cup (IF Nullable THEN {Null} ELSE {})
Present == {i \in Ids : rows[i] \in Column}

\* Of two rows with the same sort value, the one whose id comes first.
Tie(i, j) == IF Descending THEN i > j ELSE i < j

\* (v, i) comes before (w, j): the row comparison of the seek, for values that are
\* not NULL.
Less(v, i, w, j) == (IF Descending THEN v > w ELSE v < w) \/ (v = w /\ Tie(i, j))

\* ORDER BY: NULLs are last when ascending and first when descending.
Precedes(i, j) ==
  IF rows[i] # Null /\ rows[j] # Null THEN Less(rows[i], i, rows[j], j)
  ELSE IF rows[i] = rows[j] THEN Tie(i, j)
  ELSE IF Descending THEN rows[i] = Null ELSE rows[j] = Null

\* Mutant: the seek compares the sort values only.
SelectedByValue ==
  {i \in Present : cursor.at = "after" =>
     rows[i] # Null /\ IF Descending THEN cursor.v > rows[i] ELSE cursor.v < rows[i]}

\* Mutant: the seek includes the row of the cursor.
SelectedInclusive ==
  {i \in Present : cursor.at = "after" =>
     rows[i] # Null /\ ~Less(rows[i], i, cursor.v, cursor.id)}

\* WHERE (sortval, id) < (cursor): NULL compares with nothing.
Selected ==
  {i \in Present : cursor.at = "after" =>
     rows[i] # Null /\ Less(cursor.v, cursor.id, rows[i], i)}

\* The first perPage of the rows selected; one more row than that tells whether
\* another page follows.
Page(S) == {i \in S : Cardinality({j \in S : Precedes(j, i)}) < PerPage}
HasMore(S) == Cardinality(S) > PerPage

Last(S) == {i \in Page(S) : \A j \in Page(S) \ {i} : Precedes(j, i)}

Fetch ==
  /\ cursor.at \in {"start", "after"}
  /\ IF cursor.at = "after" /\ cursor.v = Null
     THEN cursor' = Failed /\ UNCHANGED times
     ELSE /\ times' = [i \in Ids |-> IF i \in Page(Selected) THEN times[i] + 1 ELSE times[i]]
          /\ IF HasMore(Selected) THEN \E i \in Last(Selected) : cursor' = After(i)
                                  ELSE cursor' = End
  /\ UNCHANGED <<rows, moved, born>>

-----------------------------------------------------------------------------
(* Everybody else. *)

Insert(i) ==
  /\ rows[i] = NotYet
  /\ Cardinality(born) < MaxInserts
  /\ \E v \in Column : rows' = [rows EXCEPT ![i] = v]
  /\ born' = born \cup {i}
  /\ UNCHANGED <<cursor, times, moved>>

Change(i) ==
  /\ i \in Present
  /\ Cardinality(moved \cup {i}) <= MaxMoved
  /\ \E v \in (Column \cup {Gone}) \ {rows[i]} : rows' = [rows EXCEPT ![i] = v]
  /\ moved' = moved \cup {i}
  /\ UNCHANGED <<cursor, times, born>>

Init ==
  /\ rows \in [Ids -> Column \cup {NotYet}]
  /\ cursor = Start
  /\ times = [i \in Ids |-> 0]
  /\ moved = {} /\ born = {}

Next == Fetch \/ \E i \in Ids : Insert(i) \/ Change(i)

Spec == Init /\ [][Next]_vars

-----------------------------------------------------------------------------
(* Properties. *)

TypeOK ==
  /\ rows \in [Ids -> Column \cup {NotYet, Gone}]
  /\ \/ cursor \in {Start, End, Failed}
     \/ cursor.at = "after" /\ cursor.v \in Column /\ cursor.id \in Ids
  /\ times \in [Ids -> Nat]
  /\ moved \subseteq Ids /\ born \subseteq Ids

\* No row is delivered on two pages, unless its sort value changed in between:
\* rows that others insert or remove do not shift the pages, as an offset would.
SeenOnce == \A i \in Ids \ moved : times[i] <= 1

\* Who reads to the end has seen every row that was there from the beginning and did
\* not change, also where many rows have the same sort value.
NothingSkipped ==
  cursor = End => \A i \in Present \ (moved \cup born) : times[i] = 1

-----------------------------------------------------------------------------
(* What the code's comments say, and TLC refutes for a nullable column. *)

\* search.service.ts:131 - the seek compares (sortval, id) as ORDER BY does: nothing
\* is skipped, under a price that is NULL either.
SeekMatchesOrder == NothingSkipped

\* cursor.util.ts:10 - the cursor holds the sort value of the last row: the next
\* page can be fetched with it.
CursorIsUsable == cursor # Failed

=============================================================================
