------------------------ MODULE SearchProjectionProofs ------------------------
(***************************************************************************)
(* The properties of SearchProjection, for any listings and any requests   *)
(* that write and refresh them at the same time.                           *)
(***************************************************************************)
EXTENDS SearchProjection, TLAPS

USE NoListingAssumption, BoundsAssumption, NoHitAssumption DEF Locks

-----------------------------------------------------------------------------
(* The inductive invariant. *)

OpenTx ==
  [pc : {"delete", "deleting", "insert", "inserting", "commit"},
   listing : Listings, child : ChildRows \cup {NoListing},
   row : ListingRow \cup {NoListing}, writes : 0 .. MaxWrites,
   saw : BOOLEAN, del : BOOLEAN, ins : Hit \cup {NoHit}]

TxTyped(x) ==
  \/ x = Idle
  \/ x \in [pc : {"checked"}, listing : Listings]
  \/ x \in [pc : {"read"}, listing : Listings, stock : 0 .. MaxStock,
            version : 0 .. MaxVersion]
  \/ x \in OpenTx

Opened(x) == x.pc \in {"delete", "deleting", "insert", "inserting", "commit"}

Sold(row) == row.state = "published" /\ ~row.deleted
Shows(hit, row) ==
  hit # NoHit /\ hit.title = row.title /\ (hit.inStock <=> row.stock > 0)
Copies(hit, row) == IF Sold(row) THEN Shows(hit, row) ELSE hit = NoHit

\* The transaction has deleted the projection's row or inserted one: whoever else
\* wants to change it waits.
Owns(x) == x.del \/ (x.pc = "commit" /\ x.ins # NoHit)

\* An update whose trigger did not run.
Untriggered(x, row) == x.pc = "commit" /\ ~x.del /\ x.ins = NoHit /\ ~Triggered(row, x.row)

\* A writer of the Listing row: row is still the one it has read, and what it inserts
\* is the projection of its own row.  As long as no child row was written, no other
\* transaction refreshes the projection, so that its DELETE finds what is there.
WriterSound(x, row, p, hit) ==
  /\ x.row \in ListingRow /\ x.row.state # "absent"
  /\ x.row.version >= row.version
  /\ x.row.version = row.version => x.row.stock = row.stock
  /\ x.pc \in {"inserting", "commit"} => Untriggered(x, row) \/ Copies(x.ins, x.row)
  /\ p = Unwritten =>
       /\ x.pc = "deleting" => (x.saw <=> hit # NoHit)
       /\ x.pc \in {"insert", "inserting"} => (x.del <=> hit # NoHit)
       /\ x.pc = "commit" => Untriggered(x, row) \/ (x.del <=> hit # NoHit)

\* A writer of a child row: the listing may change before it commits, but not to one
\* that is on sale and shown otherwise, as long as it owns the projection's row.
ChildSound(x, row) ==
  /\ x.child \in ChildRows /\ x.writes >= 1
  /\ x.pc \in {"inserting", "commit"} /\ Owns(x) /\ Sold(row) => Shows(x.ins, row)

Sound(x, row, p, hit) ==
  /\ row.state # "absent"
  /\ x.pc = "read" =>
       /\ x.version <= row.version
       /\ x.version = row.version => x.stock = row.stock
  /\ Opened(x) =>
       /\ x.pc \in {"delete", "deleting"} => ~x.del
       /\ x.del \/ (x.pc = "deleting" /\ x.saw) => hit # NoHit
       /\ x.pc = "commit" /\ x.ins # NoHit /\ ~x.del => hit = NoHit
       /\ Locks(x) => WriterSound(x, row, p, hit)
       /\ ~Locks(x) => ChildSound(x, row)

\* Two open transactions of one listing: one holds the lock of the Listing row at most,
\* one owns the projection's row at most.
Apart(x, y) ==
  Opened(x) /\ Opened(y) /\ x.listing = y.listing =>
    ~(Locks(x) /\ Locks(y)) /\ ~(Owns(x) /\ Owns(y))

Of(x) == Sound(x, listing[x.listing], children[x.listing], search[x.listing])

ShownInv == \A l \in Listings : Sold(listing[l]) => Shows(search[l], listing[l])
HiddenInv ==
  \A l \in Listings : children[l] = Unwritten /\ search[l] # NoHit => Sold(listing[l])

IInv ==
  /\ listing \in [Listings -> ListingRow]
  /\ children \in [Listings -> Written]
  /\ name \in Names
  /\ search \in [Listings -> Hit \cup {NoHit}]
  /\ tx = [w \in Writers |-> tx[w]]
  /\ \A w \in Writers : TxTyped(tx[w]) /\ (tx[w] # Idle => Of(tx[w]))
  /\ \A v, w \in Writers : v # w => Apart(tx[v], tx[w])
  /\ ShownInv /\ HiddenInv

-----------------------------------------------------------------------------
(* One transaction takes a step and commits nothing. *)

\* What the trigger selects is a row of the projection, and a copy of the listing.
LEMMA ProjectionCopies ==
  ASSUME NEW row \in ListingRow, NEW p \in Written, name \in Names
  PROVE  Projection(row, p) \in Hit \cup {NoHit} /\ Copies(Projection(row, p), row)
<1> DEFINE h == [title |-> row.title, inStock |-> row.stock > 0, children |-> p, author |-> name]
<1>1. h \in Hit
  BY DEF ListingRow, Hit
<1>2. h # NoHit
  BY <1>1
<1> QED
  BY <1>1, <1>2 DEF Projection, Copies, Sold, Shows

\* An idle writer is no open transaction.
LEMMA IdleIsNotOpen == Idle.pc = "idle" /\ ~Opened(Idle)
  BY DEF Idle, Opened

LEMMA OpenIsTyped ==
  ASSUME NEW x, TxTyped(x)
  PROVE  /\ Opened(x) <=> x \in OpenTx
         /\ x.pc = "checked" => x \in [pc : {"checked"}, listing : Listings]
         /\ x.pc = "read" => x \in [pc : {"read"}, listing : Listings, stock : 0 .. MaxStock,
                                    version : 0 .. MaxVersion]
         /\ x # Idle <=> x.pc # "idle"
         /\ x # Idle => x.listing \in Listings
  BY DEF TxTyped, OpenTx, Opened, Idle

\* The invariant survives if the new record of the one transaction satisfies it.
LEMMA StepOne ==
  ASSUME IInv, NEW w \in Writers, NEW n, tx' = [tx EXCEPT ![w] = n],
         UNCHANGED <<listing, children, name, search>>,
         TxTyped(n), n # Idle => Of(n),
         \A v \in Writers \ {w} : Apart(n, tx[v])
  PROVE  IInv'
<1>1. /\ tx' = [v \in Writers |-> tx'[v]]
      /\ tx'[w] = n /\ \A v \in Writers \ {w} : tx'[v] = tx[v]
  BY DEF IInv
<1>2. \A x : Of(x)' <=> Of(x)
  BY DEF Of
<1>3. \A v \in Writers : TxTyped(tx'[v]) /\ (tx'[v] # Idle => Of(tx'[v]))
  BY <1>1 DEF IInv
<1>4. \A u, v \in Writers : u # v => Apart(tx'[u], tx'[v])
  <2> SUFFICES ASSUME NEW u \in Writers, NEW v \in Writers, u # v
               PROVE  Apart(tx'[u], tx'[v])
    OBVIOUS
  <2>1. CASE u = w
    BY <2>1, <1>1
  <2>2. CASE v = w
    BY <2>2, <1>1 DEF Apart
  <2>3. CASE u # w /\ v # w
    BY <2>3, <1>1 DEF IInv
  <2> QED
    BY <2>1, <2>2, <2>3
<1>5. ShownInv' /\ HiddenInv'
  BY DEF IInv, ShownInv, HiddenInv
<1> QED
  BY <1>1, <1>2, <1>3, <1>4, <1>5 DEF IInv

\* A transaction that ends.
LEMMA StepIdle ==
  ASSUME IInv, NEW w \in Writers, tx' = [tx EXCEPT ![w] = Idle],
         UNCHANGED <<listing, children, name, search>>
  PROVE  IInv'
<1>1. TxTyped(Idle) /\ \A v \in Writers : Apart(Idle, tx[v])
  BY IdleIsNotOpen DEF TxTyped, Apart
<1> QED
  BY <1>1, StepOne

\* A read before the transaction.
LEMMA StepReads ==
  ASSUME IInv, NEW w \in Writers, NEW l \in Listings, Check(w, l) \/ ReadStock(w, l)
  PROVE  IInv'
<1>1. listing[l] \in ListingRow
  BY DEF IInv
<1>2. CASE Check(w, l)
  <2> DEFINE n == [pc |-> "checked", listing |-> l]
  <2>1. TxTyped(n) /\ Of(n) /\ ~Opened(n)
    BY <1>2 DEF TxTyped, Of, Sound, Opened, Check
  <2> QED
    BY <1>2, <2>1, StepOne DEF Check, Apart
<1>3. CASE ReadStock(w, l)
  <2> DEFINE n == [pc |-> "read", listing |-> l,
                   stock |-> listing[l].stock, version |-> listing[l].version]
  <2>1. TxTyped(n) /\ ~Opened(n)
    BY <1>1 DEF TxTyped, Opened, ListingRow
  <2>2. Of(n)
    BY <1>1, <1>3, <2>1 DEF Of, Sound, ReadStock, ListingRow
  <2> QED
    BY <1>3, <2>1, <2>2, StepOne DEF ReadStock, Apart
<1> QED
  BY <1>2, <1>3

\* An UPDATE takes the lock of the Listing row and knows what it will write.
LEMMA StepUpdating ==
  ASSUME IInv, NEW w \in Writers, NEW l \in Listings, NEW new \in ListingRow,
         Updating(w, l, new), listing[l].state # "absent", new.state # "absent",
         new.version >= listing[l].version,
         new.version = listing[l].version => new.stock = listing[l].stock
  PROVE  IInv'
<1> DEFINE n == [pc |-> IF Triggered(listing[l], new) THEN "delete" ELSE "commit",
                 listing |-> l, child |-> NoListing, row |-> new, writes |-> 0,
                 saw |-> FALSE, del |-> FALSE, ins |-> NoHit]
<1>1. n \in OpenTx /\ TxTyped(n) /\ Opened(n)
  BY DEF IInv, OpenTx, TxTyped, Opened
<1>2. ~Owns(n)
  BY DEF Owns
<1>3. Of(n)
  <2>1. n.pc = "commit" => Untriggered(n, listing[l])
    BY DEF Untriggered
  <2>2. WriterSound(n, listing[l], children[l], search[l])
    BY <2>1 DEF WriterSound
  <2> QED
    BY <2>2 DEF Of, Sound
<1>4. \A v \in Writers \ {w} : Apart(n, tx[v])
  BY <1>2 DEF Updating, Apart, On, Open, Opened
<1> QED
  BY <1>1, <1>3, <1>4, StepOne DEF Updating

\* The requests on a listing.
LEMMA StepWrite ==
  ASSUME IInv, NEW w \in Writers, Write(w)
  PROVE  IInv'
<1> DEFINE l == tx[w].listing  r == listing[l]
<1>0. TxTyped(tx[w]) /\ (tx[w] # Idle => Of(tx[w]))
  BY DEF IInv
<1>1. ASSUME tx[w].pc \in {"checked", "read"}
      PROVE  l \in Listings /\ r \in ListingRow /\ r.state # "absent"
  BY <1>0, <1>1, OpenIsTyped DEF IInv, Of, Sound
<1>2. CASE Update(w)
  <2>1. PICK t \in Titles : Updating(w, l, [r EXCEPT !.title = t])
    BY <1>2 DEF Update, Row
  <2>2. [r EXCEPT !.title = t] \in ListingRow
    BY <1>1, <1>2 DEF ListingRow, Update, Checked
  <2> QED
    BY <1>1, <1>2, <2>1, <2>2, StepUpdating DEF Update, Checked, ListingRow
<1>3. CASE Publish(w)
  BY <1>1, <1>3, StepUpdating DEF Publish, Checked, Row, ListingRow
<1>4. CASE Close(w)
  BY <1>1, <1>4, StepUpdating DEF Close, Checked, Row, ListingRow
<1>5. CASE SoftDelete(w)
  <2> DEFINE n == [r EXCEPT !.state = "closed", !.deleted = TRUE]
  <2>1. Updating(w, l, n) /\ l \in Listings /\ r \in ListingRow /\ r.state # "absent"
    BY <1>1, <1>5 DEF SoftDelete, Checked, Row
  <2>2. r.version \in Nat
    BY <2>1 DEF ListingRow
  <2>3. n \in ListingRow
    BY <2>1 DEF ListingRow
  <2>4. n.version = r.version /\ n.stock = r.stock /\ n.state # "absent"
    BY <2>1 DEF ListingRow
  <2> HIDE DEF n
  <2> QED
    BY <2>1, <2>2, <2>3, <2>4, StepUpdating
<1>6. CASE SetStock(w)
  <2>1. PICK s \in 0 .. MaxStock :
          Updating(w, l, [r EXCEPT !.stock = s, !.version = @ + 1,
                                   !.state = IF s = 0 THEN "closed" ELSE @])
    BY <1>6 DEF SetStock, Row
  <2> DEFINE n == [r EXCEPT !.stock = s, !.version = @ + 1,
                            !.state = IF s = 0 THEN "closed" ELSE @]
  <2>2. l \in Listings /\ r \in ListingRow /\ r.state # "absent" /\ r.version < MaxVersion
    BY <1>1, <1>6 DEF SetStock, Row
  <2>3. r.version \in Nat /\ r.version + 1 \in 0 .. MaxVersion
    BY <2>2 DEF ListingRow
  <2>4. (IF s = 0 THEN "closed" ELSE r.state) \in {"draft", "published", "closed"}
    BY <2>2 DEF ListingRow
  <2>5. n \in ListingRow /\ n.version = r.version + 1 /\ n.state # "absent"
    BY <2>2, <2>3, <2>4 DEF ListingRow
  <2> HIDE DEF n
  <2>6. n.version >= r.version /\ n.version # r.version
    BY <2>3, <2>5
  <2> QED
    BY <2>1, <2>2, <2>5, <2>6, StepUpdating DEF n
<1>7. CASE StockConflict(w)
  BY <1>7, StepIdle DEF StockConflict
<1> QED
  BY <1>2, <1>3, <1>4, <1>5, <1>6, <1>7 DEF Write

\* A child row is written under its own lock.
LEMMA StepChild ==
  ASSUME IInv, NEW w \in Writers, NEW l \in Listings, ChildWrite(w, l)
  PROVE  IInv'
<1>0. PICK c \in ChildRows :
        /\ children[l][c] < MaxWrites /\ listing[l].state # "absent"
        /\ tx' = [tx EXCEPT ![w] =
             [pc |-> "delete", listing |-> l, child |-> c, row |-> NoListing,
              writes |-> children[l][c] + 1, saw |-> FALSE, del |-> FALSE, ins |-> NoHit]]
  BY DEF ChildWrite
<1> DEFINE k == children[l][c] + 1
<1> DEFINE n == [pc |-> "delete", listing |-> l, child |-> c, row |-> NoListing,
                 writes |-> k, saw |-> FALSE, del |-> FALSE, ins |-> NoHit]
<1>1. n \in OpenTx /\ TxTyped(n) /\ n.writes >= 1 /\ n.child \in ChildRows
  <2>1. children[l][c] \in 0 .. MaxWrites
    BY DEF IInv, Written
  <2>2. k \in 0 .. MaxWrites /\ k >= 1
    BY <1>0, <2>1
  <2> HIDE DEF k
  <2> QED
    BY <2>2 DEF OpenTx, TxTyped
<1>2. ~Owns(n) /\ ~Locks(n)
  BY DEF Owns
<1>3. Of(n)
  BY <1>0, <1>1, <1>2 DEF Of, Sound, ChildSound
<1>4. \A v \in Writers \ {w} : Apart(n, tx[v])
  BY <1>2 DEF Apart
<1> QED
  BY <1>0, <1>1, <1>3, <1>4, StepOne DEF ChildWrite

-----------------------------------------------------------------------------
(* refresh_listing_search, statement by statement. *)

\* What is known of an open transaction.
LEMMA OpenFacts ==
  ASSUME IInv, NEW w \in Writers, Open(w)
  PROVE  LET x == tx[w] IN
         /\ x \in OpenTx /\ x.listing \in Listings
         /\ Sound(x, listing[x.listing], children[x.listing], search[x.listing])
         /\ listing[x.listing] \in ListingRow
         /\ children[x.listing] \in Written
         /\ search[x.listing] \in Hit \cup {NoHit}
<1>1. TxTyped(tx[w]) /\ Opened(tx[w]) /\ (tx[w] # Idle => Of(tx[w]))
  BY DEF IInv, Open, Opened
<1>2. tx[w] \in OpenTx /\ tx[w] # Idle
  BY <1>1, OpenIsTyped, IdleIsNotOpen
<1>3. tx[w].listing \in Listings
  BY <1>2 DEF OpenTx
<1> QED
  BY <1>1, <1>2, <1>3 DEF Of, IInv

\* A step that owns no more than before cannot get in another's way.
LEMMA StillApart ==
  ASSUME IInv, NEW w \in Writers, NEW n, Open(w),
         n.listing = tx[w].listing, n.child = tx[w].child, Owns(n) => Owns(tx[w])
  PROVE  \A v \in Writers \ {w} : Apart(n, tx[v])
  BY DEF IInv, Apart, Open, Opened

LEMMA StepDeleteBegins ==
  ASSUME IInv, NEW w \in Writers, DeleteBegins(w)
  PROVE  IInv'
<1> DEFINE x == tx[w]  l == x.listing
<1> DEFINE n == [x EXCEPT !.pc = "deleting", !.saw = search[l] # NoHit]
<1>0. Open(w) /\ x.pc = "delete"
  BY DEF DeleteBegins, Open
<1>1. /\ x \in OpenTx /\ l \in Listings
      /\ Sound(x, listing[l], children[l], search[l])
  BY <1>0, OpenFacts
<1>2. n \in OpenTx /\ TxTyped(n)
  BY <1>1 DEF OpenTx, TxTyped
<1>3. /\ n.pc = "deleting" /\ (n.saw <=> search[l] # NoHit)
      /\ n.listing = l /\ n.child = x.child /\ n.row = x.row /\ n.del = x.del
      /\ n.writes = x.writes
  BY <1>1 DEF OpenTx
<1> HIDE DEF n
<1>4. Of(n)
  BY <1>0, <1>1, <1>3 DEF Of, Sound, Opened, WriterSound, ChildSound
<1>5. \A v \in Writers \ {w} : Apart(n, tx[v])
  BY <1>0, <1>3, StillApart DEF Owns
<1>6. tx' = [tx EXCEPT ![w] = n]
  BY DEF DeleteBegins, IInv, n
<1> QED
  BY <1>2, <1>4, <1>5, <1>6, StepOne DEF DeleteBegins

\* It deletes what it saw once nobody else has deleted it.
LEMMA StepDeleteEnds ==
  ASSUME IInv, NEW w \in Writers, DeleteEnds(w)
  PROVE  IInv'
<1> DEFINE x == tx[w]  l == x.listing
<1> DEFINE n == [x EXCEPT !.pc = "insert", !.del = x.saw]
<1>0. Open(w) /\ x.pc = "deleting"
  BY DEF DeleteEnds, Open
<1>1. /\ x \in OpenTx /\ l \in Listings
      /\ Sound(x, listing[l], children[l], search[l])
  BY <1>0, OpenFacts
<1>2. n \in OpenTx /\ TxTyped(n)
  BY <1>1 DEF OpenTx, TxTyped
<1>3. /\ n.pc = "insert" /\ n.del = x.saw
      /\ n.listing = l /\ n.child = x.child /\ n.row = x.row
      /\ n.writes = x.writes
  BY <1>1 DEF OpenTx
<1> HIDE DEF n
<1>4. Of(n)
  BY <1>0, <1>1, <1>3 DEF Of, Sound, Opened, WriterSound, ChildSound
<1>5. ASSUME NEW v \in Writers \ {w} PROVE Apart(n, tx[v])
  <2> SUFFICES ASSUME Opened(tx[v]), tx[v].listing = l, Owns(n), Owns(tx[v]) PROVE FALSE
    BY <1>0, <1>3 DEF Apart, IInv, Open, Opened
  <2>1. x.saw /\ search[l] # NoHit
    BY <1>0, <1>1, <1>3 DEF Owns, Sound, Opened
  <2>2. ~tx[v].del
    BY <2>1 DEF DeleteEnds, Others, On, Open, Opened
  <2>3. tx[v].pc = "commit" /\ tx[v].ins # NoHit
    BY <2>2 DEF Owns
  <2>4. Sound(tx[v], listing[l], children[l], search[l])
    BY OpenFacts DEF Open, Opened
  <2> QED
    BY <2>1, <2>2, <2>3, <2>4 DEF Sound, Opened
<1>6. tx' = [tx EXCEPT ![w] = n]
  BY DEF DeleteEnds, IInv, n
<1> QED
  BY <1>2, <1>4, <1>5, <1>6, StepOne DEF DeleteEnds

\* The SELECT copies the listing it sees: the writer's own, or the committed one.
LEMMA StepInsertBegins ==
  ASSUME IInv, NEW w \in Writers, InsertBegins(w)
  PROVE  IInv'
<1> DEFINE x == tx[w]  l == x.listing  h == Seen(w)
<1> DEFINE n == [x EXCEPT !.pc = IF h = NoHit THEN "commit" ELSE "inserting", !.ins = h]
<1>0. Open(w) /\ x.pc = "insert"
  BY DEF InsertBegins, Open
<1>1. /\ x \in OpenTx /\ l \in Listings
      /\ Sound(x, listing[l], children[l], search[l])
      /\ listing[l] \in ListingRow /\ children[l] \in Written
  BY <1>0, OpenFacts
<1>2. /\ Locks(x) => x.row \in ListingRow
      /\ ~Locks(x) => x.child \in ChildRows
      /\ [children[l] EXCEPT ![x.child] = x.writes] \in Written
  <2>1. Locks(x) => WriterSound(x, listing[l], children[l], search[l])
    BY <1>0, <1>1 DEF Sound, Opened
  <2>2. ~Locks(x) => ChildSound(x, listing[l])
    BY <1>0, <1>1 DEF Sound, Opened
  <2>3. x.writes \in 0 .. MaxWrites
    BY <1>1 DEF OpenTx
  <2> QED
    BY <1>1, <2>1, <2>2, <2>3 DEF WriterSound, ChildSound, Written
<1>3. h \in Hit \cup {NoHit} /\ Copies(h, IF Locks(x) THEN x.row ELSE listing[l])
  <2>1. name \in Names
    BY DEF IInv
  <2>2. CASE Locks(x)
    BY <1>1, <1>2, <2>1, <2>2, ProjectionCopies DEF Seen
  <2>3. CASE ~Locks(x)
    BY <1>1, <1>2, <2>1, <2>3, ProjectionCopies DEF Seen
  <2> QED
    BY <2>2, <2>3
<1> HIDE DEF h
<1>4. n \in OpenTx /\ TxTyped(n)
  BY <1>1, <1>3 DEF OpenTx, TxTyped
<1>5. /\ n.pc = (IF h = NoHit THEN "commit" ELSE "inserting") /\ n.ins = h
      /\ n.listing = l /\ n.child = x.child /\ n.row = x.row /\ n.del = x.del
      /\ n.writes = x.writes
  BY <1>1 DEF OpenTx
<1>6. tx' = [tx EXCEPT ![w] = n]
  BY DEF InsertBegins, IInv, h
<1> HIDE DEF n
<1>7. Owns(n) <=> x.del
  BY <1>5 DEF Owns
<1>8. Of(n)
  <2>1. CASE Locks(x)
    BY <1>0, <1>1, <1>3, <1>5, <2>1 DEF Of, Sound, Opened, WriterSound
  <2>2. CASE ~Locks(x)
    BY <1>0, <1>1, <1>3, <1>5, <1>7, <2>2 DEF Of, Sound, Opened, ChildSound, Copies
  <2> QED
    BY <2>1, <2>2
<1>9. \A v \in Writers \ {w} : Apart(n, tx[v])
  BY <1>0, <1>5, <1>7, StillApart DEF Owns
<1> QED
  BY <1>4, <1>6, <1>8, <1>9, StepOne DEF InsertBegins

\* The key is free, and what a child row's transaction inserts without having deleted
\* is of a listing that is not on sale.
LEMMA StepInsertEnds ==
  ASSUME IInv, NEW w \in Writers, InsertEnds(w)
  PROVE  IInv'
<1> DEFINE x == tx[w]  l == x.listing
<1> DEFINE n == [x EXCEPT !.pc = "commit"]
<1>0. Open(w) /\ x.pc = "inserting"
  BY DEF InsertEnds, Open
<1>1. /\ x \in OpenTx /\ l \in Listings
      /\ Sound(x, listing[l], children[l], search[l])
  BY <1>0, OpenFacts
<1>2. n \in OpenTx /\ TxTyped(n)
  BY <1>1 DEF OpenTx, TxTyped
<1>3. /\ n.pc = "commit" /\ n.del = x.del /\ n.ins = x.ins
      /\ n.listing = l /\ n.child = x.child /\ n.row = x.row
      /\ n.writes = x.writes
  BY <1>1 DEF OpenTx
<1>4. tx' = [tx EXCEPT ![w] = n]
  BY DEF InsertEnds, IInv
<1> HIDE DEF n
<1>5. search[l] = NoHit \/ x.del
  BY DEF InsertEnds, KeyTaken
<1>6. ~x.del => ~Sold(listing[l])
  BY <1>1, <1>5 DEF IInv, ShownInv, Shows
<1>7. Of(n)
  <2>1. CASE Locks(x)
    BY <1>0, <1>1, <1>3, <1>5, <2>1 DEF Of, Sound, Opened, WriterSound, Untriggered
  <2>2. CASE ~Locks(x)
    BY <1>0, <1>1, <1>3, <1>5, <1>6, <2>2 DEF Of, Sound, Opened, ChildSound, Owns
  <2> QED
    BY <2>1, <2>2
<1>8. ASSUME NEW v \in Writers \ {w} PROVE Apart(n, tx[v])
  <2> SUFFICES ASSUME Opened(tx[v]), tx[v].listing = l, Owns(tx[v]) PROVE FALSE
    BY <1>0, <1>3 DEF Apart, IInv, Open, Opened
  <2>1. ~tx[v].del /\ (tx[v].ins = NoHit \/ tx[v].pc = "inserting")
    BY DEF InsertEnds, KeySettled, Others, On, Open, Opened
  <2> QED
    BY <2>1 DEF Owns
<1> QED
  BY <1>2, <1>4, <1>7, <1>8, StepOne DEF InsertEnds

-----------------------------------------------------------------------------
(* Commits. *)

\* What a commit leaves of the committed rows.
RowAfter(x, row) == IF Locks(x) THEN x.row ELSE row
ChildrenAfter(x, p) == IF Locks(x) THEN p ELSE [p EXCEPT ![x.child] = x.writes]
HitAfter(x, hit) == IF x.ins # NoHit \/ x.del THEN x.ins ELSE hit

\* A child row that is written stays written.
LEMMA ChildRemembered ==
  ASSUME NEW x \in OpenTx, NEW row, NEW p \in Written, ~Locks(x), ChildSound(x, row)
  PROVE  ChildrenAfter(x, p) \in Written /\ ChildrenAfter(x, p) # Unwritten
<1> DEFINE q == [p EXCEPT ![x.child] = x.writes]
<1>1. x.child \in ChildRows /\ x.writes >= 1 /\ x.writes \in 0 .. MaxWrites
  BY DEF ChildSound, OpenTx
<1>2. q \in Written /\ q[x.child] = x.writes
  BY <1>1 DEF Written
<1>3. Unwritten[x.child] = 0
  BY <1>1 DEF Unwritten
<1>4. x.writes # 0
  BY <1>1
<1>5. q # Unwritten
  BY <1>2, <1>3, <1>4
<1> QED
  BY <1>2, <1>5 DEF ChildrenAfter

\* The projection still shows what is on sale, and nothing else unless a child row
\* was written.
LEMMA CommitShows ==
  ASSUME NEW x \in OpenTx, NEW row \in ListingRow, NEW p \in Written, NEW hit,
         x.pc = "commit", Sound(x, row, p, hit),
         Sold(row) => Shows(hit, row),
         p = Unwritten /\ hit # NoHit => Sold(row)
  PROVE  LET r == RowAfter(x, row)  q == ChildrenAfter(x, p)  h == HitAfter(x, hit) IN
         /\ Sold(r) => Shows(h, r)
         /\ q = Unwritten /\ h # NoHit => Sold(r)
<1>0. x.del \in BOOLEAN
  BY DEF OpenTx
<1>1. CASE Locks(x)
  <2>1. WriterSound(x, row, p, hit)
    BY <1>1 DEF Sound, Opened
  <2>2. CASE Untriggered(x, row)
    <3>1. /\ Sold(x.row) <=> Sold(row)
          /\ Shows(hit, row) <=> Shows(hit, x.row)
      BY <2>2, <1>0 DEF Untriggered, Triggered, Sold, Shows, ListingRow, OpenTx
    <3> QED
      BY <1>1, <2>2, <3>1 DEF RowAfter, ChildrenAfter, HitAfter, Untriggered
  <2>3. CASE ~Untriggered(x, row)
    <3>1. Copies(x.ins, x.row) /\ (p = Unwritten => (x.del <=> hit # NoHit))
      BY <2>1, <2>3 DEF WriterSound
    <3> QED
      BY <1>1, <3>1 DEF RowAfter, ChildrenAfter, HitAfter, Copies, Shows
  <2> QED
    BY <2>2, <2>3
<1>2. CASE ~Locks(x)
  <2>1. ChildSound(x, row)
    BY <1>2 DEF Sound, Opened
  <2>2. ChildrenAfter(x, p) # Unwritten
    BY <1>2, <2>1, ChildRemembered
  <2> QED
    BY <1>0, <1>2, <2>1, <2>2 DEF RowAfter, HitAfter, ChildSound, Owns
<1> QED
  BY <1>1, <1>2

\* What becomes of another transaction that waits to delete the row.
Woken(x, y) ==
  IF Opened(y) /\ y.pc = "deleting" /\ x.del THEN [y EXCEPT !.saw = FALSE] ELSE y

\* The transactions that remain open on the listing are sound after the commit.
LEMMA CommitKeeps ==
  ASSUME NEW x \in OpenTx, NEW y, NEW row \in ListingRow, NEW p \in Written,
         NEW hit, x.pc = "commit", Sound(x, row, p, hit),
         TxTyped(y), y # Idle, Sound(y, row, p, hit),
         Opened(y) => ~(Locks(x) /\ Locks(y)) /\ ~(Owns(x) /\ Owns(y))
  PROVE  Sound(Woken(x, y), RowAfter(x, row), ChildrenAfter(x, p), HitAfter(x, hit))
<1> DEFINE r == RowAfter(x, row)  q == ChildrenAfter(x, p)  h == HitAfter(x, hit)
<1>1. Locks(x) => WriterSound(x, row, p, hit)
  BY DEF Sound, Opened
<1>0. x.del \in BOOLEAN /\ (Locks(x) => x.row \in ListingRow)
  BY <1>1 DEF OpenTx, WriterSound
<1>2. ~Locks(x) => q # Unwritten
  <2>1. ~Locks(x) => ChildSound(x, row)
    BY DEF Sound, Opened
  <2> QED
    BY <2>1, ChildRemembered
<1>3. /\ r.state # "absent" /\ r \in ListingRow
      /\ r.version >= row.version
      /\ r.version = row.version => r.stock = row.stock
  <2>1. row.state # "absent" /\ row.version \in Nat
    BY DEF Sound, ListingRow
  <2> QED
    BY <1>0, <1>1, <2>1 DEF RowAfter, WriterSound
<1>4. CASE ~Opened(y)
  <2>1. Woken(x, y) = y
    BY <1>4 DEF Woken
  <2>2. y.pc = "read" => y.version \in Nat /\ row.version \in Nat /\ r.version \in Nat
    BY <1>3, OpenIsTyped DEF ListingRow
  <2>3. y.pc = "read" => /\ y.version <= r.version
                         /\ y.version = r.version => y.stock = r.stock
    BY <1>3, <2>2 DEF Sound
  <2> QED
    BY <1>3, <1>4, <2>1, <2>3 DEF Sound
<1>5. CASE Opened(y)
  <2> DEFINE z == Woken(x, y)
  <2>0. y \in OpenTx
    BY <1>5, OpenIsTyped
  <2>1. /\ z.pc = y.pc /\ z.child = y.child /\ z.row = y.row /\ z.writes = y.writes
        /\ z.del = y.del /\ z.ins = y.ins
        /\ z.saw = IF y.pc = "deleting" /\ x.del THEN FALSE ELSE y.saw
    BY <1>5, <2>0 DEF Woken, OpenTx
  <2>2. y.pc \in {"delete", "deleting", "insert", "inserting", "commit"}
        /\ y.del \in BOOLEAN /\ y.saw \in BOOLEAN
    BY <2>0 DEF OpenTx
  <2> HIDE DEF z
  <2>3. z.pc \in {"delete", "deleting"} => ~z.del
    BY <1>5, <2>1 DEF Sound
  <2>4. z.del \/ (z.pc = "deleting" /\ z.saw) => h # NoHit
    BY <1>5, <2>1 DEF Sound, Owns, HitAfter
  <2>5. z.pc = "commit" /\ z.ins # NoHit /\ ~z.del => h = NoHit
    BY <1>5, <2>1 DEF Sound, Owns, HitAfter
  <2>6. ASSUME Locks(z) PROVE WriterSound(z, r, q, h)
    <3>1. ~Locks(x) /\ r = row /\ q # Unwritten
      BY <1>2, <1>5, <2>1, <2>6 DEF RowAfter
    <3>2. WriterSound(y, row, p, hit)
      BY <1>5, <2>1, <2>6 DEF Sound
    <3> QED
      BY <2>1, <3>1, <3>2 DEF WriterSound, Untriggered
  <2>7. ASSUME ~Locks(z) PROVE ChildSound(z, r)
    <3>1. ChildSound(y, row)
      BY <1>5, <2>1, <2>7 DEF Sound
    <3>2. ASSUME y.pc \in {"inserting", "commit"}, Owns(y), Sold(r) PROVE Shows(y.ins, r)
      <4>1. CASE ~Locks(x)
        BY <3>1, <3>2, <4>1 DEF ChildSound, RowAfter
      <4>2. CASE Locks(x)
        <5>1. ~x.del /\ x.ins = NoHit /\ r = x.row
          BY <1>5, <3>2, <4>2 DEF Owns, RowAfter
        <5>2. Untriggered(x, row)
          BY <1>1, <3>2, <4>2, <5>1 DEF WriterSound, Copies, Shows
        <5>3. Sold(row) /\ (Shows(y.ins, row) => Shows(y.ins, r))
          BY <1>0, <3>2, <5>1, <5>2 DEF Untriggered, Triggered, Sold, Shows, ListingRow
        <5> QED
          BY <3>1, <3>2, <5>3 DEF ChildSound
      <4> QED
        BY <1>0, <4>1, <4>2
    <3> QED
      BY <2>1, <3>1, <3>2 DEF ChildSound, Owns
  <2>8. z.pc # "read" /\ Opened(z)
    BY <1>5, <2>1 DEF Opened
  <2> QED
    BY <1>3, <2>3, <2>4, <2>5, <2>6, <2>7, <2>8 DEF Sound, z
<1> QED
  BY <1>4, <1>5

\* Waking up changes neither what a transaction locks nor what it owns.
LEMMA WokenSame ==
  ASSUME NEW x, NEW y, TxTyped(y)
  PROVE  LET z == Woken(x, y) IN
         /\ TxTyped(z) /\ (z = Idle <=> y = Idle) /\ (Opened(z) <=> Opened(y))
         /\ y # Idle => z.listing = y.listing
         /\ Opened(y) => z.child = y.child /\ (Owns(z) <=> Owns(y))
<1>1. CASE Opened(y) /\ y.pc = "deleting" /\ x.del
  <2>1. y \in OpenTx
    BY <1>1, OpenIsTyped
  <2> DEFINE z == [y EXCEPT !.saw = FALSE]
  <2>2. /\ z \in OpenTx /\ z.listing = y.listing /\ z.child = y.child /\ z.del = y.del
        /\ z.pc = y.pc /\ z.ins = y.ins
    BY <2>1 DEF OpenTx
  <2>3. Woken(x, y) = z
    BY <1>1 DEF Woken
  <2> HIDE DEF z
  <2>4. TxTyped(z) /\ Opened(z) /\ z # Idle /\ y # Idle
    BY <1>1, <2>2, IdleIsNotOpen DEF TxTyped, Opened
  <2> QED
    BY <1>1, <2>2, <2>3, <2>4 DEF Owns
<1>2. CASE ~(Opened(y) /\ y.pc = "deleting" /\ x.del)
  BY <1>2 DEF Woken
<1> QED
  BY <1>1, <1>2

LEMMA StepCommit ==
  ASSUME IInv, NEW w \in Writers, Commit(w)
  PROVE  IInv'
<1> DEFINE x == tx[w]  l == x.listing
<1>0. Open(w) /\ Opened(x) /\ x.pc = "commit"
  BY DEF Commit, Open, Opened
<1>1. /\ x \in OpenTx /\ l \in Listings
      /\ Sound(x, listing[l], children[l], search[l])
      /\ listing[l] \in ListingRow /\ children[l] \in Written
      /\ search[l] \in Hit \cup {NoHit}
  BY <1>0, OpenFacts
<1>2. /\ RowAfter(x, listing[l]) \in ListingRow
      /\ ChildrenAfter(x, children[l]) \in Written
      /\ HitAfter(x, search[l]) \in Hit \cup {NoHit}
  <2>1. CASE Locks(x)
    <3>1. x.row \in ListingRow
      BY <1>0, <1>1, <2>1 DEF Sound, WriterSound
    <3> QED
      BY <1>1, <2>1, <3>1 DEF RowAfter, ChildrenAfter, HitAfter, OpenTx
  <2>2. CASE ~Locks(x)
    <3>1. ChildSound(x, listing[l])
      BY <1>0, <1>1, <2>2 DEF Sound
    <3> QED
      BY <1>1, <2>2, <3>1, ChildRemembered DEF RowAfter, HitAfter, OpenTx
  <2> QED
    BY <2>1, <2>2
<1>3. /\ listing' = [listing EXCEPT ![l] = RowAfter(x, listing[l])]
      /\ children' = [children EXCEPT ![l] = ChildrenAfter(x, children[l])]
      /\ search' = [search EXCEPT ![l] = HitAfter(x, search[l])]
      /\ name' = name
  BY <1>1 DEF Commit, IInv, RowAfter, ChildrenAfter, HitAfter
<1>4. /\ tx' = [v \in Writers |-> tx'[v]] /\ tx'[w] = Idle
      /\ \A v \in Writers \ {w} :
           tx'[v] = IF Opened(tx[v]) /\ tx[v].listing = l THEN Woken(x, tx[v]) ELSE tx[v]
  BY DEF Commit, On, Open, Opened, Woken
<1>5. /\ listing' \in [Listings -> ListingRow]
      /\ children' \in [Listings -> Written]
      /\ search' \in [Listings -> Hit \cup {NoHit}]
      /\ \A k \in Listings : /\ listing'[k] = IF k = l THEN RowAfter(x, listing[l]) ELSE listing[k]
                             /\ children'[k] = IF k = l THEN ChildrenAfter(x, children[l])
                                                          ELSE children[k]
                             /\ search'[k] = IF k = l THEN HitAfter(x, search[l]) ELSE search[k]
  BY <1>1, <1>2, <1>3 DEF IInv
<1>6. ShownInv' /\ HiddenInv'
  <2>1. /\ Sold(listing[l]) => Shows(search[l], listing[l])
        /\ children[l] = Unwritten /\ search[l] # NoHit => Sold(listing[l])
    BY <1>1 DEF IInv, ShownInv, HiddenInv
  <2>2. /\ Sold(listing'[l]) => Shows(search'[l], listing'[l])
        /\ children'[l] = Unwritten /\ search'[l] # NoHit => Sold(listing'[l])
    BY <1>0, <1>1, <1>5, <2>1, CommitShows
  <2> QED
    BY <1>5, <2>2 DEF IInv, ShownInv, HiddenInv
<1>7. ASSUME NEW v \in Writers \ {w}
      PROVE  /\ TxTyped(tx'[v]) /\ (tx'[v] = Idle <=> tx[v] = Idle)
             /\ (Opened(tx'[v]) <=> Opened(tx[v]))
             /\ tx[v] # Idle => tx'[v].listing = tx[v].listing
             /\ Opened(tx[v]) => /\ tx'[v].child = tx[v].child
                                 /\ Owns(tx'[v]) <=> Owns(tx[v])
  BY <1>4, WokenSame DEF IInv
<1>8. ASSUME NEW v \in Writers \ {w}, tx'[v] # Idle
      PROVE  Sound(tx'[v], listing'[tx'[v].listing], children'[tx'[v].listing],
                   search'[tx'[v].listing])
  <2>1. /\ TxTyped(tx[v]) /\ tx[v] # Idle /\ tx'[v].listing = tx[v].listing
        /\ tx[v].listing \in Listings
        /\ Sound(tx[v], listing[tx[v].listing], children[tx[v].listing],
                 search[tx[v].listing])
    BY <1>7, <1>8, OpenIsTyped DEF IInv, Of
  <2>2. CASE tx[v].listing # l
    BY <1>4, <1>5, <2>1, <2>2
  <2>3. CASE tx[v].listing = l
    <3>1. tx'[v] = Woken(x, tx[v])
      BY <1>4, <2>3 DEF Woken
    <3>2. Opened(tx[v]) => ~(Locks(x) /\ Locks(tx[v])) /\ ~(Owns(x) /\ Owns(tx[v]))
      BY <1>0, <2>3 DEF IInv, Apart
    <3>3. Sound(Woken(x, tx[v]), RowAfter(x, listing[l]), ChildrenAfter(x, children[l]),
                HitAfter(x, search[l]))
      BY <1>0, <1>1, <2>1, <2>3, <3>2, CommitKeeps
    <3> QED
      BY <1>1, <1>5, <2>1, <2>3, <3>1, <3>3
  <2> QED
    BY <2>2, <2>3
<1>9. ASSUME NEW u \in Writers, NEW v \in Writers, u # v PROVE Apart(tx'[u], tx'[v])
  <2>1. CASE u = w \/ v = w
    BY <1>4, <2>1, IdleIsNotOpen DEF Apart
  <2>2. CASE u # w /\ v # w
    <3>1. Apart(tx[u], tx[v])
      BY <1>9 DEF IInv
    <3>2. \A k \in Writers : Opened(tx[k]) => tx[k] # Idle
      BY IdleIsNotOpen
    <3> QED
      BY <1>7, <2>2, <3>1, <3>2 DEF Apart
  <2> QED
    BY <2>1, <2>2
<1>10. \A v \in Writers : TxTyped(tx'[v]) /\ (tx[v] # Idle => Of(tx[v]))'
  <2>1. TxTyped(tx'[w])
    BY <1>4 DEF TxTyped
  <2> QED
    BY <1>4, <1>7, <1>8, <2>1 DEF Of
<1> QED
  BY <1>3, <1>4, <1>5, <1>6, <1>9, <1>10 DEF IInv

\* A listing is created: no transaction is about it.
LEMMA StepCreate ==
  ASSUME IInv, NEW l \in Listings, Create(l)
  PROVE  IInv'
<1>1. PICK t \in Titles, s \in 0 .. MaxStock :
        listing' = [listing EXCEPT ![l] = [state |-> "draft", deleted |-> FALSE,
                      title |-> t, stock |-> s, version |-> 0]]
  BY DEF Create
<1>2. /\ listing[l].state = "absent" /\ UNCHANGED <<children, name, search, tx>>
      /\ listing'[l].state = "draft"
      /\ \A k \in Listings : k # l => listing'[k] = listing[k]
  BY <1>1 DEF Create, IInv
<1>3. listing' \in [Listings -> ListingRow]
  <2>1. 0 \in 0 .. MaxVersion
    OBVIOUS
  <2>2. [state |-> "draft", deleted |-> FALSE, title |-> t, stock |-> s,
         version |-> 0] \in ListingRow
    BY <2>1 DEF ListingRow
  <2> QED
    BY <1>1, <2>2 DEF IInv
<1>4. ASSUME NEW v \in Writers, tx[v] # Idle PROVE Of(tx[v])'
  <2>1. Of(tx[v]) /\ tx[v].listing \in Listings
    BY <1>4, OpenIsTyped DEF IInv
  <2>2. tx[v].listing # l
    BY <1>2, <2>1 DEF Of, Sound
  <2> QED
    BY <1>2, <2>1, <2>2 DEF Of
<1>5. ShownInv' /\ HiddenInv'
  BY <1>2 DEF IInv, ShownInv, HiddenInv, Sold
<1> QED
  BY <1>2, <1>3, <1>4, <1>5 DEF IInv

\* The seller is renamed: no trigger, and nothing here depends on the name.
LEMMA StepRename ==
  ASSUME IInv, Rename
  PROVE  IInv'
<1>1. UNCHANGED <<listing, children, search, tx>> /\ name' \in Names
  BY DEF Rename
<1>2. \A x : Of(x)' <=> Of(x)
  BY <1>1 DEF Of
<1>3. (ShownInv' <=> ShownInv) /\ (HiddenInv' <=> HiddenInv)
  BY <1>1 DEF ShownInv, HiddenInv
<1> QED
  BY <1>1, <1>2, <1>3 DEF IInv

-----------------------------------------------------------------------------
(* The invariant is inductive, and what follows from it. *)

LEMMA StepSound == IInv /\ [Next]_vars => IInv'
<1> SUFFICES ASSUME IInv, [Next]_vars PROVE IInv'
  OBVIOUS
<1>1. ASSUME NEW w \in Writers, Refresh(w) PROVE IInv'
  <2>1. CASE InsertFails(w)
    BY <2>1, StepIdle DEF InsertFails
  <2> QED
    BY <1>1, <2>1, StepDeleteBegins, StepDeleteEnds, StepInsertBegins, StepInsertEnds
       DEF Refresh
<1>2. ASSUME NEW w \in Writers, Rollback(w) PROVE IInv'
  BY <1>2, StepIdle DEF Rollback
<1>3. ASSUME NEW w \in Writers, NEW l \in Listings,
             Check(w, l) \/ ReadStock(w, l) \/ ChildWrite(w, l)
      PROVE  IInv'
  BY <1>3, StepReads, StepChild
<1>4. CASE UNCHANGED vars
  <2>1. \A x : Of(x)' <=> Of(x)
    BY <1>4 DEF Of, vars
  <2>2. (ShownInv' <=> ShownInv) /\ (HiddenInv' <=> HiddenInv)
    BY <1>4 DEF ShownInv, HiddenInv, vars
  <2> QED
    BY <1>4, <2>1, <2>2 DEF IInv, vars
<1> QED
  BY <1>1, <1>2, <1>3, <1>4, StepWrite, StepCommit, StepCreate, StepRename DEF Next

LEMMA InitSound == Init => IInv
<1> SUFFICES ASSUME Init PROVE IInv
  OBVIOUS
<1>1. listing \in [Listings -> ListingRow] /\ \A l \in Listings : ~Sold(listing[l])
  <2> DEFINE New == [state : {"absent"}, deleted : {FALSE}, title : Titles,
                     stock : {0}, version : {0}]
  <2>1. 0 \in 0 .. MaxStock /\ 0 \in 0 .. MaxVersion
    OBVIOUS
  <2>2. \A row \in New : row \in ListingRow /\ ~Sold(row)
    BY <2>1 DEF ListingRow, Sold
  <2>3. listing \in [Listings -> New]
    BY DEF Init
  <2> QED
    BY <2>2, <2>3
<1>2. \A v \in Writers : tx[v] = Idle
  BY DEF Init
<1>3. \A v, w \in Writers : Apart(tx[v], tx[w])
  BY <1>2, IdleIsNotOpen DEF Apart
<1>4. children \in [Listings -> Written]
  <2>1. 0 \in 0 .. MaxWrites
    OBVIOUS
  <2> QED
    BY <2>1 DEF Init, Unwritten, Written
<1> QED
  BY <1>1, <1>2, <1>3, <1>4 DEF Init, IInv, TxTyped, ShownInv, HiddenInv

\* The inductive invariant: who may write the projection's row, and what it will write.
THEOREM ProjectionSound == Spec => []IInv
  BY InitSound, StepSound, PTL DEF Spec

\* Every variable stays in its type, however requests and child writes overlap.
THEOREM ProjectionTypes == Spec => []TypeOK
<1>1. IInv => TypeOK
  <2> SUFFICES ASSUME IInv, NEW w \in Writers
               PROVE  \/ tx[w] = Idle
                      \/ tx[w] \in [pc : {"checked"}, listing : Listings]
                      \/ tx[w] \in [pc : {"read"}, listing : Listings, stock : 0 .. MaxStock,
                                    version : 0 .. MaxVersion]
                      \/ Open(w) /\ tx[w] \in OpenTx
    BY DEF IInv, TypeOK, OpenTx
  <2> QED
    BY OpenIsTyped DEF IInv, TxTyped, Open, Opened
<1> QED
  BY <1>1, ProjectionSound, PTL

\* The search finds every listing on sale with its title and stock, for any requests and
\* child writes that refresh its projection at the same time.
THEOREM ProjectionShows == Spec => []OnSaleIsShown
<1>1. IInv => OnSaleIsShown
  BY DEF IInv, ShownInv, Sold, Shows, OnSale, OnSaleIsShown
<1> QED
  BY <1>1, ProjectionSound, PTL

\* The search shows nothing else, as long as no child row was written.
THEOREM ProjectionHides == Spec => []NothingElseShown
<1>1. IInv => NothingElseShown
  BY DEF IInv, HiddenInv, Sold, OnSale, NothingElseShown
<1> QED
  BY <1>1, ProjectionSound, PTL

\* A versioned stock write is written over the stock its seller read.
THEOREM NoLostStock == Spec => StockAsRead
<1>1. ASSUME IInv, [Next]_vars, NEW w \in Writers, tx[w].pc = "read", Open(w)'
      PROVE  tx[w].stock = Row(w).stock
  <2>1. tx[w] # Idle /\ Of(tx[w])
    BY <1>1, IdleIsNotOpen DEF IInv
  <2>2. Row(w).version = tx[w].version => tx[w].stock = Row(w).stock
    BY <1>1, <2>1 DEF Of, Sound, Row
  <2>3. Row(w).version = tx[w].version
    <3>1. tx'[w] # tx[w]
      BY <1>1 DEF Open
    <3>2. ASSUME NEW v \in Writers, NEW n, tx' = [tx EXCEPT ![v] = n] PROVE v = w
      BY <1>1, <3>1, <3>2 DEF IInv
    <3>3. ASSUME Write(w) PROVE Row(w).version = tx[w].version
      BY <1>1, <3>3, IdleIsNotOpen
         DEF Write, Update, Publish, Close, SoftDelete, SetStock, StockConflict, Checked,
             StockMatches, Open, Opened, IInv
    <3>4. ASSUME NEW v \in Writers, Write(v) PROVE v = w
      <4>1. ASSUME NEW l, NEW new, Updating(v, l, new) PROVE v = w
        BY <3>2, <4>1 DEF Updating
      <4> QED
        BY <3>2, <3>4, <4>1
           DEF Write, Update, Publish, Close, SoftDelete, SetStock, StockConflict
    <3>5. ASSUME NEW v \in Writers, Refresh(v) PROVE FALSE
      <4>1. v # w
        BY <1>1, <3>5
           DEF Refresh, DeleteBegins, DeleteEnds, InsertBegins, InsertEnds, InsertFails
      <4>2. tx'[w] = tx[w]
        BY <1>1, <3>5, <4>1
           DEF Refresh, DeleteBegins, DeleteEnds, InsertBegins, InsertEnds, InsertFails, IInv
      <4> QED
        BY <3>1, <4>2
    <3>6. ASSUME NEW v \in Writers, Commit(v) \/ Rollback(v) PROVE FALSE
      BY <1>1, <3>1, <3>6, IdleIsNotOpen DEF Commit, Rollback, On, Open, Opened, IInv
    <3>7. ASSUME NEW v \in Writers, NEW l \in Listings,
                 Check(v, l) \/ ReadStock(v, l) \/ ChildWrite(v, l)
          PROVE  FALSE
      <4>1. v # w
        BY <1>1, <3>7 DEF Check, ReadStock, ChildWrite
      <4> QED
        BY <3>2, <3>7, <4>1 DEF Check, ReadStock, ChildWrite
    <3>8. ASSUME UNCHANGED tx PROVE FALSE
      BY <3>1, <3>8
    <3> QED
      BY <1>1, <3>3, <3>4, <3>5, <3>6, <3>7, <3>8 DEF Next, Create, Rename, vars
  <2> QED
    BY <2>2, <2>3
<1>2. IInv /\ [Next]_vars =>
        \A w \in Writers : tx[w].pc = "read" /\ Open(w)' => tx[w].stock = Row(w).stock
  BY <1>1
<1> QED
  BY <1>2, ProjectionSound, PTL DEF StockAsRead, Spec

=============================================================================
