---------------------------- MODULE SearchProjection ----------------------------
(***************************************************************************)
(* Listings and their search projection: the writes of ListingService, the *)
(* triggers of performance.sql that keep listing_search up to date within  *)
(* the writer's transaction, and PostgreSQL's READ COMMITTED isolation as  *)
(* far as the triggers depend on it: a statement sees what was committed   *)
(* when it began; a DELETE waits for another transaction that deletes the  *)
(* row it found, and finds nothing if that one commits; an INSERT waits    *)
(* for another of the same key, and fails if that one commits.             *)
(***************************************************************************)
EXTENDS Naturals

CONSTANTS
  Listings,     \* the listings
  Writers,      \* the requests that can be under way at the same time
  Titles,       \* the values of title: any field that is copied as it is
  MaxStock,     \* bound on stockQuantity
  MaxVersion,   \* bound on stockVersion
  ChildRows,    \* the child rows of a listing: ListingStats, and each ListingImage
  MaxWrites,    \* bound on the writes of a child row
  Names,        \* the values of the author's displayName
  NoListing     \* marks a writer that is idle and a projection without a row

ASSUME NoListingAssumption == NoListing \notin Listings \cup ChildRows
ASSUME BoundsAssumption == MaxStock \in Nat /\ MaxVersion \in Nat /\ MaxWrites \in Nat

VARIABLES
  listing,     \* the Listing rows, as committed
  children,    \* children[l][c]: how often child row c of listing l was written
  name,        \* User.displayName of the seller
  search,      \* the listing_search rows, as committed
  tx           \* tx[w]: the request and open transaction of writer w

vars == <<listing, children, name, search, tx>>

-----------------------------------------------------------------------------
ListingRow ==
  [state : {"absent", "draft", "published", "closed"}, deleted : BOOLEAN,
   title : Titles, stock : 0 .. MaxStock, version : 0 .. MaxVersion]
Written == [ChildRows -> 0 .. MaxWrites]
Unwritten == [c \in ChildRows |-> 0]
Hit == [title : Titles, inStock : BOOLEAN, children : Written, author : Names]
NoHit == NoListing
ASSUME NoHitAssumption == NoHit \notin Hit

Idle == [pc |-> "idle", listing |-> NoListing]

\* Writer w has written its Listing row, or child row, and not yet committed.
Open(w) == tx[w].pc \in {"delete", "deleting", "insert", "inserting", "commit"}
On(w, l) == Open(w) /\ tx[w].listing = l

\* It is the Listing row that it has written, and holds the lock of.
Locks(t) == t.child = NoListing
Others(w) == {v \in Writers \ {w} : On(v, tx[w].listing)}

\* Mutant: deletedAt is not part of the condition.
ProjectionOfState(row, p) ==
  IF row.state = "published"
  THEN [title |-> row.title, inStock |-> row.stock > 0, children |-> p,
        author |-> name] ELSE NoHit

\* The SELECT of refresh_listing_search.
Projection(row, p) ==
  IF row.state = "published" /\ ~row.deleted
  THEN [title |-> row.title, inStock |-> row.stock > 0, children |-> p,
        author |-> name] ELSE NoHit

\* Mutant: a stock that crosses zero does not refresh the row.
TriggeredNotByStock(old, new) ==
  old.state # new.state \/ old.deleted # new.deleted \/ old.title # new.title

\* The WHEN clause of the UPDATE trigger.
Triggered(old, new) ==
  \/ old.state # new.state \/ old.deleted # new.deleted \/ old.title # new.title
  \/ (old.stock > 0) # (new.stock > 0)

-----------------------------------------------------------------------------
(* ListingService. *)

\* create: a draft with some stock.  The INSERT trigger finds nothing to show.
Create(l) ==
  /\ listing[l].state = "absent"
  /\ \E t \in Titles, s \in 0 .. MaxStock :
       listing' = [listing EXCEPT ![l] = [state |-> "draft", deleted |-> FALSE,
                     title |-> t, stock |-> s, version |-> 0]]
  /\ UNCHANGED <<children, name, search, tx>>

\* assertOwner: read before the write, not in its transaction.
Check(w, l) ==
  /\ tx[w].pc = "idle"
  /\ listing[l].state # "absent" /\ ~listing[l].deleted
  /\ tx' = [tx EXCEPT ![w] = [pc |-> "checked", listing |-> l]]
  /\ UNCHANGED <<listing, children, name, search>>

\* The seller reads stock and stockVersion, to write the stock back later.
ReadStock(w, l) ==
  /\ tx[w].pc = "idle"
  /\ listing[l].state # "absent" /\ ~listing[l].deleted
  /\ tx' = [tx EXCEPT ![w] = [pc |-> "read", listing |-> l,
                              stock |-> listing[l].stock, version |-> listing[l].version]]
  /\ UNCHANGED <<listing, children, name, search>>

\* An UPDATE of the Listing row: it waits for the row lock, sees the latest row, and
\* runs the trigger when the WHEN clause says so.
Updating(w, l, new) ==
  /\ \A v \in Writers \ {w} : On(v, l) => ~Locks(tx[v])
  /\ tx' = [tx EXCEPT ![w] =
       [pc |-> IF Triggered(listing[l], new) THEN "delete" ELSE "commit",
        listing |-> l, child |-> NoListing, row |-> new, writes |-> 0,
        saw |-> FALSE, del |-> FALSE, ins |-> NoHit]]
  /\ UNCHANGED <<listing, children, name, search>>

Checked(w) == tx[w].pc = "checked"
Row(w) == listing[tx[w].listing]

Update(w) ==
  /\ Checked(w)
  /\ \E t \in Titles \ {Row(w).title} :
       Updating(w, tx[w].listing, [Row(w) EXCEPT !.title = t])

\* publish and reopen write the same row.
Publish(w) ==
  Checked(w) /\ Updating(w, tx[w].listing, [Row(w) EXCEPT !.state = "published"])
Close(w) ==
  Checked(w) /\ Updating(w, tx[w].listing, [Row(w) EXCEPT !.state = "closed"])

\* Mutant: the deletion has a state of its own, which the schema does not know.
DeleteAsState(w) ==
  Checked(w) /\ Updating(w, tx[w].listing, [Row(w) EXCEPT !.state = "deleted", !.deleted = TRUE])

SoftDelete(w) ==
  /\ Checked(w)
  /\ Updating(w, tx[w].listing, [Row(w) EXCEPT !.state = "closed", !.deleted = TRUE])

\* Mutant: the version is not compared.
StockUnversioned(w) == ~Row(w).deleted

\* The WHERE of setStock with an expectedVersion, evaluated on the latest row.
StockMatches(w) == ~Row(w).deleted /\ Row(w).version = tx[w].version

\* setStock: a compare-and-set on stockVersion, which closes the listing at zero.
SetStock(w) ==
  /\ tx[w].pc = "read" /\ StockMatches(w) /\ Row(w).version < MaxVersion
  /\ \E s \in 0 .. MaxStock :
       Updating(w, tx[w].listing,
                [Row(w) EXCEPT !.stock = s, !.version = @ + 1,
                               !.state = IF s = 0 THEN "closed" ELSE @])

\* The version has moved: 409.
StockConflict(w) ==
  /\ tx[w].pc = "read" /\ ~StockMatches(w)
  /\ \A v \in Writers \ {w} : On(v, tx[w].listing) => ~Locks(tx[v])
  /\ tx' = [tx EXCEPT ![w] = Idle]
  /\ UNCHANGED <<listing, children, name, search>>

\* A child row is written, under its own lock: its trigger refreshes the projection too,
\* without the lock on the Listing row, and beside the refreshes of the other child rows.
ChildWrite(w, l) ==
  /\ tx[w].pc = "idle" /\ listing[l].state # "absent"
  /\ \E c \in ChildRows :
       /\ \A v \in Writers \ {w} : On(v, l) => tx[v].child # c
       /\ children[l][c] < MaxWrites
       /\ tx' = [tx EXCEPT ![w] =
            [pc |-> "delete", listing |-> l, child |-> c, row |-> NoListing,
             writes |-> children[l][c] + 1, saw |-> FALSE, del |-> FALSE, ins |-> NoHit]]
  /\ UNCHANGED <<listing, children, name, search>>

\* PATCH /me writes the User row, which has no trigger.
Rename ==
  /\ \E n \in Names \ {name} : name' = n
  /\ UNCHANGED <<listing, children, search, tx>>

-----------------------------------------------------------------------------
(* refresh_listing_search. *)

\* The DELETE begins: its snapshot has the committed row or it has not.
DeleteBegins(w) ==
  /\ tx[w].pc = "delete"
  /\ tx' = [tx EXCEPT ![w].pc = "deleting", ![w].saw = search[tx[w].listing] # NoHit]
  /\ UNCHANGED <<listing, children, name, search>>

\* The row it saw is its own to delete, unless another transaction has deleted it,
\* which it waits for.
DeleteEnds(w) ==
  /\ tx[w].pc = "deleting"
  /\ tx[w].saw => \A v \in Others(w) : ~tx[v].del
  /\ tx' = [tx EXCEPT ![w].pc = "insert", ![w].del = tx[w].saw]
  /\ UNCHANGED <<listing, children, name, search>>

\* The SELECT: its own rows, and what others have committed by now.
Seen(w) ==
  LET l == tx[w].listing IN
  IF Locks(tx[w]) THEN Projection(tx[w].row, children[l])
  ELSE Projection(listing[l], [children[l] EXCEPT ![tx[w].child] = tx[w].writes])

InsertBegins(w) ==
  /\ tx[w].pc = "insert"
  /\ tx' = [tx EXCEPT ![w].pc = IF Seen(w) = NoHit THEN "commit" ELSE "inserting",
                      ![w].ins = Seen(w)]
  /\ UNCHANGED <<listing, children, name, search>>

\* The primary key is free once no other transaction is about to change it.
KeySettled(w) == \A v \in Others(w) : ~tx[v].del /\ (tx[v].ins = NoHit \/ tx[v].pc = "inserting")
KeyTaken(w) == search[tx[w].listing] # NoHit /\ ~tx[w].del

InsertEnds(w) ==
  /\ tx[w].pc = "inserting" /\ KeySettled(w) /\ ~KeyTaken(w)
  /\ tx' = [tx EXCEPT ![w].pc = "commit"]
  /\ UNCHANGED <<listing, children, name, search>>

\* Duplicate key: the transaction, the seller's write included, is rolled back.
InsertFails(w) ==
  /\ tx[w].pc = "inserting" /\ KeySettled(w) /\ KeyTaken(w)
  /\ tx' = [tx EXCEPT ![w] = Idle]
  /\ UNCHANGED <<listing, children, name, search>>

\* Whoever waits to delete the row that this transaction deleted finds it gone.
Commit(w) ==
  /\ tx[w].pc = "commit"
  /\ LET l == tx[w].listing IN
     /\ listing' = IF Locks(tx[w]) THEN [listing EXCEPT ![l] = tx[w].row] ELSE listing
     /\ children' = IF Locks(tx[w]) THEN children
                    ELSE [children EXCEPT ![l][tx[w].child] = tx[w].writes]
     /\ search' = IF tx[w].ins # NoHit \/ tx[w].del
                  THEN [search EXCEPT ![l] = tx[w].ins] ELSE search
     /\ tx' = [v \in Writers |->
                 IF v = w THEN Idle
                 ELSE IF On(v, l) /\ tx[v].pc = "deleting" /\ tx[w].del
                 THEN [tx[v] EXCEPT !.saw = FALSE]
                 ELSE tx[v]]
     /\ UNCHANGED name

\* The request ends early: a connection lost, a process that dies, a refusal.
Rollback(w) ==
  /\ tx[w].pc # "idle"
  /\ tx' = [tx EXCEPT ![w] = Idle]
  /\ UNCHANGED <<listing, children, name, search>>

Init ==
  /\ listing \in [Listings -> [state : {"absent"}, deleted : {FALSE}, title : Titles,
                               stock : {0}, version : {0}]]
  /\ children = [l \in Listings |-> Unwritten]
  /\ name \in Names
  /\ search = [l \in Listings |-> NoHit]
  /\ tx = [w \in Writers |-> Idle]

Refresh(w) ==
  DeleteBegins(w) \/ DeleteEnds(w) \/ InsertBegins(w) \/ InsertEnds(w) \/ InsertFails(w)
Write(w) ==
  Update(w) \/ Publish(w) \/ Close(w) \/ SoftDelete(w) \/ SetStock(w) \/ StockConflict(w)

Next ==
  \/ \E w \in Writers :
       \/ Write(w) \/ Refresh(w) \/ Commit(w) \/ Rollback(w)
       \/ \E l \in Listings : Check(w, l) \/ ReadStock(w, l) \/ ChildWrite(w, l)
  \/ \E l \in Listings : Create(l)
  \/ Rename

Spec == Init /\ [][Next]_vars

-----------------------------------------------------------------------------
(* Properties. *)

TypeOK ==
  /\ listing \in [Listings -> ListingRow]
  /\ children \in [Listings -> Written]
  /\ name \in Names
  /\ search \in [Listings -> Hit \cup {NoHit}]
  /\ \A w \in Writers :
       \/ tx[w] = Idle
       \/ tx[w] \in [pc : {"checked"}, listing : Listings]
       \/ tx[w] \in [pc : {"read"}, listing : Listings, stock : 0 .. MaxStock,
                     version : 0 .. MaxVersion]
       \/ Open(w) /\ tx[w] \in
            [pc : {"delete", "deleting", "insert", "inserting", "commit"},
             listing : Listings, child : ChildRows \cup {NoListing},
             row : ListingRow \cup {NoListing}, writes : 0 .. MaxWrites,
             saw : BOOLEAN, del : BOOLEAN, ins : Hit \cup {NoHit}]

OnSale(l) == listing[l].state = "published" /\ ~listing[l].deleted

\* The search finds every listing that is on sale, with its present title and stock,
\* whatever requests and child rows refresh its projection at the same time.
OnSaleIsShown ==
  \A l \in Listings : OnSale(l) =>
    /\ search[l] # NoHit
    /\ search[l].title = listing[l].title
    /\ search[l].inStock <=> listing[l].stock > 0

\* The search shows nothing else: a listing that was closed, sold out or deleted is
\* gone from it with the commit, even if a request that checked its owner before the
\* deletion publishes it after.  (As long as no child row was written: see ClosedConverges.)
NothingElseShown ==
  \A l \in Listings : children[l] = Unwritten /\ search[l] # NoHit => OnSale(l)

\* No stock update is lost: a versioned setStock is written only if the stock is
\* still the one its seller had read.
StockAsRead ==
  [][\A w \in Writers :
       tx[w].pc = "read" /\ Open(w)' => tx[w].stock = Row(w).stock]_vars

-----------------------------------------------------------------------------
(* What the comments of performance.sql say, and TLC refutes. *)

\* performance.sql:143-144 - unpublish, close and delete all converge: with no
\* transaction open, the search shows only what is on sale.
ClosedConverges ==
  (\A w \in Writers : ~Open(w)) => \A l \in Listings : search[l] # NoHit => OnSale(l)

\* performance.sql:144 - the triggers on the listing and its denormalized inputs keep
\* the projection live: with no transaction open, it shows what a refresh would.
ProjectionIsLive ==
  (\A w \in Writers : ~Open(w)) =>
    \A l \in Listings : search[l] = Projection(listing[l], children[l])

=============================================================================
