----------------------------- MODULE Notifications -----------------------------
(***************************************************************************)
(* In-app notifications, their preferences and the push tokens             *)
(* (NotificationService).  Every method is one statement, so that requests *)
(* interleave between methods.  Feeds and counts are read from a replica   *)
(* that trails the primary.                                                *)
(*                                                                         *)
(* The callers of create, createScheduled, clearScheduled and clearByShow  *)
(* are not in the repository: events may reach them again, and out of      *)
(* order.                                                                  *)
(***************************************************************************)
EXTENDS Integers, FiniteSets

CONSTANTS
  Users,
  Events,     \* the order events, each with its recipient
  News,       \* what is created without an order: it has no key
  Reminders,  \* the scheduled keys, each with its recipient and show
  Devices,    \* the push tokens
  Maps,       \* the preference maps a client may send, Empty among them
  Empty,
  MaxRows,    \* bounds the notifications created
  MaxTime,    \* bounds the clock
  None

ASSUME NotificationsAssumption ==
  /\ Events \subseteq [recipient : Users, order : STRING, type : STRING]
  /\ Reminders \subseteq [recipient : Users, show : STRING, type : STRING]
  /\ News \subseteq [recipient : Users, show : STRING, type : STRING, text : STRING]
  /\ Events \cap (Reminders \cup News) = {} /\ Reminders \cap News = {}
  /\ MaxRows \in Nat /\ MaxTime \in Nat /\ Empty \in Maps /\ None \notin Maps

VARIABLES
  now,
  db,       \* db[i]: the notification created as the i-th, None before and after
  replica,  \* an earlier state of db
  next,     \* the number of notifications created
  prefs,    \* the NotificationPreference rows
  push      \* the PushToken rows: those that are live, and those revoked

vars == <<now, db, replica, next, prefs, push>>

-----------------------------------------------------------------------------
Ids == 1 .. MaxRows
Times == 0 .. MaxTime

\* `of` is what the notification is about: the columns of the partial unique index on
\* (recipientId, orderId, type), those that make the scheduledKey, or no key at all.
Row(about, sendAt) == [of |-> about, sendAt |-> sendAt, read |-> FALSE]
Subjects == Events \cup News \cup Reminders
Rows == [of : Subjects, sendAt : Times \cup {None}, read : BOOLEAN]

There(table) == {i \in Ids : table[i] # None}
About(table, x) == {i \in There(table) : table[i].of = x}
OwnedBy(table, u) == {i \in There(table) : table[i].of.recipient = u}

Insert(row) ==
  /\ next < MaxRows
  /\ next' = next + 1
  /\ db' = [db EXCEPT ![next + 1] = row]
Delete(I) == db' = [i \in Ids |-> IF i \in I THEN None ELSE db[i]] /\ UNCHANGED next

-----------------------------------------------------------------------------
(* What other modules call. *)

\* Mutant: there is no unique index.
CreateAgain(e) ==
  /\ Insert(Row(e, None))
  /\ UNCHANGED <<now, replica, prefs, push>>

\* create; a duplicate of an order notification is P2002, which is swallowed, and anything
\* else is created as often as it is asked for.
Create(e) ==
  /\ e \in News \/ About(db, e) = {}
  /\ Insert(Row(e, None))
  /\ UNCHANGED <<now, replica, prefs, push>>

\* Mutant: a reminder that is scheduled again is unread again.
ResetOnUpdate(row, t) == [row EXCEPT !.sendAt = t, !.read = FALSE]

\* The update of the upsert leaves read, readAt and createdAt alone.
Rescheduled(row, t) == [row EXCEPT !.sendAt = t]

\* createScheduled: an upsert by scheduledKey.
CreateScheduled(k, t) ==
  /\ IF About(db, k) = {}
     THEN Insert(Row(k, t))
     ELSE /\ db' = [i \in Ids |-> IF i \in About(db, k) THEN Rescheduled(db[i], t) ELSE db[i]]
          /\ UNCHANGED next
  /\ UNCHANGED <<now, replica, prefs, push>>

ClearScheduled(k) ==
  /\ Delete(About(db, k))
  /\ UNCHANGED <<now, replica, prefs, push>>

\* What there is of these types about a show, reminders and others, whoever it is for.
ClearByShow(show, types) ==
  /\ Delete({i \in There(db) : /\ db[i].of \in Reminders \cup News
                               /\ db[i].of.show = show /\ db[i].of.type \in types})
  /\ UNCHANGED <<now, replica, prefs, push>>

-----------------------------------------------------------------------------
(* What the user sees and does. *)

\* Mutant: a row is hidden at the very moment it is due.
VisibleLate(row) == row.sendAt = None \/ row.sendAt < now

\* visibleFilter.
Visible(row) == row.sendAt = None \/ row.sendAt <= now

\* listForUser and unreadCount, which a client calls whenever it likes.
Feed(u) == {i \in OwnedBy(replica, u) : Visible(replica[i])}
UnreadCount(u) == Cardinality({i \in Feed(u) : ~replica[i].read})

\* markRead, of the ids or of all: whatever of the caller's is unread, due or not.
MarkRead(u, ids) ==
  /\ db' = [i \in Ids |-> IF i \in ids \cap OwnedBy(db, u) THEN [db[i] EXCEPT !.read = TRUE]
                                                          ELSE db[i]]
  /\ UNCHANGED <<now, replica, next, prefs, push>>

\* Mutant: what is omitted is stored, too.
StoredAsSent(old, new) == new

\* updatePreferences: a map that is omitted stays.
Replaced(old, new) == IF new = None THEN old ELSE new

UpdatePreferences(u, priorities, enabled) ==
  /\ prefs' = [prefs EXCEPT ![u] = [priorities |-> Replaced(@.priorities, priorities),
                                    enabled    |-> Replaced(@.enabled, enabled)]]
  /\ UNCHANGED <<now, db, replica, next, push>>

\* registerPushToken: an upsert by user and token.
RegisterPushToken(u, d) ==
  /\ push' = [push EXCEPT ![<<u, d>>] = "live"]
  /\ UNCHANGED <<now, db, replica, next, prefs>>

RevokePushToken(u, d) ==
  /\ push[<<u, d>>] # "absent"
  /\ push' = [push EXCEPT ![<<u, d>>] = "revoked"]
  /\ UNCHANGED <<now, db, replica, next, prefs>>

-----------------------------------------------------------------------------
(* The environment. *)

Tick ==
  /\ now < MaxTime /\ now' = now + 1
  /\ UNCHANGED <<db, replica, next, prefs, push>>

\* The replica has applied what the primary committed.
Replicate ==
  /\ replica # db /\ replica' = db
  /\ UNCHANGED <<now, db, next, prefs, push>>

NoMaps == [priorities |-> Empty, enabled |-> Empty]

Init ==
  /\ now = 0 /\ next = 0
  /\ db = [i \in Ids |-> None] /\ replica = db
  /\ prefs = [u \in Users |-> NoMaps]
  /\ push = [p \in Users \X Devices |-> "absent"]

Producer ==
  \/ \E e \in Events \cup News : Create(e)
  \/ \E k \in Reminders : ClearScheduled(k) \/ \E t \in Times : CreateScheduled(k, t)
  \/ \E k \in Reminders : ClearByShow(k.show, {k.type})

Client ==
  \E u \in Users :
    \/ MarkRead(u, Ids) \/ \E i \in Ids : MarkRead(u, {i})
    \/ \E p, e \in Maps \cup {None} : UpdatePreferences(u, p, e)
    \/ \E d \in Devices : RegisterPushToken(u, d) \/ RevokePushToken(u, d)

Next == Producer \/ Client \/ Tick \/ Replicate

Spec == Init /\ [][Next]_vars

\* The clock runs, and the replica goes on applying.
FairSpec == Spec /\ WF_vars(Tick) /\ WF_vars(Replicate)

-----------------------------------------------------------------------------
(* Properties. *)

Tables == [Ids -> Rows \cup {None}]

TypeOK ==
  /\ now \in Times /\ next \in 0 .. MaxRows
  /\ db \in Tables /\ replica \in Tables
  /\ prefs \in [Users -> [priorities : Maps, enabled : Maps]]
  /\ push \in [Users \X Devices -> {"absent", "live", "revoked"}]

\* However often an event is delivered and in whatever order reminders are scheduled,
\* scheduled again and cleared, a feed has one row of it: on the replica too.  News has no
\* key, and as many rows as it was created times.
OneOfEach ==
  \A x \in Events \cup Reminders :
    Cardinality(About(db, x)) <= 1 /\ Cardinality(About(replica, x)) <= 1

\* What was read stays read until it is deleted, although events are delivered again,
\* reminders rescheduled, and two devices of the user mark rows at once.
ReadIsForever ==
  [][\A i \in Ids : db[i] # None /\ db[i].read =>
       db'[i] = None \/ (db'[i].read /\ db'[i].of = db[i].of)]_vars

\* A notification that is there and due is some day in the feed, unless it is cleared or
\* rescheduled first.
Due(i) == i \in There(db) /\ (db[i].sendAt = None \/ db[i].sendAt <= now)
DueIsShown ==
  \A i \in Ids : Due(i) ~> (~Due(i) \/ i \in Feed(db[i].of.recipient))

-----------------------------------------------------------------------------
(* What the documentation of the code says, and TLC refutes. *)

\* push-token.controller.ts:51 - a token that was bound to a different account is
\* re-bound to the caller: a device gets the pushes of one account.
OneAccountPerDevice ==
  \A d \in Devices : Cardinality({u \in Users : push[<<u, d>>] = "live"}) <= 1

\* notification.service.ts:119 - the feed is newest first, and a reminder is hidden until
\* it is due: one that is not due yet is not read yet.
FutureIsUnread ==
  \A i \in There(db) : db[i].read => Visible(db[i])
=============================================================================
