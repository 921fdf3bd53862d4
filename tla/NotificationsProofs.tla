-------------------------- MODULE NotificationsProofs --------------------------
(***************************************************************************)
(* Notifications for any number of users, events, reminders and rows: each *)
(* is in a feed once, and what was read stays read.                        *)
(***************************************************************************)
EXTENDS Notifications, FiniteSetTheorems, TLAPS

\* No two rows of a table are about the same, unless it is news.
Distinct(table) ==
  \A i, j \in Ids :
    /\ table[i] # None /\ table[j] # None /\ table[i].of = table[j].of
    /\ table[i].of \notin News
    => i = j

\* Beside types: what is not created yet is not there, on the primary.
IInv ==
  /\ TypeOK
  /\ Distinct(db) /\ Distinct(replica)
  /\ \A i \in Ids : i > next => db[i] = None

\* Rows are made of what they are about and of a time.
LEMMA RowTyped ==
  ASSUME NEW about \in Subjects, NEW t \in Times \cup {None}
  PROVE  Row(about, t) \in Rows /\ Row(about, t).of = about
  BY DEF Row, Rows, Subjects

\* The steps of the methods as steps of the two tables.
LEMMA InsertStep ==
  ASSUME IInv, NEW about \in Subjects, NEW t \in Times \cup {None},
         about \in News \/ About(db, about) = {}, Insert(Row(about, t))
  PROVE  /\ next' \in 0 .. MaxRows /\ db' \in Tables /\ Distinct(db')
         /\ \A i \in Ids : i > next' => db'[i] = None
         /\ \A i \in Ids : db[i] # None => db'[i] = db[i]
<1>1. /\ MaxRows \in Nat /\ next \in 0 .. MaxRows /\ next < MaxRows
      /\ next' = next + 1 /\ next + 1 \in Ids /\ db \in Tables
  BY NotificationsAssumption DEF IInv, TypeOK, Insert, Ids
<1>2. db' = [db EXCEPT ![next + 1] = Row(about, t)]
  BY DEF Insert
<1>3. db[next + 1] = None
  BY <1>1 DEF IInv
<1>4. Row(about, t) \in Rows /\ Row(about, t).of = about
  BY RowTyped
<1>5. \A i \in Ids : db'[i] = IF i = next + 1 THEN Row(about, t) ELSE db[i]
  BY <1>1, <1>2 DEF Tables
<1>6. db' \in Tables
  BY <1>1, <1>2, <1>4 DEF Tables
<1>7. next' \in 0 .. MaxRows
  BY <1>1
<1>8. about \in News \/ \A i \in Ids : db[i] # None => db[i].of # about
  BY DEF About, There
<1>9. Distinct(db')
  BY <1>4, <1>5, <1>8 DEF Distinct, IInv
<1>10. \A i \in Ids : i > next' => db'[i] = None
  BY <1>1, <1>5 DEF IInv, Ids
<1>11. \A i \in Ids : db[i] # None => db'[i] = db[i]
  BY <1>3, <1>5
<1> QED
  BY <1>6, <1>7, <1>9, <1>10, <1>11

\* A table in which rows go, or change without changing what they are about.
LEMMA ChangeStep ==
  ASSUME IInv, db' \in Tables,
         \A i \in Ids : db'[i] # None => db[i] # None /\ db'[i].of = db[i].of
  PROVE  Distinct(db') /\ \A i \in Ids : i > next => db'[i] = None
<1>1. Distinct(db')
  BY DEF Distinct, IInv
<1>2. \A i \in Ids : i > next => db'[i] = None
  BY DEF IInv
<1> QED
  BY <1>1, <1>2

\* What every step does to the notifications.
Kept(old, new) == new = None \/ (old # None /\ new.of = old.of /\ (old.read => new.read))

\* clearScheduled and clearByShow delete rows and change none.
LEMMA DeleteStep ==
  ASSUME IInv, NEW I, Delete(I)
  PROVE  db' \in Tables /\ next' = next /\ \A i \in Ids : Kept(db[i], db'[i])
  BY DEF Delete, IInv, TypeOK, Tables, Kept

\* markRead only sets the flag of the rows it finds.
LEMMA MarkStep ==
  ASSUME IInv, NEW u, NEW ids, MarkRead(u, ids)
  PROVE  db' \in Tables /\ next' = next /\ \A i \in Ids : Kept(db[i], db'[i])
<1>1. db \in Tables
  BY DEF IInv, TypeOK
<1>2. ASSUME NEW i \in Ids PROVE db'[i] \in Rows \cup {None} /\ Kept(db[i], db'[i])
  <2>1. CASE i \in ids \cap OwnedBy(db, u)
    <3>1. db[i] # None /\ db[i] \in Rows
      BY <2>1, <1>1 DEF OwnedBy, There, Tables
    <3>2. db'[i] = [db[i] EXCEPT !.read = TRUE]
      BY <2>1 DEF MarkRead
    <3>3. db'[i] \in Rows /\ db'[i].of = db[i].of /\ db'[i].read = TRUE
      BY <3>1, <3>2 DEF Rows
    <3> QED
      BY <3>1, <3>3 DEF Kept
  <2>2. CASE i \notin ids \cap OwnedBy(db, u)
    <3>1. db'[i] = db[i]
      BY <2>2 DEF MarkRead
    <3> QED
      BY <3>1, <1>1 DEF Kept, Tables
  <2> QED
    BY <2>1, <2>2
<1>3. db' \in Tables
  BY <1>2 DEF MarkRead, Tables
<1> QED
  BY <1>2, <1>3 DEF MarkRead

\* Rescheduling a reminder moves its time and leaves what it is about and whether it
\* was read.
LEMMA RescheduleStep ==
  ASSUME IInv, NEW k, NEW t \in Times,
         db' = [i \in Ids |-> IF i \in About(db, k) THEN Rescheduled(db[i], t) ELSE db[i]]
  PROVE  db' \in Tables /\ \A i \in Ids : Kept(db[i], db'[i])
<1>1. db \in Tables
  BY DEF IInv, TypeOK
<1>2. ASSUME NEW i \in Ids PROVE db'[i] \in Rows \cup {None} /\ Kept(db[i], db'[i])
  <2>1. CASE i \in About(db, k)
    <3>1. db[i] # None /\ db[i] \in Rows
      BY <2>1, <1>1 DEF About, There, Tables
    <3>2. db'[i] = [db[i] EXCEPT !.sendAt = t]
      BY <2>1 DEF Rescheduled
    <3>3. db'[i] \in Rows /\ db'[i].of = db[i].of /\ db'[i].read = db[i].read
      BY <3>1, <3>2 DEF Rows
    <3> QED
      BY <3>1, <3>3 DEF Kept
  <2>2. CASE i \notin About(db, k)
    BY <2>2, <1>1 DEF Kept, Tables
  <2> QED
    BY <2>1, <2>2
<1> QED
  BY <1>2 DEF Tables

-----------------------------------------------------------------------------
(* What a producer or a client does to the notifications, in one of two ways. *)
Inserts ==
  \E about \in Subjects, t \in Times \cup {None} :
    (about \in News \/ About(db, about) = {}) /\ Insert(Row(about, t))
Changes ==
  db' \in Tables /\ next' = next /\ \A i \in Ids : Kept(db[i], db'[i])

\* Every step inserts one row, of news or of what was missing, or changes no row's subject.
LEMMA EveryStep ==
  ASSUME IInv, [Next]_vars
  PROVE  Inserts \/ Changes
<1>0. db \in Tables
  BY DEF IInv, TypeOK
<1>1. ASSUME db' = db, next' = next PROVE Changes
  BY <1>0, <1>1 DEF Changes, Kept, Tables
<1>2. ASSUME NEW e \in Events \cup News, Create(e) PROVE Inserts
  BY <1>2 DEF Create, Inserts, Subjects
<1>3. ASSUME NEW k \in Reminders, NEW t \in Times, CreateScheduled(k, t)
      PROVE  Inserts \/ Changes
  <2>1. CASE About(db, k) = {}
    BY <2>1, <1>3 DEF CreateScheduled, Inserts, Subjects
  <2>2. CASE About(db, k) # {}
    BY <2>2, <1>3, RescheduleStep DEF CreateScheduled, Changes
  <2> QED
    BY <2>1, <2>2
<1>4. ASSUME NEW k \in Reminders, ClearScheduled(k) PROVE Changes
  BY <1>4, DeleteStep DEF ClearScheduled, Changes
<1>5. ASSUME NEW k \in Reminders, ClearByShow(k.show, {k.type}) PROVE Changes
  BY <1>5, DeleteStep DEF ClearByShow, Changes
<1>6. ASSUME NEW u \in Users, NEW ids, MarkRead(u, ids) PROVE Changes
  BY <1>6, MarkStep DEF Changes
<1>7. ASSUME NEW u \in Users,
             \/ \E p, e \in Maps \cup {None} : UpdatePreferences(u, p, e)
             \/ \E d \in Devices : RegisterPushToken(u, d) \/ RevokePushToken(u, d)
      PROVE  Changes
  BY <1>7, <1>1 DEF UpdatePreferences, RegisterPushToken, RevokePushToken
<1>8. CASE Tick \/ Replicate \/ UNCHANGED vars
  BY <1>8, <1>1 DEF Tick, Replicate, vars
<1> QED
  BY <1>2, <1>3, <1>4, <1>5, <1>6, <1>7, <1>8 DEF Next, Producer, Client

\* An empty table is sound.
LEMMA InitIsSound == Init => IInv
<1> SUFFICES ASSUME Init PROVE IInv
  OBVIOUS
<1>1. 0 \in Times /\ 0 \in 0 .. MaxRows
  BY NotificationsAssumption DEF Times
<1>2. Empty \in Maps
  BY NotificationsAssumption
<1>3. TypeOK
  BY <1>1, <1>2 DEF Init, TypeOK, Tables, NoMaps
<1> QED
  BY <1>3 DEF Init, IInv, Distinct

\* Every step of every method keeps the invariant.
LEMMA StepIsSound == IInv /\ [Next]_vars => IInv'
<1> SUFFICES ASSUME IInv, [Next]_vars PROVE IInv'
  OBVIOUS
<1>1. db' \in Tables /\ next' \in 0 .. MaxRows /\ Distinct(db')
      /\ \A i \in Ids : i > next' => db'[i] = None
  <2>1. CASE Inserts
    BY <2>1, InsertStep DEF Inserts
  <2>2. CASE Changes
    <3>1. \A i \in Ids : db'[i] # None => db[i] # None /\ db'[i].of = db[i].of
      BY <2>2 DEF Changes, Kept
    <3> QED
      BY <3>1, <2>2, ChangeStep DEF Changes, IInv, TypeOK
  <2> QED
    BY <2>1, <2>2, EveryStep
<1>2. replica' \in Tables /\ Distinct(replica')
  <2>1. replica' = replica \/ replica' = db
    BY DEF Next, Producer, Client, vars, Create, CreateScheduled, ClearScheduled, ClearByShow,
       MarkRead, UpdatePreferences, RegisterPushToken, RevokePushToken, Tick, Replicate
  <2>2. CASE replica' = replica
    BY <2>2 DEF IInv, TypeOK, Distinct
  <2>3. CASE replica' = db
    BY <2>3 DEF IInv, TypeOK, Distinct
  <2> QED
    BY <2>1, <2>2, <2>3
<1>3. now' \in Times
  <2>1. now' = now \/ (now < MaxTime /\ now' = now + 1)
    BY DEF Next, Producer, Client, vars, Create, CreateScheduled, ClearScheduled, ClearByShow,
       MarkRead, UpdatePreferences, RegisterPushToken, RevokePushToken, Tick, Replicate
  <2> QED
    BY <2>1, NotificationsAssumption DEF IInv, TypeOK, Times
<1>4. prefs' \in [Users -> [priorities : Maps, enabled : Maps]]
  <2>1. prefs \in [Users -> [priorities : Maps, enabled : Maps]]
    BY DEF IInv, TypeOK
  <2>2. ASSUME NEW u \in Users, NEW p \in Maps \cup {None}, NEW e \in Maps \cup {None},
               UpdatePreferences(u, p, e)
        PROVE  prefs' \in [Users -> [priorities : Maps, enabled : Maps]]
    <3>1. /\ Replaced(prefs[u].priorities, p) \in Maps
          /\ Replaced(prefs[u].enabled, e) \in Maps
      BY <2>1, <2>2 DEF Replaced
    <3> QED
      BY <2>1, <2>2, <3>1 DEF UpdatePreferences
  <2>3. \/ prefs' = prefs
        \/ \E u \in Users : \E p, e \in Maps \cup {None} : UpdatePreferences(u, p, e)
    BY DEF Next, Producer, Client, vars, Create, CreateScheduled, ClearScheduled, ClearByShow,
       MarkRead, RegisterPushToken, RevokePushToken, Tick, Replicate
  <2> QED
    BY <2>1, <2>2, <2>3
<1>5. push' \in [Users \X Devices -> {"absent", "live", "revoked"}]
  <2>1. push \in [Users \X Devices -> {"absent", "live", "revoked"}]
    BY DEF IInv, TypeOK
  <2>2. \/ push' = push
        \/ \E u \in Users, d \in Devices : push' = [push EXCEPT ![<<u, d>>] = "live"]
        \/ \E u \in Users, d \in Devices : push' = [push EXCEPT ![<<u, d>>] = "revoked"]
    BY DEF Next, Producer, Client, vars, Create, CreateScheduled, ClearScheduled, ClearByShow,
       MarkRead, UpdatePreferences, RegisterPushToken, RevokePushToken, Tick, Replicate
  <2> QED
    BY <2>1, <2>2
<1> QED
  BY <1>1, <1>2, <1>3, <1>4, <1>5 DEF IInv, TypeOK, Tables, Distinct

-----------------------------------------------------------------------------
(* The theorems. *)

\* The inductive invariant of the notifications.
THEOREM NotificationsSound == Spec => []IInv
  BY InitIsSound, StepIsSound, PTL DEF Spec

\* The variables of NotificationService's model keep their types.
THEOREM NotificationsTypeCorrect == Spec => []TypeOK
<1>1. IInv => TypeOK
  BY DEF IInv
<1> QED
  BY <1>1, NotificationsSound, PTL

\* A table without duplicates has one row at most about a subject that is no news.
LEMMA AtMostOne ==
  ASSUME NEW table, Distinct(table), NEW x, x \notin News
  PROVE  Cardinality(About(table, x)) <= 1
<1>1. CASE About(table, x) = {}
  BY <1>1, FS_EmptySet
<1>2. CASE About(table, x) # {}
  <2>1. PICK i \in About(table, x) : TRUE
    BY <1>2
  <2>2. About(table, x) = {i}
    BY <2>1 DEF About, There, Distinct
  <2>3. Cardinality({i}) = 1
    BY FS_Singleton
  <2> QED
    BY <2>2, <2>3
<1> QED
  BY <1>1, <1>2

\* A feed has an event and a reminder once, on the primary and on the replica, however
\* often they are delivered, rescheduled and cleared.
THEOREM NotificationsOneOfEach == Spec => []OneOfEach
<1>1. IInv => OneOfEach
  <2>1. \A x \in Events \cup Reminders : x \notin News
    BY NotificationsAssumption
  <2> QED
    BY <2>1, AtMostOne DEF IInv, OneOfEach
<1> QED
  BY <1>1, NotificationsSound, PTL

\* What was read stays read until it is deleted.
THEOREM NotificationsReadIsForever == Spec => ReadIsForever
<1>1. IInv /\ [Next]_vars =>
        [\A i \in Ids : db[i] # None /\ db[i].read =>
           db'[i] = None \/ (db'[i].read /\ db'[i].of = db[i].of)]_vars
  <2> SUFFICES ASSUME IInv, [Next]_vars, NEW i \in Ids, db[i] # None, db[i].read
               PROVE  db'[i] = None \/ (db'[i].read /\ db'[i].of = db[i].of)
    OBVIOUS
  <2>1. CASE Inserts
    <3>1. db'[i] = db[i]
      BY <2>1, InsertStep DEF Inserts
    <3> QED
      BY <3>1
  <2>2. CASE Changes
    BY <2>2 DEF Changes, Kept
  <2> QED
    BY <2>1, <2>2, EveryStep
<1> QED
  BY <1>1, NotificationsSound, PTL DEF Spec, ReadIsForever
=============================================================================
