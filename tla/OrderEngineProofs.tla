--------------------------- MODULE OrderEngineProofs ---------------------------
(***************************************************************************)
(* Proofs about OrderEngine, for any orders, sweeps, batch size, callers   *)
(* and faults: the process table, the types, the safety properties, and    *)
(* that the engine implements OrderLifecycle.                              *)
(***************************************************************************)
EXTENDS OrderEngine, TLAPS, SequenceTheorems

-----------------------------------------------------------------------------
(* The process table, which the engine never changes. *)

AllStates == States \cup {NoOrder}

\* Every entry of the table is well formed: it goes from and to states of the
\* process, is open to known actors and triggers a known money action.
LEMMA TransitionsTyped ==
  \A t \in Transitions :
    /\ t.from \subseteq States
    /\ t.to \in States
    /\ t.actor \subseteq Actors
    /\ t.action \in MoneyActions \cup {"none"}
<1> SUFFICES ASSUME NEW t \in Transitions
             PROVE  /\ t.from \subseteq States
                    /\ t.to \in States
                    /\ t.actor \subseteq Actors
                    /\ t.action \in MoneyActions \cup {"none"}
  OBVIOUS
<1>1. t.from \subseteq States
  BY DEF Transitions, TransitionDef, States
<1>2. t.to \in States
  BY DEF Transitions, TransitionDef, States
<1>3. t.actor \subseteq Actors
  BY DEF Transitions, TransitionDef, Actors
<1>4. t.action \in MoneyActions \cup {"none"}
  BY DEF Transitions, TransitionDef, MoneyActions
<1> QED
  BY <1>1, <1>2, <1>3, <1>4

\* The numbering of the states is total and gives no number twice.
LEMMA RankNumbers ==
  /\ \A s \in AllStates : Rank[s] \in 0 .. 13
  /\ \A s, u \in AllStates : Rank[s] = Rank[u] => s = u
<1>1. \A s \in AllStates : Rank[s] \in 0 .. 13
  BY DEF AllStates, States, NoOrder, Rank
<1>2. \A s, u \in AllStates : Rank[s] = Rank[u] => s = u
  BY DEF AllStates, States, NoOrder, Rank
<1> QED
  BY <1>1, <1>2

\* The process has no cycle: every transition climbs in rank.
LEMMA RankClimbs ==
  \A t \in Transitions : \A s \in t.from : Rank[s] < Rank[t.to]
  BY DEF Transitions, TransitionDef, Rank, States, NoOrder

\* Every timer fires a transition of the table that starts in the timer's own
\* state only and is open to the system: the guardState check and the guards of
\* apply agree.
LEMMA TimersFireHome ==
  ASSUME NEW s \in TimedStates
  PROVE  /\ Named(StateTimers[s]) \in Transitions
         /\ Named(StateTimers[s]).name = StateTimers[s]
         /\ Named(StateTimers[s]).from = {s}
         /\ "system" \in Named(StateTimers[s]).actor
<1>1. \E t \in Transitions : t.name = StateTimers[s]
  BY DEF Transitions, TransitionDef, StateTimers, TimedStates
<1>2. Named(StateTimers[s]) \in Transitions /\ Named(StateTimers[s]).name = StateTimers[s]
  BY <1>1 DEF Named
<1>3. \A t \in Transitions :
        t.name = StateTimers[s] => t.from = {s} /\ "system" \in t.actor
  BY DEF Transitions, TransitionDef, StateTimers, TimedStates
<1> QED
  BY <1>2, <1>3

\* The one immediate transition leads from received to completed, is open to the
\* system, moves no money, and ends in a state that is not immediate itself.
LEMMA ImmediateIsCompletion ==
  LET t == Named("mark-completed") IN
    /\ t \in Transitions
    /\ t.name = "mark-completed" /\ t.from = {"received"} /\ t.to = "completed"
    /\ "system" \in t.actor /\ t.action = "none"
<1>1. \E t \in Transitions : t.name = "mark-completed"
  BY DEF Transitions, TransitionDef
<1>2. Named("mark-completed") \in Transitions /\ Named("mark-completed").name = "mark-completed"
  BY <1>1 DEF Named
<1>3. \A t \in Transitions : t.name = "mark-completed" =>
        /\ t.from = {"received"} /\ t.to = "completed"
        /\ "system" \in t.actor /\ t.action = "none"
  BY DEF Transitions, TransitionDef
<1> QED
  BY <1>2, <1>3

\* The states whose orders have been paid out.
PaidOut == {"received", "completed", "reviewed"}

\* How the table moves money: exactly the transitions into received pay out,
\* exactly those into canceled refund, no transition leads from a paid-out order
\* back or out of canceled, and only the first one starts at initial.
LEMMA MoneyInTheTable ==
  ASSUME NEW t \in Transitions, NEW s \in t.from
  PROVE  /\ t.action = "payout" <=> t.to = "received"
         /\ t.action = "refund-full" <=> t.to = "canceled"
         /\ s # "canceled"
         /\ t.to \in PaidOut <=> (s \in PaidOut \/ t.action = "payout")
         /\ t.action \in {"payout", "refund-full"} => s \notin PaidOut
         /\ s = "initial" <=> t.action = "create-payment-intent"
         /\ t.to \notin {NoOrder, "initial"}
<1>1. t.action = "payout" <=> t.to = "received"
  BY DEF Transitions, TransitionDef
<1>2. t.action = "refund-full" <=> t.to = "canceled"
  BY DEF Transitions, TransitionDef
<1>3. s # "canceled"
  BY DEF Transitions, TransitionDef
<1>4. t.to \in PaidOut <=> (s \in PaidOut \/ t.action = "payout")
  BY DEF Transitions, TransitionDef, PaidOut
<1>5. t.action \in {"payout", "refund-full"} => s \notin PaidOut
  BY DEF Transitions, TransitionDef, PaidOut
<1>6. s = "initial" <=> t.action = "create-payment-intent"
  BY DEF Transitions, TransitionDef
<1>7. t.to \notin {NoOrder, "initial"}
  BY DEF Transitions, TransitionDef, NoOrder
<1> QED
  BY <1>1, <1>2, <1>3, <1>4, <1>5, <1>6, <1>7

-----------------------------------------------------------------------------
USE BatchSizeAssumption, RequestersAssumption, ClientAssumption, MaxFaultsAssumption

-----------------------------------------------------------------------------
(* The writes of a transition keep the rows well typed. *)

\* What one executeWithin writes fits the schema.
LEMMA WrittenTyped ==
  ASSUME NEW r \in Rows, NEW t \in Transitions, NEW a \in Actors,
         NEW res \in PIStatus, r.state \in States
  PROVE  Written(r, t, a, res) \in Rows
<1> DEFINE e == [transition |-> t.name, from |-> r.state, to |-> t.to, actor |-> a]
<1> DEFINE moved == [topic |-> "order.transitioned", from |-> r.state, to |-> t.to]
<1> DEFINE paid  == [topic |-> "payout.released", from |-> r.state, to |-> t.to]
<1>1. t.to \in States /\ t.name \in {u.name : u \in Transitions}
  BY TransitionsTyped
<1>2. Append(r.log, e) \in Seq(Entry)
  <2>1. e \in Entry
    BY <1>1 DEF Entry
  <2>2. r.log \in Seq(Entry)
    BY DEF Rows
  <2> QED
    BY <2>1, <2>2
<1>3. Emitted(r, t) \in Seq(Event)
  <2>1. moved \in Event /\ paid \in Event
    BY <1>1 DEF Event
  <2>2. r.outbox \in Seq(Event)
    BY DEF Rows
  <2>3. Append(r.outbox, moved) \in Seq(Event)
    BY <2>1, <2>2
  <2>4. Append(Append(r.outbox, moved), paid) \in Seq(Event)
    BY <2>1, <2>3
  <2> QED
    BY <2>3, <2>4 DEF Emitted
<1>4. Reconciled(r.timers, t.to) \in [TimedStates -> TimerStatus]
  BY DEF Reconciled, Rows, TimerStatus
<1>5. PaymentIntentRow(r, t, res) \in PIStatus
  BY DEF PaymentIntentRow, Rows, PIStatus
<1>6. (IF t.action = "refund-full" /\ r.pi # "none"
       THEN r.refunds + 1 ELSE r.refunds) \in Nat
  BY DEF Rows
<1> QED
  BY <1>1, <1>2, <1>3, <1>4, <1>5, <1>6 DEF Written, Rows

\* So does a whole apply, with the immediate transition that may follow.
LEMMA ExecuteTyped ==
  ASSUME NEW r \in Rows, NEW t \in Transitions, NEW a \in Actors,
         NEW res \in PIStatus, r.state \in States
  PROVE  ExecuteWithin(r, t, a, res) \in Rows
<1> DEFINE after == Written(r, t, a, res)
<1>1. after \in Rows
  BY WrittenTyped
<1>2. after.state = t.to /\ after.state \in States /\ after.pi \in PIStatus
  BY <1>1, TransitionsTyped DEF Written, Rows
<1>3. CASE t.to \in DOMAIN ImmediateNext
  <2>1. t.to = "received" /\ ImmediateNext[t.to] = "mark-completed"
    BY <1>3 DEF ImmediateNext
  <2>2. Written(after, Named("mark-completed"), "system", after.pi) \in Rows
    BY <1>1, <1>2, ImmediateIsCompletion, WrittenTyped DEF Actors
  <2> QED
    BY <1>3, <2>1, <2>2 DEF ExecuteWithin
<1>4. CASE t.to \notin DOMAIN ImmediateNext
  BY <1>1, <1>4 DEF ExecuteWithin
<1> QED
  BY <1>3, <1>4

-----------------------------------------------------------------------------
(* Type correctness.  TypeOK alone is not inductive: a commit writes the     *)
(* order's present state into the history, which is a state of the process   *)
(* only because the transaction that holds the row lock checked it.          *)

LockIsExclusive == \A x, y \in tx : x.order = y.order => x = y

TxGuarded == \A x \in tx : db[x.order].state \in x.t.from /\ x.actor \in x.t.actor

BatchToRead == \A w \in Sweeps : sweep[w].pc = "next" => sweep[w].batch # <<>>

TypeInv == TypeOK /\ LockIsExclusive /\ TxGuarded /\ BatchToRead

SweepState == [pc : {"idle", "next", "skip", "apply", "applying", "fire"},
               batch : Seq(RowId), current : SUBSET RowId]

\* The bookkeeping after a row leaves a well-formed sweep, with a row to read when
\* it goes on.
LEMMA FinishedTyped ==
  ASSUME NEW v \in SweepState
  PROVE  /\ Finished(v) \in SweepState
         /\ Finished(v).pc = "next" => Finished(v).batch # <<>>
         /\ Finished(v).pc \in {"idle", "next"}
  BY DEF Finished, SweepState

\* A row that could not be read leaves the rest of the batch.
LEMMA UnreadTyped ==
  ASSUME NEW v \in SweepState, v.pc = "next" => v.batch # <<>>
  PROVE  Unread(v) \in SweepState
<1>1. CASE v.pc = "next"
  <2>1. v.batch \in Seq(RowId) /\ v.batch # <<>>
    BY <1>1 DEF SweepState
  <2>2. Tail(v.batch) \in Seq(RowId)
    BY <2>1
  <2> QED
    BY <1>1, <2>2 DEF Unread, SweepState
<1>2. CASE v.pc # "next"
  BY <1>2 DEF Unread
<1> QED
  BY <1>1, <1>2

\* The sweep that ran a transaction is well formed after it, however it ended.
LEMMA CallerTyped ==
  ASSUME NEW x \in TxRecord, sweep \in [Sweeps -> SweepState], BatchToRead
  PROVE  /\ Thrown(x) \in [Sweeps -> SweepState]
         /\ Returned(x) \in [Sweeps -> SweepState]
         /\ \A w \in Sweeps : /\ Thrown(x)[w].pc = "next" => Thrown(x)[w].batch # <<>>
                              /\ Returned(x)[w].pc = "next" => Returned(x)[w].batch # <<>>
<1>1. CASE x.by = Client
  BY <1>1 DEF Thrown, Returned, BatchToRead
<1>2. CASE x.by # Client
  <2>1. x.by \in Sweeps /\ sweep[x.by] \in SweepState
    BY <1>2 DEF TxRecord
  <2>2. Finished(sweep[x.by]) \in SweepState
        /\ (Finished(sweep[x.by]).pc = "next" => Finished(sweep[x.by]).batch # <<>>)
    BY <2>1, FinishedTyped
  <2>3. [sweep[x.by] EXCEPT !.pc = "fire"] \in SweepState
    BY <2>1 DEF SweepState
  <2>4. Thrown(x) = [sweep EXCEPT ![x.by] = Finished(sweep[x.by])]
    BY <1>2 DEF Thrown
  <2>5. Returned(x) = [sweep EXCEPT ![x.by] = [sweep[x.by] EXCEPT !.pc = "fire"]]
    BY <1>2 DEF Returned
  <2>6. Thrown(x) \in [Sweeps -> SweepState] /\ Returned(x) \in [Sweeps -> SweepState]
    BY <2>2, <2>3, <2>4, <2>5
  <2>7. ASSUME NEW w \in Sweeps
        PROVE  /\ Thrown(x)[w].pc = "next" => Thrown(x)[w].batch # <<>>
               /\ Returned(x)[w].pc = "next" => Returned(x)[w].batch # <<>>
    BY <2>1, <2>2, <2>4, <2>5 DEF BatchToRead, SweepState
  <2> QED
    BY <2>6, <2>7
<1> QED
  BY <1>1, <1>2

\* A transaction that begins is a well-formed record holding the lock.
LEMMA BeginTyped ==
  ASSUME TypeInv, NEW o \in Orders, NEW t \in Transitions, NEW a \in Actors,
         NEW by \in Sweeps \cup {Client}, Begin(o, t, a, by)
  PROVE  /\ tx' \subseteq TxRecord
         /\ \A x, y \in tx' : x.order = y.order => x = y
         /\ \A x \in tx' : db[x.order].state \in x.t.from /\ x.actor \in x.t.actor
<1> DEFINE b == [order |-> o, t |-> t, actor |-> a, by |-> by,
                 phase |-> IF CallsGateway(db[o], t) THEN "locked" ELSE "called",
                 result |-> db[o].pi]
<1>1. b \in TxRecord
  BY DEF TypeInv, TypeOK, Rows, TxRecord
<1>2. tx' = tx \cup {b}
  BY DEF Begin
<1>3. \A x \in tx : x.order # o
  BY DEF Begin, Locked
<1>4. b.order = o /\ b.t = t /\ b.actor = a
  OBVIOUS
<1> HIDE DEF b
<1>5. tx' \subseteq TxRecord
  BY <1>1, <1>2 DEF TypeInv, TypeOK
<1>6. \A x, y \in tx' : x.order = y.order => x = y
  BY <1>2, <1>3, <1>4 DEF TypeInv, LockIsExclusive
<1>7. \A x \in tx' : db[x.order].state \in x.t.from /\ x.actor \in x.t.actor
  BY <1>2, <1>4 DEF TypeInv, TxGuarded, Begin, MayApply
<1> QED
  BY <1>5, <1>6, <1>7

StripeState == [pi : PIStatus, transfers : SUBSET TransferKey, refunded : BOOLEAN]

\* A gateway call leaves Stripe's record of the order well formed.
LEMMA StripeTyped ==
  ASSUME NEW s \in StripeState, NEW t \in Transitions, t.action # "none"
  PROVE  StripeAfter(s, t) \in StripeState
<1>1. t.action \in MoneyActions
  BY TransitionsTyped
<1>2. /\ CreatePaymentIntent(s) \in StripeState
      /\ ConfirmAndCapture(s) \in StripeState
      /\ CancelPaymentIntent(s) \in StripeState
  BY DEF CreatePaymentIntent, ConfirmAndCapture, CancelPaymentIntent, StripeState, PIStatus
<1>3. CreateTransfer(s, t) \in StripeState
  <2>1. s.transfers \cup {PayoutKey(t)} \in SUBSET TransferKey
    BY DEF TransferKey, StripeState
  <2>2. CreateTransfer(s, t) = [s EXCEPT !.transfers = s.transfers \cup {PayoutKey(t)}]
    BY DEF CreateTransfer
  <2> QED
    BY <2>1, <2>2 DEF StripeState
<1>4. Refund(s) \in StripeState
  BY DEF Refund, StripeState
<1> QED
  BY <1>1, <1>2, <1>3, <1>4 DEF StripeAfter, MoneyActions

\* Transactions wait for Stripe, and requests are left behind, only for
\* transitions with a money action.
MoneyInFlight ==
  /\ \A x \in tx : x.phase = "locked" => x.t.action # "none"
  /\ \A c \in late : c.t.action # "none"

CoreInv == TypeInv /\ MoneyInFlight

\* The core invariant holds before any order is placed.
LEMMA InitCore == Init => CoreInv
<1> SUFFICES ASSUME Init PROVE CoreInv
  OBVIOUS
<1>1. NoRows \in Rows
  BY DEF NoRows, Rows, PIStatus, TimerStatus
<1>2. IdleSweep \in SweepState
  BY DEF IdleSweep, SweepState
<1>3. [pi |-> "none", transfers |-> {}, refunded |-> FALSE] \in StripeState
  BY DEF StripeState, PIStatus
<1>4. TypeOK
  BY <1>1, <1>2, <1>3 DEF Init, TypeOK, SweepState, StripeState
<1>5. LockIsExclusive /\ TxGuarded /\ MoneyInFlight /\ BatchToRead
  BY DEF Init, LockIsExclusive, TxGuarded, MoneyInFlight, BatchToRead, IdleSweep
<1> QED
  BY <1>4, <1>5 DEF CoreInv, TypeInv

\* Every step preserves the invariant.
LEMMA StepCore == CoreInv /\ [Next]_vars => CoreInv'
<1> SUFFICES ASSUME CoreInv, [Next]_vars PROVE CoreInv'
  OBVIOUS
<1> USE DEF CoreInv, TypeInv
<1>1. CASE UNCHANGED vars
  BY <1>1 DEF vars, TypeOK, LockIsExclusive, TxGuarded, BatchToRead, MoneyInFlight
<1>2. ASSUME NEW o \in Orders, CreateOrder(o) PROVE CoreInv'
  <2>a. [db[o] EXCEPT !.state = "initial"] \in Rows
    <3>1. db[o] \in Rows /\ "initial" \in States \cup {NoOrder}
      BY DEF TypeOK, States
    <3> QED
      BY <3>1 DEF Rows
  <2>1. db' \in [Orders -> Rows]
    BY <1>2, <2>a DEF CreateOrder, TypeOK
  <2>2. \A x \in tx : x.order # o
    BY <1>2, TransitionsTyped DEF CreateOrder, TxGuarded, TypeOK, TxRecord, States, NoOrder
  <2>3. TxGuarded'
    BY <1>2, <2>2 DEF CreateOrder, TxGuarded, TypeOK, TxRecord
  <2> QED
    BY <1>2, <2>1, <2>3 DEF CreateOrder, TypeOK, LockIsExclusive, BatchToRead, MoneyInFlight
<1>3. ASSUME NEW o \in Orders, BuyerPays(o) PROVE CoreInv'
  <2>1. stripe' \in [Orders -> StripeState]
    BY <1>3 DEF BuyerPays, TypeOK, StripeState, PIStatus
  <2> QED
    BY <1>3, <2>1 DEF BuyerPays, TypeOK, StripeState, LockIsExclusive, TxGuarded, BatchToRead,
                      MoneyInFlight
<1>4. ASSUME NEW o \in Orders, SellerOnboards(o) PROVE CoreInv'
  BY <1>4 DEF SellerOnboards, TypeOK, LockIsExclusive, TxGuarded, BatchToRead, MoneyInFlight
<1>5. ASSUME NEW o \in Orders, GatewayCall(o) PROVE CoreInv'
  <2>1. PICK x \in tx :
          /\ x.order = o /\ x.phase = "locked"
          /\ stripe' = [stripe EXCEPT ![o] = StripeAfter(@, x.t)]
          /\ tx' = (tx \ {x}) \cup {[x EXCEPT !.phase = "called", !.result = stripe'[o].pi]}
          /\ UNCHANGED <<db, account, late, runAt, sweep, faults>>
    BY <1>5 DEF GatewayCall
  <2>2. StripeAfter(stripe[o], x.t) \in StripeState
    BY <2>1, StripeTyped DEF MoneyInFlight, TypeOK, TxRecord, StripeState
  <2>3. stripe' \in [Orders -> StripeState]
    BY <2>1, <2>2 DEF TypeOK, StripeState
  <2> DEFINE y == [x EXCEPT !.phase = "called", !.result = stripe'[o].pi]
  <2>a. x \in TxRecord /\ stripe'[o].pi \in PIStatus
    BY <2>3 DEF TypeOK, StripeState
  <2>4. y \in TxRecord /\ y.order = o /\ y.t = x.t /\ y.actor = x.actor /\ y.phase = "called"
    BY <2>1, <2>a DEF TxRecord
  <2> HIDE DEF y
  <2>5. tx' = (tx \ {x}) \cup {y}
    BY <2>1 DEF y
  <2>6. LockIsExclusive' /\ TxGuarded' /\ MoneyInFlight'
    BY <2>1, <2>4, <2>5 DEF LockIsExclusive, TxGuarded, MoneyInFlight
  <2> QED
    BY <2>1, <2>3, <2>4, <2>5, <2>6 DEF TypeOK, StripeState, BatchToRead
<1>6. ASSUME NEW o \in Orders, GatewayRejects(o) PROVE CoreInv'
  <2>1. PICK x \in tx : /\ tx' = tx \ {x}
                        /\ sweep' = Thrown(x)
                        /\ UNCHANGED <<db, stripe, account, late, runAt, faults>>
    BY <1>6 DEF GatewayRejects
  <2>2. sweep' \in [Sweeps -> SweepState] /\ BatchToRead'
    BY <2>1, CallerTyped DEF TypeOK, SweepState, BatchToRead
  <2> QED
    BY <2>1, <2>2 DEF TypeOK, SweepState, LockIsExclusive, TxGuarded, MoneyInFlight
<1>7. ASSUME NEW o \in Orders, Commit(o) PROVE CoreInv'
  <2>1. PICK x \in tx :
          /\ x.order = o
          /\ db' = [db EXCEPT ![o] = ExecuteWithin(@, x.t, x.actor, x.result)]
          /\ runAt' = [runAt EXCEPT ![o] = [s \in TimedStates |-> 0]]
          /\ tx' = tx \ {x}
          /\ sweep' = Returned(x)
          /\ UNCHANGED <<stripe, account, late, faults>>
    BY <1>7 DEF Commit
  <2>2. sweep' \in [Sweeps -> SweepState] /\ BatchToRead'
    BY <2>1, CallerTyped DEF TypeOK, SweepState, BatchToRead
  <2>3. db[o].state \in States
    BY <2>1, TransitionsTyped DEF TypeOK, TxRecord, TxGuarded
  <2>4. ExecuteWithin(db[o], x.t, x.actor, x.result) \in Rows
    BY <2>1, <2>3, ExecuteTyped DEF TypeOK, TxRecord
  <2>5. db' \in [Orders -> Rows]
    BY <2>1, <2>4 DEF TypeOK
  <2>6. runAt' \in [Orders -> [TimedStates -> Nat]]
    BY <2>1 DEF TypeOK
  <2>7. \A y \in tx' : y.order # o
    BY <2>1 DEF LockIsExclusive
  <2>8. TxGuarded'
    BY <2>1, <2>7 DEF TxGuarded, TypeOK, TxRecord
  <2> QED
    BY <2>1, <2>2, <2>5, <2>6, <2>8 DEF TypeOK, SweepState, LockIsExclusive, MoneyInFlight
<1>8. ASSUME NEW o \in Orders, Abort(o) PROVE CoreInv'
  <2>1. PICK x \in tx : /\ tx' = tx \ {x}
                        /\ late' = StillOutstanding(x)
                        /\ sweep' = Thrown(x)
                        /\ faults < MaxFaults /\ faults' = faults + 1
                        /\ UNCHANGED <<db, stripe, account, runAt>>
    BY <1>8 DEF Abort
  <2>2. sweep' \in [Sweeps -> SweepState] /\ BatchToRead'
    BY <2>1, CallerTyped DEF TypeOK, SweepState, BatchToRead
  <2>3. late' \subseteq [order : Orders, t : Transitions]
    BY <2>1 DEF TypeOK, TxRecord, StillOutstanding
  <2>4. MoneyInFlight'
    BY <2>1 DEF MoneyInFlight, StillOutstanding
  <2>5. faults' \in 0 .. MaxFaults
    BY <2>1 DEF TypeOK
  <2> QED
    BY <2>1, <2>2, <2>3, <2>4, <2>5 DEF TypeOK, SweepState, LockIsExclusive, TxGuarded
<1>9. ASSUME NEW o \in Orders, CancelLost(o) PROVE CoreInv'
  <2>1. PICK x \in tx : /\ x.order = o
                        /\ tx' = (tx \ {x}) \cup {[x EXCEPT !.phase = "called"]}
                        /\ faults < MaxFaults /\ faults' = faults + 1
                        /\ UNCHANGED <<db, stripe, account, late, runAt, sweep>>
    BY <1>9 DEF CancelLost
  <2> DEFINE y == [x EXCEPT !.phase = "called"]
  <2>2. y \in TxRecord /\ y.order = x.order /\ y.t = x.t /\ y.actor = x.actor /\ y.phase = "called"
    BY <2>1 DEF TypeOK, TxRecord
  <2> HIDE DEF y
  <2>3. tx' = (tx \ {x}) \cup {y}
    BY <2>1 DEF y
  <2>4. LockIsExclusive' /\ TxGuarded' /\ MoneyInFlight'
    BY <2>1, <2>2, <2>3 DEF LockIsExclusive, TxGuarded, MoneyInFlight
  <2>5. faults' \in 0 .. MaxFaults
    BY <2>1 DEF TypeOK
  <2> QED
    BY <2>1, <2>2, <2>3, <2>4, <2>5 DEF TypeOK, BatchToRead
<1>10. ASSUME NEW o \in Orders, LateCall(o) PROVE CoreInv'
  <2>1. PICK c \in late :
          /\ c.order = o
          /\ late' = late \ {c}
          /\ stripe' = IF StripeAccepts(stripe[o], c.t)
                       THEN [stripe EXCEPT ![o] = StripeAfter(@, c.t)] ELSE stripe
          /\ UNCHANGED <<db, tx, account, runAt, sweep, faults>>
    BY <1>10 DEF LateCall
  <2>2. StripeAfter(stripe[o], c.t) \in StripeState
    BY <2>1, StripeTyped DEF MoneyInFlight, TypeOK, StripeState
  <2>3. stripe' \in [Orders -> StripeState]
    BY <2>1, <2>2 DEF TypeOK, StripeState
  <2> QED
    BY <2>1, <2>3 DEF TypeOK, StripeState, LockIsExclusive, TxGuarded, BatchToRead, MoneyInFlight
<1>11. ASSUME NEW o \in Orders, NEW t \in Transitions, NEW a \in Requesters, Request(o, t, a)
       PROVE CoreInv'
  <2>1. a \in Actors
    BY DEF Actors
  <2>2. /\ tx' \subseteq TxRecord
        /\ \A x, y \in tx' : x.order = y.order => x = y
        /\ \A x \in tx' : db[x.order].state \in x.t.from /\ x.actor \in x.t.actor
    BY <1>11, <2>1, BeginTyped DEF Request
  <2>3. MoneyInFlight'
    BY <1>11 DEF Request, Begin, MoneyInFlight, CallsGateway
  <2> QED
    BY <1>11, <2>2, <2>3 DEF Request, TypeOK, LockIsExclusive, TxGuarded, BatchToRead
<1>12. ASSUME NEW o \in Orders, NEW s \in TimedStates, TimerDue(o, s) PROVE CoreInv'
  <2>1. PICK n \in 1 .. Cardinality(RowId) : runAt' = [runAt EXCEPT ![o][s] = n]
    BY <1>12 DEF TimerDue
  <2>2. runAt' \in [Orders -> [TimedStates -> Nat]]
    BY <2>1 DEF TypeOK
  <2> QED
    BY <1>12, <2>2 DEF TimerDue, TypeOK, LockIsExclusive, TxGuarded, BatchToRead, MoneyInFlight
<1>13. ASSUME NEW w \in Sweeps, Fetch(w) PROVE CoreInv'
  <2>a. PICK n \in 1 .. BatchSize : \E b \in [1 .. n -> Due] :
          sweep' = [sweep EXCEPT ![w] = [pc |-> "next", batch |-> b, current |-> {}]]
    BY <1>13 DEF Fetch
  <2>1. PICK b \in [1 .. n -> Due] :
          sweep' = [sweep EXCEPT ![w] = [pc |-> "next", batch |-> b, current |-> {}]]
    BY <2>a
  <2>2. n \in Nat /\ n > 0
    BY <2>1
  <2>3. b \in Seq(RowId) /\ b # <<>>
    <3>1. b \in [1 .. n -> RowId]
      BY <2>1 DEF Due
    <3>2. b \in Seq(RowId) /\ Len(b) = n
      BY <2>2, <3>1, SeqDef, LenProperties
    <3> QED
      BY <2>2, <3>2
  <2>4. sweep' \in [Sweeps -> SweepState] /\ BatchToRead'
    BY <2>1, <2>3 DEF TypeOK, SweepState, BatchToRead
  <2> QED
    BY <1>13, <2>4 DEF Fetch, TypeOK, SweepState, LockIsExclusive, TxGuarded, MoneyInFlight
<1>14. ASSUME NEW w \in Sweeps, CheckGuard(w) PROVE CoreInv'
  <2>1. sweep[w].batch \in Seq(RowId) /\ sweep[w].batch # <<>>
    BY <1>14 DEF CheckGuard, TypeOK, BatchToRead
  <2>2. Head(sweep[w].batch) \in RowId /\ Tail(sweep[w].batch) \in Seq(RowId)
    BY <2>1
  <2>3. sweep' \in [Sweeps -> SweepState] /\ BatchToRead'
    BY <1>14, <2>2 DEF CheckGuard, TypeOK, SweepState, BatchToRead
  <2> QED
    BY <1>14, <2>3 DEF CheckGuard, TypeOK, SweepState, LockIsExclusive, TxGuarded, MoneyInFlight
<1>15. ASSUME NEW w \in Sweeps, NEW status \in {"skipped", "fired"}, Mark(w, status)
       PROVE CoreInv'
  <2>1. PICK r \in sweep[w].current :
          /\ db' = [db EXCEPT ![r.order].timers[r.guard] = status]
          /\ sweep' = [sweep EXCEPT ![w] = Finished(@)]
          /\ UNCHANGED <<tx, stripe, account, late, runAt, faults>>
    BY <1>15 DEF Mark
  <2>2. r.order \in Orders /\ r.guard \in TimedStates
    BY <2>1 DEF TypeOK, RowId
  <2> DEFINE d == [db[r.order] EXCEPT !.timers[r.guard] = status]
  <2>a. db[r.order] \in Rows /\ status \in TimerStatus
    BY <2>2 DEF TypeOK, TimerStatus
  <2>b. d \in Rows /\ d.state = db[r.order].state
    BY <2>2, <2>a DEF Rows
  <2>c. db' = [db EXCEPT ![r.order] = d]
    BY <2>1
  <2>3. /\ db' \in [Orders -> Rows]
        /\ \A o \in Orders : db'[o].state = db[o].state
    BY <2>2, <2>b, <2>c DEF TypeOK
  <2>4. sweep' \in [Sweeps -> SweepState] /\ BatchToRead'
    BY <2>1, FinishedTyped DEF TypeOK, SweepState, BatchToRead
  <2>5. TxGuarded'
    BY <2>1, <2>3 DEF TxGuarded, TypeOK, TxRecord
  <2> QED
    BY <2>1, <2>3, <2>4, <2>5 DEF TypeOK, SweepState, LockIsExclusive, MoneyInFlight
<1>16. ASSUME NEW w \in Sweeps, CallApply(w) PROVE CoreInv'
  <2>1. PICK r \in sweep[w].current : Begin(r.order, TimerTransition(r), "system", w)
    BY <1>16 DEF CallApply
  <2>2. r.order \in Orders /\ TimerTransition(r) \in Transitions
    BY <2>1, TimersFireHome DEF TypeOK, RowId, TimerTransition
  <2>3. /\ tx' \subseteq TxRecord
        /\ \A x, y \in tx' : x.order = y.order => x = y
        /\ \A x \in tx' : db[x.order].state \in x.t.from /\ x.actor \in x.t.actor
    BY <2>1, <2>2, BeginTyped DEF Actors
  <2>4. MoneyInFlight'
    BY <1>16, <2>1 DEF CallApply, Begin, MoneyInFlight, CallsGateway
  <2>5. sweep' \in [Sweeps -> SweepState] /\ BatchToRead'
    BY <1>16 DEF CallApply, TypeOK, SweepState, BatchToRead
  <2> QED
    BY <1>16, <2>3, <2>4, <2>5 DEF CallApply, TypeOK, SweepState, LockIsExclusive, TxGuarded
<1>17. ASSUME NEW w \in Sweeps, ApplyRefused(w) PROVE CoreInv'
  <2>1. sweep' \in [Sweeps -> SweepState] /\ BatchToRead'
    BY <1>17, FinishedTyped DEF ApplyRefused, TypeOK, SweepState, BatchToRead
  <2> QED
    BY <1>17, <2>1 DEF ApplyRefused, TypeOK, SweepState, LockIsExclusive, TxGuarded, MoneyInFlight
<1>18. ASSUME NEW w \in Sweeps, Crash(w) PROVE CoreInv'
  <2>1. sweep' \in [Sweeps -> SweepState] /\ BatchToRead'
    BY <1>18 DEF Crash, IdleSweep, TypeOK, SweepState, BatchToRead
  <2>2. faults' \in 0 .. MaxFaults
    BY <1>18 DEF Crash, TypeOK
  <2> QED
    BY <1>18, <2>1, <2>2 DEF Crash, TypeOK, SweepState, LockIsExclusive, TxGuarded, MoneyInFlight
<1>19. ASSUME NEW w \in Sweeps, QueryFails(w) PROVE CoreInv'
  <2>1. sweep[w] \in SweepState /\ (sweep[w].pc = "next" => sweep[w].batch # <<>>)
    BY DEF TypeOK, SweepState, BatchToRead
  <2>2. Unread(sweep[w]) \in SweepState
    BY <2>1, UnreadTyped
  <2>3. sweep' \in [Sweeps -> SweepState] /\ BatchToRead'
    BY <1>19, <2>2, FinishedTyped DEF QueryFails, TypeOK, SweepState, BatchToRead
  <2>4. faults' \in 0 .. MaxFaults
    BY <1>19 DEF QueryFails, TypeOK
  <2> QED
    BY <1>19, <2>3, <2>4 DEF QueryFails, TypeOK, SweepState, LockIsExclusive, TxGuarded,
                             MoneyInFlight
<1> QED
  BY <1>1, <1>2, <1>3, <1>4, <1>5, <1>6, <1>7, <1>8, <1>9, <1>10, <1>11, <1>12, <1>13,
     <1>14, <1>15, <1>16, <1>17, <1>18, <1>19
     DEF Next, TransactionStep, SweepStep, MarkSkipped, MarkFired

\* The core invariant holds in every behaviour.
THEOREM CoreInvariant == Spec => []CoreInv
  BY InitCore, StepCore, PTL DEF Spec

\* Type correctness, for any number of orders, sweeps and faults.
THEOREM TypeCorrect == Spec => []TypeOK
<1>1. CoreInv => TypeOK
  BY DEF CoreInv, TypeInv
<1> QED
  BY <1>1, CoreInvariant, PTL

-----------------------------------------------------------------------------
(* What the rows of one order satisfy, between transactions and also between *)
(* the two executeWithin of a transaction.                                   *)

TimersMatch(r) ==
  \A s \in TimedStates : r.timers[s] = "pending" <=> r.state = s

Path(r) ==
  /\ r.log = <<>> => r.state \in {NoOrder, "initial"}
  /\ r.log # <<>> => r.log[1].from = "initial" /\ r.log[Len(r.log)].to = r.state
  /\ \A i \in 1 .. Len(r.log) - 1 : r.log[i].to = r.log[i + 1].from

\* Stronger than "no state twice", and inductive where that is not.
Climbing(r) ==
  /\ \A i, j \in 1 .. Len(r.log) : i < j => Rank[r.log[i].to] < Rank[r.log[j].to]
  /\ \A i \in 1 .. Len(r.log) : Rank[r.log[i].to] <= Rank[r.state]

Books(r) ==
  /\ r.payoutReleased <=> r.state \in PaidOut
  /\ r.payout <=> r.payoutReleased
  /\ r.refunds = (IF r.state = "canceled" THEN 1 ELSE 0)
  /\ r.pi = "none" <=> r.state \in {NoOrder, "initial"}

Announced(r) ==
  /\ r.payoutReleased <=> \E i \in 1 .. Len(r.outbox) : r.outbox[i].topic = "payout.released"
  /\ \A i, j \in 1 .. Len(r.outbox) :
       r.outbox[i].topic = "payout.released" /\ r.outbox[j].topic = "payout.released" => i = j

InLog(r, n, a) == \E i \in 1 .. Len(r.log) : r.log[i].transition = n /\ r.log[i].actor = a

FiredRows(r) ==
  \A s \in TimedStates : r.timers[s] = "fired" => InLog(r, StateTimers[s], "system")

RowInv(r) ==
  TimersMatch(r) /\ Path(r) /\ Climbing(r) /\ Books(r) /\ Announced(r) /\ FiredRows(r)

\* The gateway answered a call that sets the PaymentIntent row.
Answers(t, res) == t.action \in {"create-payment-intent", "confirm-capture"} => res # "none"

\* Appending to a history keeps what is there and adds one element at the end.
LEMMA AppendFacts ==
  ASSUME NEW S, NEW q \in Seq(S), NEW e \in S
  PROVE  /\ Append(q, e) \in Seq(S)
         /\ Len(q) \in Nat
         /\ Len(Append(q, e)) = Len(q) + 1
         /\ \A i \in 1 .. Len(q) : Append(q, e)[i] = q[i]
         /\ Append(q, e)[Len(q) + 1] = e
         /\ Append(q, e) # <<>>
         /\ q = <<>> <=> Len(q) = 0
  OBVIOUS

\* Ranks compare transitively.
LEMMA RankChain ==
  ASSUME NEW x \in 0 .. 13, NEW y \in 0 .. 13, NEW z \in 0 .. 13, x <= y, y < z
  PROVE  x <= z /\ x < z
  OBVIOUS

\* The writes of one executeWithin keep the invariant of the rows, climb, and
\* record who made the transition.
LEMMA WrittenInv ==
  ASSUME NEW r \in Rows, NEW t \in Transitions, NEW a \in Actors, NEW res \in PIStatus,
         RowInv(r), r.state \in t.from, Answers(t, res)
  PROVE  LET n == Written(r, t, a, res) IN
         /\ RowInv(n)
         /\ n.state = t.to
         /\ Rank[r.state] < Rank[n.state]
         /\ InLog(n, t.name, a)
         /\ \A m, b : InLog(r, m, b) => InLog(n, m, b)
<1> DEFINE n == Written(r, t, a, res)
<1> DEFINE e == [transition |-> t.name, from |-> r.state, to |-> t.to, actor |-> a]
<1> DEFINE moved == [topic |-> "order.transitioned", from |-> r.state, to |-> t.to]
<1> DEFINE paid  == [topic |-> "payout.released", from |-> r.state, to |-> t.to]
<1>1. r.state \in States /\ t.to \in States /\ e \in Entry /\ moved \in Event /\ paid \in Event
  BY TransitionsTyped DEF Entry, Event
<1>2. Rank[r.state] < Rank[t.to]
  BY RankClimbs
<1>3. /\ r.log \in Seq(Entry) /\ r.outbox \in Seq(Event)
      /\ n.log = Append(r.log, e) /\ n.outbox = Emitted(r, t)
      /\ n.state = t.to /\ n.timers = Reconciled(r.timers, t.to)
  BY DEF Written, Rows
<1>4. /\ Len(r.log) \in Nat /\ Len(n.log) = Len(r.log) + 1 /\ n.log # <<>>
      /\ \A i \in 1 .. Len(r.log) : n.log[i] = r.log[i]
      /\ n.log[Len(r.log) + 1] = e
      /\ r.log = <<>> <=> Len(r.log) = 0
  BY <1>1, <1>3, AppendFacts
<1>5. \A i \in 1 .. Len(r.log) : r.log[i] \in Entry
  BY <1>3
<1>6. e.from = r.state /\ e.to = t.to /\ e.transition = t.name /\ e.actor = a
  OBVIOUS
<1> HIDE DEF e, n
<1>7. TimersMatch(n)
  BY <1>3, TransitionsTyped DEF TimersMatch, Reconciled
<1>8. Path(n)
  <2>1. n.log[1].from = "initial"
    <3>1. CASE r.log = <<>>
      BY <3>1, <1>1, <1>4, <1>6 DEF RowInv, Path, States, NoOrder
    <3>2. CASE r.log # <<>>
      BY <3>2, <1>4 DEF RowInv, Path
    <3> QED
      BY <3>1, <3>2
  <2>2. n.log[Len(n.log)].to = n.state
    BY <1>3, <1>4, <1>6
  <2>3. ASSUME NEW i \in 1 .. Len(n.log) - 1 PROVE n.log[i].to = n.log[i + 1].from
    <3>1. CASE i = Len(r.log)
      BY <3>1, <1>4, <1>6 DEF RowInv, Path
    <3>2. CASE i # Len(r.log)
      <4>1. i \in 1 .. Len(r.log) - 1 /\ i \in 1 .. Len(r.log) /\ i + 1 \in 1 .. Len(r.log)
        BY <3>2, <1>4
      <4>2. r.log[i].to = r.log[i + 1].from
        BY <4>1 DEF RowInv, Path
      <4> QED
        BY <4>1, <4>2, <1>4
    <3> QED
      BY <3>1, <3>2
  <2> QED
    BY <2>1, <2>2, <2>3, <1>4 DEF Path
<1>9. Climbing(n)
  <2>1. \A i \in 1 .. Len(r.log) :
          /\ Rank[r.log[i].to] \in 0 .. 13
          /\ Rank[r.log[i].to] <= Rank[r.state]
    BY <1>5, RankNumbers DEF Entry, AllStates, RowInv, Climbing
  <2>2. Rank[t.to] \in 0 .. 13 /\ Rank[r.state] \in 0 .. 13
    BY <1>1, RankNumbers DEF AllStates
  <2>a. \A i \in 1 .. Len(n.log) :
          \/ i \in 1 .. Len(r.log) /\ n.log[i].to = r.log[i].to
          \/ i = Len(r.log) + 1 /\ n.log[i].to = t.to
    BY <1>4, <1>6
  <2>3. ASSUME NEW i \in 1 .. Len(n.log) PROVE Rank[n.log[i].to] <= Rank[n.state]
    <3>1. CASE i \in 1 .. Len(r.log) /\ n.log[i].to = r.log[i].to
      <4>1. Rank[r.log[i].to] \in 0 .. 13 /\ Rank[r.log[i].to] <= Rank[r.state]
        BY <3>1, <2>1
      <4>2. Rank[r.log[i].to] <= Rank[t.to]
        BY <4>1, <2>2, <1>2, RankChain, Zenon
      <4> QED
        BY <4>2, <3>1, <1>3
    <3>2. CASE n.log[i].to = t.to
      BY <3>2, <2>2, <1>3
    <3> QED
      BY <3>1, <3>2, <2>a
  <2>4. ASSUME NEW i \in 1 .. Len(n.log), NEW j \in 1 .. Len(n.log), i < j
        PROVE  Rank[n.log[i].to] < Rank[n.log[j].to]
    <3>1. i \in 1 .. Len(r.log) /\ n.log[i].to = r.log[i].to
      BY <2>4, <2>a, <1>4
    <3>2. Rank[r.log[i].to] \in 0 .. 13 /\ Rank[r.log[i].to] <= Rank[r.state]
      BY <3>1, <2>1
    <3>3. CASE j = Len(r.log) + 1 /\ n.log[j].to = t.to
      <4>1. Rank[r.log[i].to] < Rank[t.to]
        BY <3>2, <2>2, <1>2, RankChain, Zenon
      <4> QED
        BY <4>1, <3>1, <3>3
    <3>4. CASE j \in 1 .. Len(r.log) /\ n.log[j].to = r.log[j].to
      <4>1. Rank[r.log[i].to] < Rank[r.log[j].to]
        BY <3>1, <3>4, <2>4 DEF RowInv, Climbing
      <4> QED
        BY <4>1, <3>1, <3>4
    <3> QED
      BY <3>3, <3>4, <2>a
  <2> QED
    BY <2>3, <2>4 DEF Climbing
<1>10. Books(n)
  <2>1. /\ n.payoutReleased <=> (r.payoutReleased \/ t.action = "payout")
        /\ n.payout <=> (r.payout \/ (t.action = "payout" /\ ~r.payoutReleased))
        /\ n.refunds = IF t.action = "refund-full" /\ r.pi # "none"
                       THEN r.refunds + 1 ELSE r.refunds
        /\ n.pi = PaymentIntentRow(r, t, res)
    BY DEF n, Written
  <2>2. n.payoutReleased <=> n.state \in PaidOut
    BY <2>1, <1>3, MoneyInTheTable DEF RowInv, Books
  <2>3. n.payout <=> n.payoutReleased
    BY <2>1 DEF RowInv, Books
  <2>4. n.refunds = (IF n.state = "canceled" THEN 1 ELSE 0)
    BY <2>1, <1>1, <1>3, MoneyInTheTable DEF RowInv, Books, States, NoOrder
  <2>5. n.pi # "none"
    BY <2>1, <1>1, MoneyInTheTable DEF RowInv, Books, PaymentIntentRow, Answers, States, NoOrder
  <2>6. n.state \notin {NoOrder, "initial"}
    BY <1>3, MoneyInTheTable
  <2> QED
    BY <2>2, <2>3, <2>4, <2>5, <2>6 DEF Books
<1>11. Announced(n)
  <2>1. n.payoutReleased <=> (r.payoutReleased \/ t.action = "payout")
    BY DEF n, Written
  <2>2. moved.topic # "payout.released" /\ paid.topic = "payout.released"
    OBVIOUS
  <2> DEFINE out == Append(r.outbox, moved)
  <2>3. /\ out \in Seq(Event) /\ Len(r.outbox) \in Nat /\ Len(out) = Len(r.outbox) + 1
        /\ \A i \in 1 .. Len(r.outbox) : out[i] = r.outbox[i]
        /\ out[Len(r.outbox) + 1] = moved
    BY <1>1, <1>3, AppendFacts
  <2> HIDE DEF out
  <2>4. CASE t.action # "payout"
    <3>1. n.outbox = out
      BY <2>4, <1>3 DEF Emitted, out
    <3>2. Announced(r) /\ (n.payoutReleased <=> r.payoutReleased)
      BY <2>1, <2>4 DEF RowInv
    <3>3. /\ Len(r.outbox) + 1 = Len(n.outbox)
          /\ \A i \in 1 .. Len(r.outbox) : n.outbox[i] = r.outbox[i]
          /\ n.outbox[Len(r.outbox) + 1].topic # "payout.released"
      BY <3>1, <2>2, <2>3
    <3>4. \A i \in 1 .. Len(n.outbox) :
            i \in 1 .. Len(r.outbox) \/ n.outbox[i].topic # "payout.released"
      BY <3>3, <2>3
    <3>5. \A i \in 1 .. Len(r.outbox) : i \in 1 .. Len(n.outbox)
      BY <3>3, <2>3
    <3> QED
      BY <3>2, <3>3, <3>4, <3>5, Zenon DEF Announced
  <2>5. CASE t.action = "payout"
    <3>1. n.outbox = Append(out, paid)
      BY <2>5, <1>3 DEF Emitted, out
    <3>2. /\ Len(n.outbox) = Len(r.outbox) + 2
          /\ \A i \in 1 .. Len(out) : n.outbox[i] = out[i]
          /\ n.outbox[Len(r.outbox) + 2] = paid
      BY <3>1, <1>1, <2>3, AppendFacts
    <3>3. ~r.payoutReleased
      BY <2>5, MoneyInTheTable DEF RowInv, Books
    <3>4. \A i \in 1 .. Len(r.outbox) + 1 : n.outbox[i].topic # "payout.released"
      <4>1. \A i \in 1 .. Len(r.outbox) : r.outbox[i].topic # "payout.released"
        BY <3>3 DEF RowInv, Announced
      <4>2. \A i \in 1 .. Len(r.outbox) + 1 :
              i \in 1 .. Len(out) /\ (i \in 1 .. Len(r.outbox) \/ out[i] = moved)
        BY <2>3
      <4>3. \A i \in 1 .. Len(out) : n.outbox[i] = out[i]
        BY <3>2
      <4>4. \A i \in 1 .. Len(r.outbox) : out[i] = r.outbox[i]
        BY <2>3
      <4> HIDE DEF moved, paid
      <4> QED
        BY <4>1, <4>2, <4>3, <4>4, <2>2
    <3>5. n.outbox[Len(r.outbox) + 2].topic = "payout.released"
      BY <3>2, <2>2
    <3>6. \A i \in 1 .. Len(n.outbox) :
            n.outbox[i].topic = "payout.released" => i = Len(r.outbox) + 2
      BY <3>2, <3>4, <2>3
    <3>7. Len(r.outbox) + 2 \in 1 .. Len(n.outbox)
      BY <3>2, <2>3
    <3>8. n.payoutReleased
      BY <2>1, <2>5
    <3>9. \E i \in 1 .. Len(n.outbox) : n.outbox[i].topic = "payout.released"
      BY <3>5, <3>7
    <3>10. \A i, j \in 1 .. Len(n.outbox) :
             n.outbox[i].topic = "payout.released" /\ n.outbox[j].topic = "payout.released" => i = j
      BY <3>6
    <3> QED
      BY <3>8, <3>9, <3>10 DEF Announced
  <2> QED
    BY <2>4, <2>5
<1>12. ASSUME NEW m, NEW b, InLog(r, m, b) PROVE InLog(n, m, b)
  <2>1. PICK i \in 1 .. Len(r.log) : r.log[i].transition = m /\ r.log[i].actor = b
    BY <1>12 DEF InLog
  <2> QED
    BY <2>1, <1>4 DEF InLog
<1>13. FiredRows(n)
  BY <1>3, <1>12 DEF RowInv, FiredRows, Reconciled
<1>14. InLog(n, t.name, a)
  BY <1>4, <1>6 DEF InLog
<1> QED
  BY <1>2, <1>3, <1>7, <1>8, <1>9, <1>10, <1>11, <1>12, <1>13, <1>14 DEF RowInv, n

\* The same holds of a whole apply, the immediate transition included; it never
\* rests in the immediate state.
LEMMA ExecuteInv ==
  ASSUME NEW r \in Rows, NEW t \in Transitions, NEW a \in Actors, NEW res \in PIStatus,
         RowInv(r), r.state \in t.from, Answers(t, res)
  PROVE  LET n == ExecuteWithin(r, t, a, res) IN
         /\ n \in Rows
         /\ RowInv(n)
         /\ n.state # "received"
         /\ Rank[r.state] < Rank[n.state]
         /\ InLog(n, t.name, a)
         /\ \A m, b : InLog(r, m, b) => InLog(n, m, b)
<1> DEFINE after == Written(r, t, a, res)
<1> DEFINE last == Written(after, Named("mark-completed"), "system", after.pi)
<1>1. r.state \in States /\ t.to \in States
  BY TransitionsTyped
<1>2. /\ RowInv(after) /\ after.state = t.to
      /\ Rank[r.state] < Rank[after.state]
      /\ InLog(after, t.name, a)
      /\ \A m, b : InLog(r, m, b) => InLog(after, m, b)
  BY WrittenInv
<1>3. after \in Rows /\ after.pi \in PIStatus
  BY <1>1, WrittenTyped DEF Rows
<1>4. CASE t.to \notin DOMAIN ImmediateNext
  <2>1. ExecuteWithin(r, t, a, res) = after
    BY <1>4 DEF ExecuteWithin
  <2>2. after.state # "received"
    BY <1>2, <1>4 DEF ImmediateNext
  <2> QED
    BY <1>2, <1>3, <2>1, <2>2
<1>5. CASE t.to \in DOMAIN ImmediateNext
  <2>1. t.to = "received" /\ ImmediateNext[t.to] = "mark-completed"
    BY <1>5 DEF ImmediateNext
  <2>2. ExecuteWithin(r, t, a, res) = last
    BY <1>5, <2>1 DEF ExecuteWithin
  <2> HIDE DEF after
  <2>3. /\ Named("mark-completed") \in Transitions /\ "system" \in Actors
        /\ after.state \in Named("mark-completed").from
        /\ Answers(Named("mark-completed"), after.pi)
        /\ Named("mark-completed").to = "completed"
    BY <1>2, <2>1, ImmediateIsCompletion DEF Answers, Actors
  <2>4. last \in Rows
    BY <1>1, <1>2, <1>3, <2>3, WrittenTyped
  <2>5. /\ RowInv(last) /\ last.state = "completed"
        /\ Rank[after.state] < Rank[last.state]
        /\ \A m, b : InLog(after, m, b) => InLog(last, m, b)
    BY <1>2, <1>3, <2>3, WrittenInv
  <2>6. Rank[r.state] < Rank[last.state]
    <3>1. /\ Rank[r.state] \in 0 .. 13 /\ Rank[after.state] \in 0 .. 13
          /\ Rank[last.state] \in 0 .. 13
      BY <1>1, <1>2, <2>5, RankNumbers DEF AllStates, States
    <3>2. Rank[r.state] <= Rank[after.state]
      BY <3>1, <1>2, SMT
    <3> QED
      BY <3>1, <3>2, <2>5, RankChain, Zenon
  <2> HIDE DEF last
  <2> QED
    BY <1>2, <2>2, <2>4, <2>5, <2>6
<1> QED
  BY <1>4, <1>5

-----------------------------------------------------------------------------
(* The inductive invariant.  A sweep works on what it read earlier and holds  *)
(* no lock: it is safe because orders only climb.  The row it holds is of a   *)
(* state the order is in or has left for good.                                *)

RowsInv == \A o \in Orders : RowInv(db[o]) /\ db[o].state # "received"

\* A PaymentIntent row, committed or about to be, has an intent at Stripe.
IntentsExist ==
  /\ \A o \in Orders : db[o].pi # "none" => stripe[o].pi # "none"
  /\ \A x \in tx : x.phase = "called" =>
       /\ Answers(x.t, x.result)
       /\ Answers(x.t, stripe[x.order].pi)

\* The order of row r, in the rows d, is in the state the timer was set in, or
\* beyond it; has left it.
Reached(r, d) == Rank[r.guard] <= Rank[d[r.order].state]
Left(r, d) == Rank[r.guard] < Rank[d[r.order].state]
Fired(r, d) == InLog(d[r.order], StateTimers[r.guard], "system")

\* What an execution of sweep() can rely on.
Holds(v, d) ==
  /\ \A i \in 1 .. Len(v.batch) : Reached(v.batch[i], d)
  /\ \A r \in v.current :
       /\ Reached(r, d)
       /\ v.pc \in {"skip", "fire"} => Left(r, d)
       /\ v.pc = "fire" => Fired(r, d)
       /\ v.current = {r}

SweepsInv == \A w \in Sweeps : Holds(sweep[w], db)

\* A transaction run by a sweep is the one transition of the row it works on.
RunsFor(x, w) ==
  /\ sweep[w].pc = "applying" /\ x.actor = "system"
  /\ \A r \in sweep[w].current : r.order = x.order /\ x.t = TimerTransition(r)
  /\ \A y \in tx : y.by = w => y = x

CallersInv == \A x \in tx : x.by # Client => RunsFor(x, x.by)

SafeInv == CoreInv /\ RowsInv /\ IntentsExist /\ SweepsInv /\ CallersInv

\* From the rows d to the rows e, no order falls back or forgets.
Grows(d, e) ==
  \A o \in Orders :
    /\ Rank[d[o].state] <= Rank[e[o].state]
    /\ \A m, b : InLog(d[o], m, b) => InLog(e[o], m, b)

\* Ranks are numbers.
LEMMA RanksOfRows ==
  ASSUME NEW d \in [Orders -> Rows], NEW r \in RowId
  PROVE  /\ Rank[r.guard] \in 0 .. 13
         /\ Rank[d[r.order].state] \in 0 .. 13
         /\ Rank[r.guard] = Rank[d[r.order].state] => r.guard = d[r.order].state
<1>1. r.guard \in AllStates /\ d[r.order].state \in AllStates
  BY DEF RowId, Rows, AllStates, TimedStates, States
<1> QED
  BY <1>1, RankNumbers

\* What a sweep relies on stays true while the orders climb.
LEMMA HoldsGrows ==
  ASSUME NEW v \in SweepState, NEW d \in [Orders -> Rows], NEW e \in [Orders -> Rows],
         Holds(v, d), Grows(d, e)
  PROVE  Holds(v, e)
<1>1. ASSUME NEW r \in RowId
      PROVE  /\ Reached(r, d) => Reached(r, e)
             /\ Left(r, d) => Left(r, e)
             /\ Fired(r, d) => Fired(r, e)
  <2>1. r.order \in Orders
    BY DEF RowId
  <2>2. Rank[d[r.order].state] <= Rank[e[r.order].state]
    BY <2>1 DEF Grows
  <2> DEFINE x == Rank[r.guard]
  <2> DEFINE y == Rank[d[r.order].state]
  <2> DEFINE z == Rank[e[r.order].state]
  <2>3. x \in 0 .. 13 /\ y \in 0 .. 13 /\ z \in 0 .. 13 /\ y <= z
    BY <2>2, RanksOfRows
  <2>4. (Reached(r, d) <=> x <= y) /\ (Reached(r, e) <=> x <= z)
        /\ (Left(r, d) <=> x < y) /\ (Left(r, e) <=> x < z)
    BY DEF Reached, Left
  <2> HIDE DEF x, y, z
  <2>5. (Reached(r, d) => Reached(r, e)) /\ (Left(r, d) => Left(r, e))
    BY <2>3, <2>4
  <2>6. Fired(r, d) => Fired(r, e)
    BY <2>1 DEF Fired, Grows
  <2> QED
    BY <2>5, <2>6
<1>2. \A i \in 1 .. Len(v.batch) : v.batch[i] \in RowId
  BY DEF SweepState
<1>3. v.current \subseteq RowId
  BY DEF SweepState
<1> QED
  BY <1>1, <1>2, <1>3 DEF Holds

\* On to the next row, the sweep relies on the rest of its batch only.
LEMMA HoldsFinished ==
  ASSUME NEW v \in SweepState, NEW d, Holds(v, d)
  PROVE  Holds(Finished(v), d)
  BY DEF Holds, Finished

-----------------------------------------------------------------------------
(* What the parts of a step do to the invariant. *)

\* A call to Stripe does not undo a PaymentIntent, and create makes one.
LEMMA IntentStays ==
  ASSUME NEW s \in StripeState, NEW t \in Transitions, t.action # "none",
         s.pi # "none" \/ t.action = "create-payment-intent"
  PROVE  StripeAfter(s, t).pi # "none"
<1>1. t.action \in MoneyActions
  BY TransitionsTyped
<1>2. CASE t.action = "create-payment-intent"
  BY <1>2 DEF StripeAfter, CreatePaymentIntent, StripeState
<1>3. CASE t.action = "confirm-capture"
  BY <1>3 DEF StripeAfter, ConfirmAndCapture, StripeState
<1>4. CASE t.action = "cancel-payment-intent"
  BY <1>4 DEF StripeAfter, CancelPaymentIntent, StripeState
<1>5. CASE t.action = "payout"
  BY <1>5 DEF StripeAfter, CreateTransfer, StripeState
<1>6. CASE t.action = "refund-full"
  BY <1>6 DEF StripeAfter, Refund, StripeState
<1> QED
  BY <1>1, <1>2, <1>3, <1>4, <1>5, <1>6 DEF MoneyActions

\* Changing what is known of a transaction does not change who runs it.
LEMMA CallersKept ==
  ASSUME CallersInv, NEW x \in tx, NEW y,
         y.order = x.order, y.t = x.t, y.actor = x.actor, y.by = x.by,
         tx' = (tx \ {x}) \cup {y}, UNCHANGED sweep
  PROVE  CallersInv'
<1> SUFFICES ASSUME NEW z \in tx', z.by # Client PROVE RunsFor(z, z.by)'
  BY DEF CallersInv
<1>2. CASE z = y
  BY <1>2 DEF CallersInv, RunsFor, TimerTransition
<1>3. CASE z # y
  BY <1>3 DEF CallersInv, RunsFor, TimerTransition
<1> QED
  BY <1>2, <1>3

\* When a transaction ends, its caller goes on and no other caller is affected.
LEMMA CallersLeft ==
  ASSUME CoreInv, CallersInv, NEW x \in tx, tx' = tx \ {x},
         sweep' = Thrown(x) \/ sweep' = Returned(x)
  PROVE  CallersInv'
<1> SUFFICES ASSUME NEW z \in tx', z.by # Client PROVE RunsFor(z, z.by)'
  BY DEF CallersInv
<1>1. z \in tx /\ z # x /\ RunsFor(z, z.by)
  BY DEF CallersInv
<1>2. z.by # x.by
  BY <1>1 DEF RunsFor
<1>3. sweep \in [Sweeps -> SweepState] /\ z.by \in Sweeps
  BY <1>1 DEF CoreInv, TypeInv, TypeOK, SweepState, TxRecord
<1>4. sweep'[z.by] = sweep[z.by]
  BY <1>2, <1>3 DEF Thrown, Returned
<1> QED
  BY <1>1, <1>4 DEF RunsFor, TimerTransition

\* A transaction that throws leaves its caller with the rest of the batch.
LEMMA ThrownHolds ==
  ASSUME CoreInv, NEW x \in tx, SweepsInv
  PROVE  \A w \in Sweeps : Holds(Thrown(x)[w], db)
<1>1. sweep \in [Sweeps -> SweepState] /\ x.by \in Sweeps \cup {Client}
  BY DEF CoreInv, TypeInv, TypeOK, SweepState, TxRecord
<1>2. ASSUME NEW w \in Sweeps PROVE Holds(Finished(sweep[w]), db)
  BY <1>1, HoldsFinished DEF SweepsInv
<1> QED
  BY <1>1, <1>2 DEF Thrown, SweepsInv

\* The rows after a commit climb and keep their invariant.
LEMMA CommitRows ==
  ASSUME SafeInv, NEW o \in Orders, NEW x \in tx, x.order = o, x.phase = "called",
         db' = [db EXCEPT ![o] = ExecuteWithin(@, x.t, x.actor, x.result)]
  PROVE  /\ RowsInv'
         /\ Grows(db, db')
         /\ Rank[db[o].state] < Rank[db'[o].state]
         /\ InLog(db'[o], x.t.name, x.actor)
         /\ \A u \in Orders : u # o => db'[u] = db[u]
<1> DEFINE n == ExecuteWithin(db[o], x.t, x.actor, x.result)
<1>1. /\ db[o] \in Rows /\ x.t \in Transitions /\ x.actor \in Actors /\ x.result \in PIStatus
      /\ RowInv(db[o]) /\ db[o].state \in x.t.from /\ Answers(x.t, x.result)
  BY DEF SafeInv, CoreInv, TypeInv, TypeOK, TxRecord, TxGuarded, RowsInv, IntentsExist
<1>2. /\ RowInv(n) /\ n.state # "received" /\ n \in Rows
      /\ Rank[db[o].state] < Rank[n.state]
      /\ InLog(n, x.t.name, x.actor)
      /\ \A m, b : InLog(db[o], m, b) => InLog(n, m, b)
  BY <1>1, ExecuteInv
<1> HIDE DEF n
<1>3. db' = [db EXCEPT ![o] = n] /\ db \in [Orders -> Rows]
  BY DEF n, SafeInv, CoreInv, TypeInv, TypeOK
<1>4. db'[o] = n /\ \A u \in Orders : u # o => db'[u] = db[u]
  BY <1>3
<1>5. ASSUME NEW u \in Orders
      PROVE  /\ Rank[db[u].state] <= Rank[db'[u].state]
             /\ \A m, b : InLog(db[u], m, b) => InLog(db'[u], m, b)
  <2>1. CASE u = o
    <3>1. Rank[db[o].state] \in 0 .. 13 /\ Rank[n.state] \in 0 .. 13
      BY <1>1, <1>2, RankNumbers DEF Rows, AllStates
    <3>2. Rank[db[o].state] <= Rank[n.state]
      BY <3>1, <1>2
    <3> QED
      BY <2>1, <3>2, <1>2, <1>4
  <2>2. CASE u # o
    <3>1. Rank[db[u].state] \in 0 .. 13
      BY <1>3, RankNumbers DEF Rows, AllStates
    <3> QED
      BY <2>2, <3>1, <1>4
  <2> QED
    BY <2>1, <2>2
<1>6. Grows(db, db')
  BY <1>5 DEF Grows
<1>7. RowsInv'
  BY <1>2, <1>4 DEF RowsInv, SafeInv
<1> QED
  BY <1>2, <1>4, <1>6, <1>7

\* A row marked after its timer fired, or after its order left the state, is no
\* longer the live timer.
LEMMA MarkRows ==
  ASSUME SafeInv, NEW r \in RowId, NEW status \in {"skipped", "fired"},
         Left(r, db), status = "fired" => Fired(r, db),
         db' = [db EXCEPT ![r.order].timers[r.guard] = status]
  PROVE  RowsInv' /\ Grows(db, db') /\ \A o \in Orders : db'[o].pi = db[o].pi
<1>1. r.order \in Orders /\ r.guard \in TimedStates
  BY DEF RowId
<1> DEFINE d == db[r.order]
<1> DEFINE n == [d EXCEPT !.timers[r.guard] = status]
<1>2. d \in Rows /\ RowInv(d) /\ d.state # "received" /\ db \in [Orders -> Rows]
  BY <1>1 DEF SafeInv, CoreInv, TypeInv, TypeOK, RowsInv
<1>3. d.state # r.guard
  <2>1. Rank[r.guard] < Rank[d.state]
    BY DEF Left
  <2>2. Rank[r.guard] \in 0 .. 13
    BY <1>2, RanksOfRows
  <2> QED
    BY <2>1, <2>2
<1>4. /\ n.state = d.state /\ n.log = d.log /\ n.outbox = d.outbox /\ n.pi = d.pi
      /\ n.payoutReleased = d.payoutReleased /\ n.payout = d.payout /\ n.refunds = d.refunds
      /\ n.timers = [d.timers EXCEPT ![r.guard] = status]
      /\ d.timers \in [TimedStates -> TimerStatus]
  BY <1>2 DEF Rows
<1>5. db' = [db EXCEPT ![r.order] = n]
  OBVIOUS
<1>6. status = "fired" => InLog(d, StateTimers[r.guard], "system")
  BY DEF Fired
<1> HIDE DEF n, d
<1>7. TimersMatch(n)
  BY <1>1, <1>2, <1>3, <1>4 DEF RowInv, TimersMatch
<1>8. FiredRows(n)
  BY <1>1, <1>2, <1>4, <1>6 DEF RowInv, FiredRows, InLog
<1>9. Path(n) /\ Climbing(n) /\ Books(n) /\ Announced(n)
  BY <1>2, <1>4 DEF RowInv, Path, Climbing, Books, Announced
<1>10. RowInv(n) /\ n.state # "received"
  BY <1>2, <1>4, <1>7, <1>8, <1>9 DEF RowInv
<1>11. RowsInv'
  BY <1>1, <1>2, <1>5, <1>10 DEF RowsInv, SafeInv
<1>12. \A o \in Orders : /\ db'[o].state = db[o].state /\ db'[o].log = db[o].log
                          /\ db'[o].pi = db[o].pi
  BY <1>1, <1>2, <1>4, <1>5 DEF d
<1>13. Grows(db, db')
  <2>1. \A o \in Orders : Rank[db[o].state] \in 0 .. 13
    BY <1>2, RankNumbers DEF Rows, AllStates
  <2> QED
    BY <1>12, <2>1 DEF Grows, InLog
<1> QED
  BY <1>11, <1>12, <1>13

-----------------------------------------------------------------------------
(* The invariant is inductive. *)

\* It holds before any order is placed.
LEMMA InitSafe == Init => SafeInv
<1> SUFFICES ASSUME Init PROVE SafeInv
  OBVIOUS
<1>1. CoreInv
  BY InitCore
<1>2. RowInv(NoRows) /\ NoRows.state # "received" /\ NoRows.pi = "none"
  <2>1. TimersMatch(NoRows) /\ FiredRows(NoRows)
    BY DEF TimersMatch, FiredRows, NoRows, NoOrder, TimedStates
  <2>2. NoRows.log = <<>> /\ NoRows.outbox = <<>> /\ Len(<<>>) = 0
    BY DEF NoRows
  <2>3. Path(NoRows) /\ Climbing(NoRows)
    BY <2>2 DEF Path, Climbing, NoRows
  <2>4. Books(NoRows)
    BY DEF Books, NoRows, NoOrder, PaidOut
  <2>5. Announced(NoRows)
    BY <2>2 DEF Announced, NoRows
  <2> QED
    BY <2>1, <2>3, <2>4, <2>5 DEF RowInv, NoRows, NoOrder
<1>3. RowsInv /\ IntentsExist /\ CallersInv
  BY <1>2 DEF Init, RowsInv, IntentsExist, CallersInv
<1>4. SweepsInv
  BY DEF Init, SweepsInv, Holds, IdleSweep
<1> QED
  BY <1>1, <1>3, <1>4 DEF SafeInv

\* Begin adds one transaction.
LEMMA BeginAdds ==
  ASSUME NEW o, NEW t, NEW a, NEW by, Begin(o, t, a, by)
  PROVE  \E b : /\ b.order = o /\ b.t = t /\ b.actor = a /\ b.by = by
                /\ tx' = tx \cup {b}
<1> DEFINE b == [order |-> o, t |-> t, actor |-> a, by |-> by,
                 phase |-> IF CallsGateway(db[o], t) THEN "locked" ELSE "called",
                 result |-> db[o].pi]
<1>1. b.order = o /\ b.t = t /\ b.actor = a /\ b.by = by
  OBVIOUS
<1>2. tx' = tx \cup {b}
  BY DEF Begin
<1> HIDE DEF b
<1> QED
  BY <1>1, <1>2

\* A transaction that begins is for a caller that waits for it.
LEMMA BeginCallers ==
  ASSUME SafeInv, NEW o \in Orders, NEW t \in Transitions, NEW a \in Actors,
         Begin(o, t, a, Client), UNCHANGED sweep
  PROVE  CallersInv'
<1>1. PICK b : /\ b.by = Client
               /\ tx' = tx \cup {b}
  BY BeginAdds
<1>2. ASSUME NEW z \in tx', z.by # Client PROVE RunsFor(z, z.by)'
  <2>1. z \in tx /\ RunsFor(z, z.by)
    BY <1>1, <1>2 DEF SafeInv, CallersInv
  <2> QED
    BY <2>1, <1>1, <1>2 DEF RunsFor, TimerTransition
<1> QED
  BY <1>2 DEF CallersInv

\* A transaction that has nothing to call has no answer to wait for.
LEMMA BeginIntents ==
  ASSUME SafeInv, NEW o \in Orders, NEW t \in Transitions, NEW a \in Actors, NEW by,
         Begin(o, t, a, by), UNCHANGED <<db, stripe>>
  PROVE  IntentsExist'
<1> DEFINE b == [order |-> o, t |-> t, actor |-> a, by |-> by,
                 phase |-> IF CallsGateway(db[o], t) THEN "locked" ELSE "called",
                 result |-> db[o].pi]
<1>1. b.phase = "called" => t.action \notin {"create-payment-intent", "confirm-capture"}
  BY DEF CallsGateway
<1>2. b.t = t /\ tx' = tx \cup {b}
  BY DEF Begin
<1> HIDE DEF b
<1> QED
  BY <1>1, <1>2 DEF SafeInv, IntentsExist, Answers

\* A sweep that starts a transaction waits for it alone.
LEMMA CallCallers ==
  ASSUME SafeInv, NEW w \in Sweeps, CallApply(w)
  PROVE  CallersInv'
<1>1. PICK r \in sweep[w].current : Begin(r.order, TimerTransition(r), "system", w)
  BY DEF CallApply
<1>2. PICK b : /\ b.by = w /\ b.order = r.order /\ b.t = TimerTransition(r)
               /\ b.actor = "system"
               /\ tx' = tx \cup {b}
  BY <1>1, BeginAdds
<1>3. /\ sweep[w].pc = "apply" /\ sweep \in [Sweeps -> SweepState]
      /\ sweep' = [sweep EXCEPT ![w].pc = "applying"]
  BY DEF CallApply, SafeInv, CoreInv, TypeInv, TypeOK, SweepState
<1>4. sweep'[w].pc = "applying" /\ sweep'[w].current = sweep[w].current
  BY <1>3 DEF SweepState
<1>5. sweep[w].current = {r}
  BY DEF SafeInv, SweepsInv, Holds
<1>6. \A y \in tx : y.by # w
  BY <1>3, ClientAssumption DEF SafeInv, CallersInv, RunsFor
<1>7. ASSUME NEW z \in tx', z.by # Client PROVE RunsFor(z, z.by)'
  <2>1. CASE z = b
    BY <2>1, <1>2, <1>4, <1>5, <1>6 DEF RunsFor, TimerTransition
  <2>2. CASE z # b
    <3>1. z \in tx /\ z.by # w /\ RunsFor(z, z.by)
      BY <2>2, <1>2, <1>6, <1>7 DEF SafeInv, CallersInv
    <3>2. z.by \in Sweeps
      BY <3>1, <1>7 DEF SafeInv, CoreInv, TypeInv, TypeOK, TxRecord
    <3>3. sweep'[z.by] = sweep[z.by]
      BY <3>1, <3>2, <1>3
    <3> QED
      BY <3>1, <3>3, <1>2 DEF RunsFor, TimerTransition
  <2> QED
    BY <2>1, <2>2
<1> QED
  BY <1>7 DEF CallersInv

\* A sweep that runs no transaction can go on without one being affected.
LEMMA SweepCallers ==
  ASSUME SafeInv, NEW w \in Sweeps, NEW v, sweep[w].pc # "applying",
         sweep' = [sweep EXCEPT ![w] = v], UNCHANGED tx
  PROVE  CallersInv'
<1>1. ASSUME NEW z \in tx', z.by # Client PROVE RunsFor(z, z.by)'
  <2>1. z \in tx /\ RunsFor(z, z.by) /\ z.by # w
    BY <1>1 DEF SafeInv, CallersInv, RunsFor
  <2>2. z.by \in Sweeps /\ sweep \in [Sweeps -> SweepState]
    BY <2>1, <1>1 DEF SafeInv, CoreInv, TypeInv, TypeOK, TxRecord, SweepState
  <2>3. sweep'[z.by] = sweep[z.by]
    BY <2>1, <2>2
  <2> QED
    BY <2>1, <2>3 DEF RunsFor, TimerTransition
<1> QED
  BY <1>1 DEF CallersInv

\* The other sweeps hold what they held.
LEMMA SweepHolds ==
  ASSUME SafeInv, NEW w \in Sweeps, NEW v, Holds(v, db),
         sweep' = [sweep EXCEPT ![w] = v], UNCHANGED db
  PROVE  SweepsInv'
  BY DEF SafeInv, SweepsInv, CoreInv, TypeInv, TypeOK

\* A placed order has empty books and no timer.
LEMMA CreateRows ==
  ASSUME SafeInv, NEW o \in Orders, CreateOrder(o)
  PROVE  RowsInv' /\ Grows(db, db') /\ \A u \in Orders : db'[u].pi = db[u].pi
<1> DEFINE d == db[o]
<1> DEFINE n == [d EXCEPT !.state = "initial"]
<1>1. d \in Rows /\ RowInv(d) /\ d.state = NoOrder /\ db \in [Orders -> Rows]
  BY DEF SafeInv, CoreInv, TypeInv, TypeOK, RowsInv, CreateOrder
<1>2. db' = [db EXCEPT ![o] = n]
  BY DEF CreateOrder
<1>3. /\ n.state = "initial" /\ n.log = d.log /\ n.outbox = d.outbox /\ n.pi = d.pi
      /\ n.payoutReleased = d.payoutReleased /\ n.payout = d.payout /\ n.refunds = d.refunds
      /\ n.timers = d.timers
  BY <1>1 DEF Rows
<1>4. d.log = <<>>
  <2>1. d.log \in Seq(Entry)
    BY <1>1 DEF Rows
  <2>2. ASSUME d.log # <<>> PROVE FALSE
    <3>1. d.log[Len(d.log)] \in Entry
      BY <2>1, <2>2
    <3>2. d.log[Len(d.log)].to = NoOrder
      BY <2>2, <1>1 DEF RowInv, Path
    <3> QED
      BY <3>1, <3>2 DEF Entry, States, NoOrder
  <2> QED
    BY <2>2
<1> HIDE DEF d, n
<1>5. TimersMatch(n) /\ FiredRows(n)
  BY <1>1, <1>3 DEF RowInv, TimersMatch, FiredRows, InLog, TimedStates, NoOrder
<1>6. Path(n) /\ Climbing(n)
  <2>1. Len(n.log) = 0
    BY <1>3, <1>4
  <2> QED
    BY <2>1, <1>3, <1>4 DEF Path, Climbing
<1>7. Books(n) /\ Announced(n)
  BY <1>1, <1>3 DEF RowInv, Books, Announced, PaidOut, NoOrder
<1>8. RowInv(n) /\ n.state # "received"
  BY <1>3, <1>5, <1>6, <1>7 DEF RowInv
<1>9. RowsInv'
  BY <1>1, <1>2, <1>8 DEF RowsInv, SafeInv
<1>10. \A u \in Orders : db'[u].log = db[u].log
  BY <1>1, <1>2, <1>3 DEF d
<1>11. \A u \in Orders : db'[u].pi = db[u].pi
  BY <1>1, <1>2, <1>3 DEF d
<1>12. ASSUME NEW u \in Orders PROVE Rank[db[u].state] <= Rank[db'[u].state]
  <2>1. CASE u = o
    <3>1. db[o].state = NoOrder /\ db'[o].state = "initial"
      BY <1>1, <1>2, <1>3 DEF d
    <3>2. Rank[NoOrder] = 0 /\ Rank["initial"] = 1
      BY DEF Rank, NoOrder, States
    <3> QED
      BY <2>1, <3>1, <3>2
  <2>2. CASE u # o
    <3>1. db'[u] = db[u]
      BY <2>2, <1>1, <1>2
    <3>2. Rank[db[u].state] \in 0 .. 13
      BY <1>1, RankNumbers DEF Rows, AllStates
    <3> QED
      BY <3>1, <3>2
  <2> QED
    BY <2>1, <2>2
<1>13. Grows(db, db')
  BY <1>10, <1>12 DEF Grows, InLog
<1> QED
  BY <1>9, <1>11, <1>13

\* What the rows of a batch and its first row are.
LEMMA BatchRows ==
  ASSUME NEW q \in Seq(RowId), q # <<>>
  PROVE  /\ Head(q) \in RowId /\ Head(q) = q[1] /\ 1 \in 1 .. Len(q)
         /\ \A i \in 1 .. Len(Tail(q)) : i + 1 \in 1 .. Len(q) /\ Tail(q)[i] = q[i + 1]
  OBVIOUS

\* A sweep that could not read a row relies on the rest of its batch.
LEMMA HoldsUnread ==
  ASSUME NEW v \in SweepState, NEW d, Holds(v, d), v.pc = "next" => v.batch # <<>>
  PROVE  Holds(Unread(v), d)
<1>1. CASE v.pc = "next"
  <2> DEFINE u == [v EXCEPT !.batch = Tail(v.batch)]
  <2>1. v.batch \in Seq(RowId) /\ v.batch # <<>>
    BY <1>1 DEF SweepState
  <2>2. u.pc = v.pc /\ u.current = v.current /\ u.batch = Tail(v.batch) /\ Unread(v) = u
    BY <1>1 DEF Unread, SweepState
  <2> HIDE DEF u
  <2>3. \A i \in 1 .. Len(u.batch) : Reached(u.batch[i], d)
    <3>1. \A i \in 1 .. Len(v.batch) : Reached(v.batch[i], d)
      BY DEF Holds
    <3>2. \A i \in 1 .. Len(Tail(v.batch)) :
            i + 1 \in 1 .. Len(v.batch) /\ Tail(v.batch)[i] = v.batch[i + 1]
      BY <2>1, BatchRows
    <3> QED
      BY <2>2, <3>1, <3>2, Zenon
  <2> QED
    BY <2>2, <2>3 DEF Holds
<1>2. CASE v.pc # "next"
  BY <1>2 DEF Unread
<1> QED
  BY <1>1, <1>2

\* A sweep holds what it has just read.
LEMMA FetchHolds ==
  ASSUME SafeInv, NEW w \in Sweeps, Fetch(w)
  PROVE  SweepsInv' /\ CallersInv'
<1>1. PICK n \in 1 .. BatchSize : \E b \in [1 .. n -> Due] :
        sweep' = [sweep EXCEPT ![w] = [pc |-> "next", batch |-> b, current |-> {}]]
  BY DEF Fetch
<1>2. PICK b \in [1 .. n -> Due] :
        sweep' = [sweep EXCEPT ![w] = [pc |-> "next", batch |-> b, current |-> {}]]
  BY <1>1
<1>3. ASSUME NEW r \in Due PROVE Reached(r, db)
  <2>1. r \in RowId /\ db[r.order].timers[r.guard] = "pending"
    BY DEF Due, Pending
  <2>2. r.order \in Orders /\ r.guard \in TimedStates /\ RowInv(db[r.order])
    BY <2>1 DEF RowId, SafeInv, RowsInv
  <2>3. db[r.order].state = r.guard
    BY <2>1, <2>2 DEF RowInv, TimersMatch
  <2>4. Rank[r.guard] \in 0 .. 13
    BY <2>2, RankNumbers DEF AllStates, States, TimedStates
  <2> QED
    BY <2>3, <2>4 DEF Reached
<1>4. \A i \in 1 .. Len(b) : b[i] \in Due
  <2>1. n \in Nat
    OBVIOUS
  <2>2. b \in Seq(Due) /\ Len(b) = n
    BY <2>1, SeqDef, LenProperties
  <2> QED
    BY <2>2
<1> DEFINE v == [pc |-> "next", batch |-> b, current |-> {}]
<1>5. Holds(v, db)
  BY <1>3, <1>4 DEF Holds
<1> HIDE DEF v
<1>6. sweep' = [sweep EXCEPT ![w] = v] /\ UNCHANGED <<db, tx>> /\ sweep[w].pc # "applying"
  BY <1>2 DEF v, Fetch
<1> QED
  BY <1>5, <1>6, SweepHolds, SweepCallers

\* A sweep that compares an order with a guard state knows whether it has left it.
LEMMA GuardHolds ==
  ASSUME SafeInv, NEW w \in Sweeps, CheckGuard(w)
  PROVE  SweepsInv' /\ CallersInv'
<1> DEFINE q == sweep[w].batch
<1> DEFINE r == Head(q)
<1> DEFINE v == [pc |-> IF db[r.order].state = r.guard THEN "apply" ELSE "skip",
                 batch |-> Tail(q), current |-> {r}]
<1>1. q \in Seq(RowId) /\ q # <<>>
  BY DEF SafeInv, CoreInv, TypeInv, TypeOK, BatchToRead, CheckGuard
<1>2. \A i \in 1 .. Len(q) : Reached(q[i], db)
  BY DEF SafeInv, SweepsInv, Holds
<1>3. sweep' = [sweep EXCEPT ![w] = v] /\ UNCHANGED <<db, tx>> /\ sweep[w].pc # "applying"
  BY DEF CheckGuard
<1> HIDE DEF q
<1>4. r \in RowId /\ Reached(r, db) /\ \A i \in 1 .. Len(Tail(q)) : Reached(Tail(q)[i], db)
  BY <1>1, <1>2, BatchRows
<1>5. v.pc \in {"apply", "skip"} /\ v.batch = Tail(q) /\ v.current = {r}
      /\ (v.pc = "skip" => db[r.order].state # r.guard)
  OBVIOUS
<1> HIDE DEF r, v
<1>6. db[r.order].state # r.guard => Left(r, db)
  <2>1. db \in [Orders -> Rows]
    BY DEF SafeInv, CoreInv, TypeInv, TypeOK
  <2> QED
    BY <2>1, <1>4, RanksOfRows DEF Reached, Left
<1>7. Holds(v, db)
  BY <1>4, <1>5, <1>6 DEF Holds
<1> QED
  BY <1>3, <1>7, SweepHolds, SweepCallers

\* While the orders climb and no sweep moves, every sweep keeps what it relies on.
LEMMA AllHold ==
  ASSUME SafeInv, CoreInv', Grows(db, db'), UNCHANGED sweep
  PROVE  SweepsInv'
<1>1. ASSUME NEW w \in Sweeps PROVE Holds(sweep'[w], db')
  <2>1. sweep[w] \in SweepState /\ Holds(sweep[w], db)
    BY DEF SafeInv, CoreInv, TypeInv, TypeOK, SweepState, SweepsInv
  <2>2. db \in [Orders -> Rows] /\ db' \in [Orders -> Rows]
    BY DEF SafeInv, CoreInv, TypeInv, TypeOK
  <2> QED
    BY <2>1, <2>2, HoldsGrows
<1> QED
  BY <1>1 DEF SweepsInv

\* After a commit the sweep that ran the transaction knows that its timer fired.
LEMMA CommitHolds ==
  ASSUME SafeInv, CoreInv', NEW o \in Orders, NEW x \in tx, x.order = o,
         Grows(db, db'), Rank[db[o].state] < Rank[db'[o].state],
         InLog(db'[o], x.t.name, x.actor), sweep' = Returned(x)
  PROVE  SweepsInv'
<1>1. /\ db \in [Orders -> Rows] /\ db' \in [Orders -> Rows]
      /\ sweep \in [Sweeps -> SweepState] /\ x.by \in Sweeps \cup {Client}
  BY DEF SafeInv, CoreInv, TypeInv, TypeOK, SweepState, TxRecord
<1>2. \A w \in Sweeps : Holds(sweep[w], db')
  BY <1>1, HoldsGrows DEF SafeInv, SweepsInv
<1>3. CASE x.by = Client
  BY <1>2, <1>3 DEF Returned, SweepsInv
<1>4. CASE x.by # Client
  <2> DEFINE w == x.by
  <2> DEFINE v == [sweep[w] EXCEPT !.pc = "fire"]
  <2>1. w \in Sweeps /\ RunsFor(x, w) /\ sweep[w] \in SweepState
    BY <1>1, <1>4 DEF SafeInv, CallersInv
  <2>2. v.pc = "fire" /\ v.batch = sweep[w].batch /\ v.current = sweep[w].current
    BY <2>1 DEF SweepState
  <2>3. sweep' = [sweep EXCEPT ![w] = v]
    BY <1>4 DEF Returned
  <2> HIDE DEF v
  <2>4. ASSUME NEW r \in sweep[w].current PROVE Left(r, db') /\ Fired(r, db')
    <3>1. r \in RowId /\ r.order = o /\ x.t = TimerTransition(r) /\ x.actor = "system"
      BY <2>1 DEF RunsFor, SweepState
    <3>2. x.t.name = StateTimers[r.guard]
      BY <3>1, TimersFireHome DEF TimerTransition, RowId
    <3>3. Fired(r, db')
      BY <3>1, <3>2 DEF Fired
    <3>4. Rank[r.guard] <= Rank[db[r.order].state]
      BY <2>1 DEF SafeInv, SweepsInv, Holds, Reached
    <3>5. /\ Rank[r.guard] \in 0 .. 13 /\ Rank[db[r.order].state] \in 0 .. 13
          /\ Rank[db'[r.order].state] \in 0 .. 13
      BY <1>1, <3>1, RanksOfRows
    <3>6. Rank[r.guard] < Rank[db'[r.order].state]
      <4>1. Rank[db[r.order].state] < Rank[db'[r.order].state]
        BY <3>1
      <4> QED
        BY <3>4, <3>5, <4>1
    <3> QED
      BY <3>3, <3>6 DEF Left
  <2>5. Holds(v, db')
    BY <1>2, <2>1, <2>2, <2>4 DEF Holds
  <2> QED
    BY <1>1, <1>2, <2>1, <2>3, <2>5 DEF SweepsInv
<1> QED
  BY <1>3, <1>4

\* Every step preserves the invariant.
LEMMA StepSafe == SafeInv /\ [Next]_vars => SafeInv'
<1> SUFFICES ASSUME SafeInv, [Next]_vars PROVE SafeInv'
  OBVIOUS
<1>0. CoreInv'
  BY StepCore DEF SafeInv
<1>1. CASE UNCHANGED vars
  BY <1>0, <1>1 DEF SafeInv, vars, RowsInv, IntentsExist, SweepsInv, CallersInv, RunsFor,
                    TimerTransition
<1>2. ASSUME NEW o \in Orders, CreateOrder(o) PROVE SafeInv'
  <2>1. RowsInv' /\ Grows(db, db') /\ \A u \in Orders : db'[u].pi = db[u].pi
    BY <1>2, CreateRows
  <2>2. UNCHANGED <<tx, stripe, sweep>>
    BY <1>2 DEF CreateOrder
  <2>3. IntentsExist' /\ CallersInv'
    BY <2>1, <2>2 DEF SafeInv, IntentsExist, CallersInv, RunsFor, TimerTransition
  <2>4. SweepsInv'
    BY <1>0, <2>1, <2>2, AllHold
  <2> QED
    BY <1>0, <2>1, <2>3, <2>4 DEF SafeInv
<1>3. ASSUME NEW o \in Orders, BuyerPays(o) PROVE SafeInv'
  <2>1. UNCHANGED <<db, tx, sweep>>
    BY <1>3 DEF BuyerPays
  <2>2. \A u \in Orders : stripe[u].pi # "none" => stripe'[u].pi # "none"
    BY <1>3 DEF BuyerPays, SafeInv, CoreInv, TypeInv, TypeOK
  <2>3. \A x \in tx : x.order \in Orders
    BY DEF SafeInv, CoreInv, TypeInv, TypeOK, TxRecord
  <2>4. IntentsExist'
    BY <2>1, <2>2, <2>3 DEF SafeInv, IntentsExist, Answers
  <2> QED
    BY <1>0, <2>1, <2>4 DEF SafeInv, RowsInv, SweepsInv, CallersInv, RunsFor, TimerTransition
<1>4. ASSUME NEW o \in Orders, SellerOnboards(o) PROVE SafeInv'
  BY <1>0, <1>4 DEF SellerOnboards, SafeInv, RowsInv, IntentsExist, SweepsInv, CallersInv,
                    RunsFor, TimerTransition
<1>5. ASSUME NEW o \in Orders, GatewayCall(o) PROVE SafeInv'
  <2>1. PICK x \in tx :
          /\ x.order = o /\ x.phase = "locked"
          /\ stripe' = [stripe EXCEPT ![o] = StripeAfter(@, x.t)]
          /\ tx' = (tx \ {x}) \cup {[x EXCEPT !.phase = "called", !.result = stripe'[o].pi]}
          /\ UNCHANGED <<db, account, late, runAt, sweep, faults>>
    BY <1>5 DEF GatewayCall
  <2>2. /\ x \in TxRecord /\ x.t.action # "none" /\ db[o].state \in x.t.from
        /\ x.t \in Transitions /\ stripe \in [Orders -> StripeState]
    BY <2>1 DEF SafeInv, CoreInv, TypeInv, TypeOK, TxGuarded, MoneyInFlight, TxRecord, StripeState
  <2> DEFINE y == [x EXCEPT !.phase = "called", !.result = stripe'[o].pi]
  <2>3. /\ y.order = x.order /\ y.t = x.t /\ y.actor = x.actor /\ y.by = x.by
        /\ y.result = stripe'[o].pi
    BY <2>2 DEF TxRecord
  <2> HIDE DEF y
  <2>4. tx' = (tx \ {x}) \cup {y}
    BY <2>1 DEF y
  <2>5. CallersInv'
    BY <2>1, <2>3, <2>4, CallersKept DEF SafeInv
  <2>6. stripe[o].pi # "none" => stripe'[o].pi # "none"
    BY <2>1, <2>2, IntentStays
  <2>7. Answers(x.t, stripe'[o].pi)
    <3>1. CASE x.t.action = "create-payment-intent"
      BY <3>1, <2>1, <2>2, IntentStays DEF Answers
    <3>2. CASE x.t.action = "confirm-capture"
      <4>1. db[o].state \notin {NoOrder, "initial"}
        BY <3>2, <2>2, TransitionsTyped, MoneyInTheTable DEF States, NoOrder
      <4>2. stripe[o].pi # "none"
        BY <4>1 DEF SafeInv, RowsInv, RowInv, Books, IntentsExist
      <4> QED
        BY <4>2, <2>6 DEF Answers
    <3> QED
      BY <3>1, <3>2 DEF Answers
  <2>8. \A u \in Orders : u # o => stripe'[u] = stripe[u]
    BY <2>1, <2>2
  <2>9. \A z \in tx : z.order \in Orders /\ (z.order = o => z = x)
    BY <2>1 DEF SafeInv, CoreInv, TypeInv, TypeOK, TxRecord, LockIsExclusive
  <2>10. IntentsExist'
    <3>1. ASSUME NEW u \in Orders, db'[u].pi # "none" PROVE stripe'[u].pi # "none"
      BY <3>1, <2>1, <2>6, <2>8 DEF SafeInv, IntentsExist
    <3>2. ASSUME NEW z \in tx', z.phase = "called"
          PROVE  Answers(z.t, z.result) /\ Answers(z.t, stripe'[z.order].pi)
      <4>1. CASE z = y
        BY <4>1, <2>1, <2>3, <2>7
      <4>2. CASE z # y
        BY <4>2, <3>2, <2>4, <2>8, <2>9 DEF SafeInv, IntentsExist
      <4> QED
        BY <4>1, <4>2
    <3> QED
      BY <3>1, <3>2 DEF IntentsExist
  <2> QED
    BY <1>0, <2>1, <2>5, <2>10 DEF SafeInv, RowsInv, SweepsInv
<1>6. ASSUME NEW o \in Orders, GatewayRejects(o) \/ Abort(o) PROVE SafeInv'
  <2>1. PICK x \in tx : /\ tx' = tx \ {x}
                        /\ sweep' = Thrown(x)
                        /\ UNCHANGED <<db, stripe>>
    BY <1>6 DEF GatewayRejects, Abort
  <2>2. CallersInv'
    BY <2>1, CallersLeft DEF SafeInv
  <2>3. SweepsInv'
    BY <2>1, ThrownHolds DEF SafeInv, SweepsInv
  <2>4. IntentsExist' /\ RowsInv'
    BY <2>1 DEF SafeInv, IntentsExist, RowsInv
  <2> QED
    BY <1>0, <2>2, <2>3, <2>4 DEF SafeInv
<1>7. ASSUME NEW o \in Orders, Commit(o) PROVE SafeInv'
  <2>1. PICK x \in tx :
          /\ x.order = o /\ x.phase = "called"
          /\ db' = [db EXCEPT ![o] = ExecuteWithin(@, x.t, x.actor, x.result)]
          /\ tx' = tx \ {x}
          /\ sweep' = Returned(x)
          /\ UNCHANGED stripe
    BY <1>7 DEF Commit
  <2>2. /\ RowsInv' /\ Grows(db, db')
        /\ Rank[db[o].state] < Rank[db'[o].state]
        /\ InLog(db'[o], x.t.name, x.actor)
        /\ \A u \in Orders : u # o => db'[u] = db[u]
    BY <2>1, CommitRows
  <2>3. CallersInv'
    BY <2>1, CallersLeft DEF SafeInv
  <2>4. SweepsInv'
    BY <1>0, <2>1, <2>2, CommitHolds
  <2>5. stripe[o].pi # "none"
    <3>1. CASE x.t.action = "create-payment-intent"
      BY <3>1, <2>1 DEF SafeInv, IntentsExist, Answers
    <3>2. CASE x.t.action # "create-payment-intent"
      <4>1. x.t \in Transitions /\ db[o].state \in x.t.from
        BY <2>1 DEF SafeInv, CoreInv, TypeInv, TypeOK, TxRecord, TxGuarded
      <4>2. db[o].state \notin {NoOrder, "initial"}
        BY <3>2, <4>1, TransitionsTyped, MoneyInTheTable DEF States, NoOrder
      <4> QED
        BY <4>2 DEF SafeInv, RowsInv, RowInv, Books, IntentsExist
    <3> QED
      BY <3>1, <3>2
  <2>6. IntentsExist'
    BY <2>1, <2>2, <2>5 DEF SafeInv, IntentsExist
  <2> QED
    BY <1>0, <2>2, <2>3, <2>4, <2>6 DEF SafeInv
<1>8. ASSUME NEW o \in Orders, CancelLost(o) PROVE SafeInv'
  <2>1. PICK x \in tx : /\ x.order = o /\ x.t.action = "cancel-payment-intent"
                        /\ tx' = (tx \ {x}) \cup {[x EXCEPT !.phase = "called"]}
                        /\ UNCHANGED <<db, stripe, sweep>>
    BY <1>8 DEF CancelLost
  <2> DEFINE y == [x EXCEPT !.phase = "called"]
  <2>2. y.order = x.order /\ y.t = x.t /\ y.actor = x.actor /\ y.by = x.by
    BY DEF SafeInv, CoreInv, TypeInv, TypeOK, TxRecord
  <2> HIDE DEF y
  <2>3. tx' = (tx \ {x}) \cup {y}
    BY <2>1 DEF y
  <2>4. CallersInv'
    BY <2>1, <2>2, <2>3, CallersKept DEF SafeInv
  <2>5. IntentsExist'
    BY <2>1, <2>2, <2>3 DEF SafeInv, IntentsExist, Answers
  <2> QED
    BY <1>0, <2>1, <2>4, <2>5 DEF SafeInv, RowsInv, SweepsInv
<1>9. ASSUME NEW o \in Orders, LateCall(o) PROVE SafeInv'
  <2>1. PICK c \in late :
          /\ stripe' = IF StripeAccepts(stripe[o], c.t)
                       THEN [stripe EXCEPT ![o] = StripeAfter(@, c.t)] ELSE stripe
          /\ UNCHANGED <<db, tx, account, runAt, sweep, faults>>
    BY <1>9 DEF LateCall
  <2>2. c.t \in Transitions /\ c.t.action # "none" /\ stripe \in [Orders -> StripeState]
    BY <2>1 DEF SafeInv, CoreInv, MoneyInFlight, TypeInv, TypeOK, StripeState
  <2>3. stripe[o].pi # "none" => StripeAfter(stripe[o], c.t).pi # "none"
    BY <2>2, IntentStays
  <2>4. \A u \in Orders : stripe[u].pi # "none" => stripe'[u].pi # "none"
    BY <2>1, <2>2, <2>3
  <2>5. \A x \in tx : x.order \in Orders
    BY DEF SafeInv, CoreInv, TypeInv, TypeOK, TxRecord
  <2>6. IntentsExist'
    BY <2>1, <2>4, <2>5 DEF SafeInv, IntentsExist, Answers
  <2> QED
    BY <1>0, <2>1, <2>6 DEF SafeInv, RowsInv, SweepsInv, CallersInv, RunsFor, TimerTransition
<1>10. ASSUME NEW o \in Orders, NEW t \in Transitions, NEW a \in Requesters, Request(o, t, a)
       PROVE SafeInv'
  <2>1. Begin(o, t, a, Client) /\ UNCHANGED <<db, stripe, sweep>> /\ a \in Actors
    BY <1>10, RequestersAssumption DEF Request
  <2>2. CallersInv' /\ IntentsExist'
    BY <2>1, BeginCallers, BeginIntents
  <2> QED
    BY <1>0, <2>1, <2>2 DEF SafeInv, RowsInv, SweepsInv
<1>11. ASSUME NEW o \in Orders, NEW s \in TimedStates, TimerDue(o, s) PROVE SafeInv'
  BY <1>0, <1>11 DEF TimerDue, SafeInv, RowsInv, IntentsExist, SweepsInv, CallersInv,
                     RunsFor, TimerTransition
<1>12. ASSUME NEW w \in Sweeps, Fetch(w) \/ CheckGuard(w) PROVE SafeInv'
  <2>1. SweepsInv' /\ CallersInv'
    BY <1>12, FetchHolds, GuardHolds
  <2> QED
    BY <1>0, <1>12, <2>1 DEF Fetch, CheckGuard, SafeInv, RowsInv, IntentsExist
<1>13. ASSUME NEW w \in Sweeps, MarkSkipped(w) \/ MarkFired(w) PROVE SafeInv'
  <2>1. PICK status \in {"skipped", "fired"} :
          /\ Mark(w, status) /\ sweep[w].pc \in {"skip", "fire"}
          /\ status = "fired" => sweep[w].pc = "fire"
    BY <1>13 DEF MarkSkipped, MarkFired
  <2>2. PICK r \in sweep[w].current :
          /\ db' = [db EXCEPT ![r.order].timers[r.guard] = status]
          /\ sweep' = [sweep EXCEPT ![w] = Finished(@)]
          /\ UNCHANGED <<tx, stripe, account, late, runAt, faults>>
    BY <2>1 DEF Mark
  <2>3. r \in RowId /\ Left(r, db) /\ (status = "fired" => Fired(r, db))
    BY <2>1, <2>2 DEF SafeInv, CoreInv, TypeInv, TypeOK, SweepsInv, Holds
  <2>4. RowsInv' /\ Grows(db, db') /\ \A o \in Orders : db'[o].pi = db[o].pi
    BY <2>2, <2>3, MarkRows
  <2>5. IntentsExist'
    BY <2>2, <2>4 DEF SafeInv, IntentsExist
  <2>6. CallersInv'
    BY <2>1, <2>2, SweepCallers
  <2>7. SweepsInv'
    <3>1. sweep \in [Sweeps -> SweepState]
      BY DEF SafeInv, CoreInv, TypeInv, TypeOK, SweepState
    <3>2. Holds(Finished(sweep[w]), db) /\ Finished(sweep[w]) \in SweepState
      BY <3>1, HoldsFinished, FinishedTyped DEF SafeInv, SweepsInv
    <3>3. \A v \in Sweeps : sweep'[v] \in SweepState /\ Holds(sweep'[v], db)
      BY <2>2, <3>1, <3>2 DEF SafeInv, SweepsInv
    <3>4. db \in [Orders -> Rows] /\ db' \in [Orders -> Rows]
      BY <1>0 DEF SafeInv, CoreInv, TypeInv, TypeOK
    <3> QED
      BY <2>4, <3>3, <3>4, HoldsGrows DEF SweepsInv
  <2> QED
    BY <1>0, <2>4, <2>5, <2>6, <2>7 DEF SafeInv
<1>14. ASSUME NEW w \in Sweeps, CallApply(w) PROVE SafeInv'
  <2>1. CallersInv'
    BY <1>14, CallCallers
  <2>2. PICK r \in sweep[w].current : Begin(r.order, TimerTransition(r), "system", w)
    BY <1>14 DEF CallApply
  <2>3. r.order \in Orders /\ TimerTransition(r) \in Transitions /\ "system" \in Actors
    BY <2>2, TimersFireHome DEF SafeInv, CoreInv, TypeInv, TypeOK, RowId, TimerTransition, Actors
  <2>4. UNCHANGED <<db, stripe>>
    BY <1>14 DEF CallApply
  <2>5. IntentsExist'
    BY <2>2, <2>3, <2>4, BeginIntents
  <2> DEFINE v == [sweep[w] EXCEPT !.pc = "applying"]
  <2>6. Holds(v, db) /\ sweep' = [sweep EXCEPT ![w] = v]
    BY <1>14 DEF CallApply, SafeInv, CoreInv, TypeInv, TypeOK, SweepsInv, Holds
  <2> HIDE DEF v
  <2>7. SweepsInv'
    BY <2>4, <2>6, SweepHolds
  <2> QED
    BY <1>0, <2>1, <2>4, <2>5, <2>7 DEF SafeInv, RowsInv
<1>15. ASSUME NEW w \in Sweeps, ApplyRefused(w) \/ Crash(w) PROVE SafeInv'
  <2>1. sweep \in [Sweeps -> SweepState] /\ Holds(sweep[w], db)
    BY DEF SafeInv, CoreInv, TypeInv, TypeOK, SweepState, SweepsInv
  <2>2. Holds(Finished(sweep[w]), db) /\ Holds(IdleSweep, db)
    <3>1. Holds(Finished(sweep[w]), db)
      BY <2>1, HoldsFinished
    <3>2. Holds(IdleSweep, db)
      BY DEF Holds, IdleSweep
    <3> QED
      BY <3>1, <3>2
  <2>3. PICK v \in {Finished(sweep[w]), IdleSweep} : sweep' = [sweep EXCEPT ![w] = v]
    BY <1>15 DEF ApplyRefused, Crash
  <2>4. UNCHANGED <<db, tx, stripe>> /\ sweep[w].pc # "applying"
    BY <1>15 DEF ApplyRefused, Crash
  <2>5. SweepsInv' /\ CallersInv'
    BY <2>2, <2>3, <2>4, SweepHolds, SweepCallers
  <2> QED
    BY <1>0, <2>4, <2>5 DEF SafeInv, RowsInv, IntentsExist
<1>16. ASSUME NEW w \in Sweeps, QueryFails(w) PROVE SafeInv'
  <2>1. /\ sweep[w] \in SweepState /\ Holds(sweep[w], db)
        /\ sweep[w].pc = "next" => sweep[w].batch # <<>>
    BY DEF SafeInv, CoreInv, TypeInv, TypeOK, SweepState, SweepsInv, BatchToRead
  <2> DEFINE v == Unread(sweep[w])
  <2>2. v \in SweepState /\ Holds(v, db)
    BY <2>1, UnreadTyped, HoldsUnread
  <2>3. /\ sweep' = [sweep EXCEPT ![w] = Finished(v)]
        /\ UNCHANGED <<db, tx, stripe>> /\ sweep[w].pc # "applying"
    BY <1>16 DEF QueryFails
  <2> HIDE DEF v
  <2>4. Holds(Finished(v), db)
    BY <2>2, HoldsFinished
  <2>5. SweepsInv' /\ CallersInv'
    BY <2>3, <2>4, SweepHolds, SweepCallers
  <2> QED
    BY <1>0, <2>3, <2>5 DEF SafeInv, RowsInv, IntentsExist
<1> QED
  BY <1>1, <1>2, <1>3, <1>4, <1>5, <1>6, <1>7, <1>8, <1>9, <1>10, <1>11, <1>12, <1>13,
     <1>14, <1>15, <1>16 DEF Next, TransactionStep, SweepStep

\* The inductive invariant holds in every behaviour.
THEOREM SafeInvariant == Spec => []SafeInv
  BY InitSafe, StepSafe, PTL DEF Spec

-----------------------------------------------------------------------------
(* The properties the invariant gives. *)

\* An order has a pending timer exactly for the timed state it is in, however many
\* sweeps overlap and whoever else acts.
THEOREM TimerIsLive == Spec => []LiveTimer
<1>1. SafeInv => LiveTimer
  BY DEF SafeInv, RowsInv, RowInv, TimersMatch, LiveTimer
<1> QED
  BY <1>1, SafeInvariant, PTL

\* The history of every order is one path of the process that visits no state twice.
THEOREM HistoryIsAPath == Spec => []HistoryIsPath
<1>1. ASSUME SafeInv, NEW o \in Orders
      PROVE  LET log == db[o].log IN
             /\ log = <<>> => db[o].state \in {NoOrder, "initial"}
             /\ log # <<>> => log[1].from = "initial" /\ log[Len(log)].to = db[o].state
             /\ \A i \in 1 .. Len(log) - 1 : log[i].to = log[i + 1].from
             /\ \A i, j \in 1 .. Len(log) : i < j => log[i].to # log[j].to
  <2>1. RowInv(db[o]) /\ db[o] \in Rows
    BY <1>1 DEF SafeInv, RowsInv, CoreInv, TypeInv, TypeOK
  <2>2. ASSUME NEW i \in 1 .. Len(db[o].log), NEW j \in 1 .. Len(db[o].log), i < j
        PROVE  db[o].log[i].to # db[o].log[j].to
    <3>1. Rank[db[o].log[i].to] < Rank[db[o].log[j].to]
      BY <2>1, <2>2 DEF RowInv, Climbing
    <3>2. Rank[db[o].log[i].to] \in 0 .. 13
      <4>1. db[o].log \in Seq(Entry)
        BY <2>1 DEF Rows
      <4>2. db[o].log[i] \in Entry
        BY <4>1
      <4> QED
        BY <4>2, RankNumbers DEF Entry, AllStates
    <3>3. \A x \in 0 .. 13 : ~(x < x)
      OBVIOUS
    <3> QED
      BY <3>1, <3>2, <3>3, Zenon
  <2> QED
    BY <2>1, <2>2 DEF RowInv, Path
<1>2. SafeInv => HistoryIsPath
  BY <1>1 DEF HistoryIsPath
<1> QED
  BY <1>2, SafeInvariant, PTL

\* A timer row marked fired has its transition, made by the system, in the history.
THEOREM FiredIsEffective == Spec => []FiredHasEffect
<1>1. SafeInv => FiredHasEffect
  BY DEF SafeInv, RowsInv, RowInv, FiredRows, InLog, FiredHasEffect
<1> QED
  BY <1>1, SafeInvariant, PTL

\* payout.released is in the outbox exactly once for a released order, and never
\* for another.
THEOREM PayoutAnnounced == Spec => []AnnouncedOnce
<1>1. SafeInv => AnnouncedOnce
  BY DEF SafeInv, RowsInv, RowInv, Announced, AnnouncedOnce
<1> QED
  BY <1>1, SafeInvariant, PTL

\* All payouts of an order carry the same idempotency key, so Stripe makes one
\* transfer of them.
THEOREM TransferIsUnique == Spec => []OneTransfer
<1>1. TypeOK => OneTransfer
  BY DEF TypeOK, OneTransfer, TransferKey, PayoutKey
<1> QED
  BY <1>1, TypeCorrect, PTL

-----------------------------------------------------------------------------
(* The money: what Stripe has moved is in the books, or about to be entered   *)
(* by an open transaction, or was asked for by one that is gone.              *)

\* A transaction that has moved money at Stripe and is not committed yet.
Moving(x) == x.phase = "called" /\ x.t.action \in {"payout", "refund-full"}

\* What the books say was moved, and what an open transaction is about to enter, Stripe moved.
Backed ==
  /\ \A o \in Orders :
       /\ db[o].payoutReleased => stripe[o].transfers # {}
       /\ db[o].state = "canceled" => stripe[o].refunded
  /\ \A x \in tx : Moving(x) =>
       /\ x.t.action = "payout" => stripe[x.order].transfers # {}
       /\ x.t.action = "refund-full" => stripe[x.order].refunded

\* Without a fault, what Stripe moved is in the books or about to be entered.
Entered ==
  faults = 0 =>
    /\ late = {}
    /\ \A o \in Orders :
         /\ stripe[o].transfers # {} =>
              \/ db[o].payoutReleased
              \/ \E x \in tx : x.order = o /\ Moving(x) /\ x.t.action = "payout"
         /\ stripe[o].refunded =>
              \/ db[o].state = "canceled"
              \/ \E x \in tx : x.order = o /\ Moving(x) /\ x.t.action = "refund-full"

MoneyInv == SafeInv /\ Backed /\ Entered

\* Stripe forgets no transfer and no refund, and makes one only for a transaction that asks.
LEMMA StripeKeeps ==
  ASSUME NEW s \in StripeState, NEW t \in Transitions, t.action # "none"
  PROVE  LET n == StripeAfter(s, t) IN
         /\ t.action = "payout" => n.transfers # {}
         /\ t.action # "payout" => n.transfers = s.transfers
         /\ s.transfers # {} => n.transfers # {}
         /\ t.action = "refund-full" => n.refunded
         /\ t.action # "refund-full" => n.refunded = s.refunded
         /\ s.refunded => n.refunded
<1>1. t.action \in MoneyActions
  BY TransitionsTyped
<1>2. CASE t.action = "create-payment-intent"
  BY <1>2 DEF StripeAfter, CreatePaymentIntent, StripeState
<1>3. CASE t.action = "confirm-capture"
  BY <1>3 DEF StripeAfter, ConfirmAndCapture, StripeState
<1>4. CASE t.action = "cancel-payment-intent"
  BY <1>4 DEF StripeAfter, CancelPaymentIntent, StripeState
<1>5. CASE t.action = "payout"
  BY <1>5 DEF StripeAfter, CreateTransfer, StripeState
<1>6. CASE t.action = "refund-full"
  BY <1>6 DEF StripeAfter, Refund, StripeState
<1> QED
  BY <1>1, <1>2, <1>3, <1>4, <1>5, <1>6 DEF MoneyActions

\* Types, for the steps below.
LEMMA MoneyTypes ==
  ASSUME SafeInv
  PROVE  /\ db \in [Orders -> Rows] /\ stripe \in [Orders -> StripeState]
         /\ tx \subseteq TxRecord /\ faults \in Nat
         /\ \A x \in tx : /\ x.order \in Orders /\ x.t \in Transitions
                          /\ x.t.action \in MoneyActions \cup {"none"}
                          /\ db[x.order].state \in x.t.from
         /\ \A x \in tx, y \in tx : x.order = y.order => x = y
         /\ \A x \in tx : x.phase = "locked" => x.t.action # "none"
         /\ \A c \in late : c.t \in Transitions /\ c.t.action # "none"
         /\ \A o \in Orders : Books(db[o]) /\ db[o].state # "received"
<1>1. /\ db \in [Orders -> Rows] /\ stripe \in [Orders -> StripeState]
      /\ tx \subseteq TxRecord /\ faults \in Nat
  BY DEF SafeInv, CoreInv, TypeInv, TypeOK, StripeState
<1>2. \A x \in tx : /\ x.order \in Orders /\ x.t \in Transitions
                    /\ x.t.action \in MoneyActions \cup {"none"}
                    /\ db[x.order].state \in x.t.from
  BY <1>1, TransitionsTyped DEF TxRecord, SafeInv, CoreInv, TypeInv, TxGuarded
<1>3. \A x \in tx, y \in tx : x.order = y.order => x = y
  BY DEF SafeInv, CoreInv, TypeInv, LockIsExclusive
<1>4. /\ \A x \in tx : x.phase = "locked" => x.t.action # "none"
      /\ \A c \in late : c.t \in Transitions /\ c.t.action # "none"
  BY DEF SafeInv, CoreInv, TypeInv, TypeOK, MoneyInFlight
<1>5. \A o \in Orders : Books(db[o]) /\ db[o].state # "received"
  BY DEF SafeInv, RowsInv, RowInv
<1> QED
  BY <1>1, <1>2, <1>3, <1>4, <1>5

\* A transaction that pays out or refunds has to call Stripe first.
LEMMA BeginMovesNothing ==
  ASSUME SafeInv, NEW o \in Orders, NEW t \in Transitions, NEW a, NEW by,
         Begin(o, t, a, by)
  PROVE  /\ \A x \in tx' : Moving(x) => x \in tx
         /\ tx \subseteq tx'
<1> DEFINE b == [order |-> o, t |-> t, actor |-> a, by |-> by,
                 phase |-> IF CallsGateway(db[o], t) THEN "locked" ELSE "called",
                 result |-> db[o].pi]
<1>1. tx' = tx \cup {b} /\ db[o].state \in t.from
  BY DEF Begin, MayApply
<1>2. Books(db[o])
  BY MoneyTypes
<1>3. t.action \in {"payout", "refund-full"} => CallsGateway(db[o], t)
  <2>1. ASSUME t.action = "payout" PROVE ~db[o].payoutReleased
    BY <2>1, <1>1, <1>2, MoneyInTheTable DEF Books
  <2>2. ASSUME t.action = "refund-full" PROVE db[o].pi # "none"
    BY <2>2, <1>1, <1>2, MoneyInTheTable, TransitionsTyped DEF Books, States, NoOrder
  <2> QED
    BY <2>1, <2>2 DEF CallsGateway
<1>4. ~Moving(b)
  BY <1>3 DEF Moving
<1> HIDE DEF b
<1> QED
  BY <1>1, <1>4

\* The steps that reach Stripe's money or the books.
Loud(o) == GatewayCall(o) \/ Commit(o) \/ LateCall(o)

\* All other steps move no money and enter none.
LEMMA QuietStep ==
  ASSUME SafeInv, [Next]_vars, \A o \in Orders : ~Loud(o)
  PROVE  /\ \A o \in Orders :
              /\ db'[o].payoutReleased = db[o].payoutReleased
              /\ db'[o].refunds = db[o].refunds
              /\ db'[o].state = "canceled" <=> db[o].state = "canceled"
              /\ stripe'[o].transfers = stripe[o].transfers
              /\ stripe'[o].refunded = stripe[o].refunded
         /\ \A x \in tx' : Moving(x) => x \in tx
         /\ faults' = 0 => /\ faults = 0 /\ late' = late
                           /\ \A x \in tx : Moving(x) => x \in tx'
<1> DEFINE Quiet ==
         /\ \A o \in Orders :
              /\ db'[o].payoutReleased = db[o].payoutReleased
              /\ db'[o].refunds = db[o].refunds
              /\ db'[o].state = "canceled" <=> db[o].state = "canceled"
              /\ stripe'[o].transfers = stripe[o].transfers
              /\ stripe'[o].refunded = stripe[o].refunded
         /\ \A x \in tx' : Moving(x) => x \in tx
         /\ faults' = 0 => /\ faults = 0 /\ late' = late
                           /\ \A x \in tx : Moving(x) => x \in tx'
<1>0. /\ db \in [Orders -> Rows] /\ stripe \in [Orders -> StripeState] /\ tx \subseteq TxRecord
      /\ faults \in Nat
  BY MoneyTypes
<1>1. CASE UNCHANGED vars
  BY <1>1 DEF vars
<1>2. ASSUME NEW o \in Orders, CreateOrder(o) PROVE Quiet
  <2>1. \A u \in Orders : /\ db'[u].payoutReleased = db[u].payoutReleased
                          /\ db'[u].refunds = db[u].refunds
                          /\ db'[u].state = "canceled" <=> db[u].state = "canceled"
    BY <1>0, <1>2 DEF CreateOrder, Rows, NoOrder
  <2> QED
    BY <1>2, <2>1 DEF CreateOrder
<1>3. ASSUME NEW o \in Orders, BuyerPays(o) PROVE Quiet
  <2>1. \A u \in Orders : /\ stripe'[u].transfers = stripe[u].transfers
                          /\ stripe'[u].refunded = stripe[u].refunded
    BY <1>0, <1>3 DEF BuyerPays, StripeState
  <2> QED
    BY <1>3, <2>1 DEF BuyerPays
<1>4. ASSUME NEW o \in Orders, SellerOnboards(o) PROVE Quiet
  BY <1>4 DEF SellerOnboards
<1>5. ASSUME NEW o \in Orders, GatewayRejects(o) PROVE Quiet
  <2>1. PICK x \in tx : x.phase = "locked" /\ tx' = tx \ {x}
    BY <1>5 DEF GatewayRejects
  <2>2. ~Moving(x)
    BY <2>1 DEF Moving
  <2> QED
    BY <1>5, <2>1, <2>2 DEF GatewayRejects
<1>6. ASSUME NEW o \in Orders, Abort(o) PROVE Quiet
  <2>1. faults' # 0 /\ UNCHANGED <<db, stripe>> /\ tx' \subseteq tx
    BY <1>0, <1>6 DEF Abort
  <2> QED
    BY <2>1
<1>7. ASSUME NEW o \in Orders, CancelLost(o) PROVE Quiet
  <2>1. PICK x \in tx : /\ x.t.action = "cancel-payment-intent"
                        /\ tx' = (tx \ {x}) \cup {[x EXCEPT !.phase = "called"]}
                        /\ faults' = faults + 1 /\ UNCHANGED <<db, stripe>>
    BY <1>7 DEF CancelLost
  <2>2. ~Moving([x EXCEPT !.phase = "called"])
    BY <1>0, <2>1 DEF Moving, TxRecord
  <2>3. \A y \in tx' : Moving(y) => y \in tx
    BY <2>1, <2>2
  <2> QED
    BY <1>0, <2>1, <2>3
<1>8. ASSUME NEW o \in Orders, NEW t \in Transitions, NEW a \in Requesters, Request(o, t, a)
      PROVE Quiet
  <2>1. Begin(o, t, a, Client) /\ UNCHANGED <<db, stripe, late, faults>>
    BY <1>8 DEF Request
  <2>2. (\A x \in tx' : Moving(x) => x \in tx) /\ tx \subseteq tx'
    BY <2>1, BeginMovesNothing
  <2> QED
    BY <2>1, <2>2
<1>9. ASSUME NEW o \in Orders, NEW s \in TimedStates, TimerDue(o, s) PROVE Quiet
  BY <1>9 DEF TimerDue
<1>10. ASSUME NEW w \in Sweeps, Fetch(w) \/ CheckGuard(w) \/ ApplyRefused(w) PROVE Quiet
  BY <1>10 DEF Fetch, CheckGuard, ApplyRefused
<1>11. ASSUME NEW w \in Sweeps, MarkSkipped(w) \/ MarkFired(w) PROVE Quiet
  <2>a. PICK status \in {"skipped", "fired"} : Mark(w, status)
    BY <1>11 DEF MarkSkipped, MarkFired
  <2>1. PICK r \in sweep[w].current : db' = [db EXCEPT ![r.order].timers[r.guard] = status]
    BY <2>a DEF Mark
  <2>2. UNCHANGED <<tx, stripe, late, faults>>
    BY <1>11 DEF MarkSkipped, MarkFired, Mark
  <2>3. \A u \in Orders : /\ db'[u].payoutReleased = db[u].payoutReleased
                          /\ db'[u].refunds = db[u].refunds
                          /\ db'[u].state = db[u].state
    BY <1>0, <2>1 DEF Rows
  <2> QED
    BY <2>2, <2>3
<1>12. ASSUME NEW w \in Sweeps, CallApply(w) PROVE Quiet
  <2>1. PICK r \in sweep[w].current : Begin(r.order, TimerTransition(r), "system", w)
    BY <1>12 DEF CallApply
  <2>2. r.order \in Orders /\ TimerTransition(r) \in Transitions
    BY <2>1, TimersFireHome DEF SafeInv, CoreInv, TypeInv, TypeOK, RowId, TimerTransition
  <2>3. (\A x \in tx' : Moving(x) => x \in tx) /\ tx \subseteq tx'
    BY <2>1, <2>2, BeginMovesNothing
  <2> QED
    BY <1>12, <2>3 DEF CallApply
<1>13. ASSUME NEW w \in Sweeps, QueryFails(w) \/ Crash(w) PROVE Quiet
  <2>1. faults' # 0 /\ UNCHANGED <<db, tx, stripe>>
    BY <1>0, <1>13 DEF QueryFails, Crash
  <2> QED
    BY <2>1
<1> QED
  BY <1>1, <1>2, <1>3, <1>4, <1>5, <1>6, <1>7, <1>8, <1>9, <1>10, <1>11, <1>12, <1>13
     DEF Next, TransactionStep, SweepStep, Loud

\* What a whole apply does to the books.
LEMMA ExecuteBooks ==
  ASSUME NEW r \in Rows, NEW t \in Transitions, NEW a \in Actors, NEW res \in PIStatus,
         RowInv(r), r.state \in t.from, Answers(t, res)
  PROVE  LET n == ExecuteWithin(r, t, a, res) IN
         /\ n.payoutReleased <=> (r.payoutReleased \/ t.action = "payout")
         /\ n.refunds = IF t.action = "refund-full" THEN r.refunds + 1 ELSE r.refunds
         /\ n.state = IF t.to \in DOMAIN ImmediateNext
                      THEN Named(ImmediateNext[t.to]).to ELSE t.to
         /\ n.state = "canceled" <=> t.action = "refund-full"
<1> DEFINE after == Written(r, t, a, res)
<1> DEFINE last == Written(after, Named("mark-completed"), "system", after.pi)
<1>1. /\ after.payoutReleased <=> (r.payoutReleased \/ t.action = "payout")
      /\ after.state = t.to
      /\ after.refunds = IF t.action = "refund-full" /\ r.pi # "none"
                         THEN r.refunds + 1 ELSE r.refunds
  BY DEF Written
<1>2. t.action = "refund-full" => r.pi # "none"
  BY MoneyInTheTable, TransitionsTyped DEF RowInv, Books, States, NoOrder
<1>3. t.action = "refund-full" <=> t.to = "canceled"
  BY MoneyInTheTable
<1>4. CASE t.to \notin DOMAIN ImmediateNext
  BY <1>1, <1>2, <1>3, <1>4 DEF ExecuteWithin
<1>5. CASE t.to \in DOMAIN ImmediateNext
  <2>1. t.to = "received" /\ ImmediateNext[t.to] = "mark-completed"
    BY <1>5 DEF ImmediateNext
  <2>2. ExecuteWithin(r, t, a, res) = last
    BY <1>5, <2>1 DEF ExecuteWithin
  <2> HIDE DEF after
  <2>3. Named("mark-completed").action = "none" /\ Named("mark-completed").to = "completed"
    BY ImmediateIsCompletion
  <2>4. /\ last.payoutReleased <=> after.payoutReleased
        /\ last.refunds = after.refunds
        /\ last.state = "completed"
    BY <2>3 DEF Written
  <2> HIDE DEF last
  <2> QED
    BY <1>1, <1>2, <1>3, <1>5, <2>1, <2>2, <2>3, <2>4
<1> QED
  BY <1>4, <1>5

\* A call that a transaction waits for is answered.
LEMMA CallStep ==
  ASSUME MoneyInv, NEW o \in Orders, GatewayCall(o)
  PROVE  Backed' /\ Entered'
<1>1. PICK x \in tx :
        /\ x.order = o /\ x.phase = "locked"
        /\ stripe' = [stripe EXCEPT ![o] = StripeAfter(@, x.t)]
        /\ tx' = (tx \ {x}) \cup {[x EXCEPT !.phase = "called", !.result = stripe'[o].pi]}
        /\ UNCHANGED <<db, late, faults>>
  BY DEF GatewayCall
<1> DEFINE y == [x EXCEPT !.phase = "called", !.result = stripe'[o].pi]
<1>0. SafeInv /\ Backed /\ Entered
  BY DEF MoneyInv
<1>2. /\ stripe \in [Orders -> StripeState] /\ x \in TxRecord /\ x.t.action # "none"
      /\ x.t \in Transitions
      /\ \A z \in tx : z.order \in Orders /\ (z.order = o => z = x)
  BY <1>0, <1>1, MoneyTypes
<1>3. y.order = o /\ y.t = x.t /\ y.phase = "called"
  BY <1>1, <1>2 DEF TxRecord
<1> HIDE DEF y
<1>4. tx' = (tx \ {x}) \cup {y}
  BY <1>1 DEF y
<1> DEFINE s == stripe[o]
<1> DEFINE n == StripeAfter(s, x.t)
<1>5. stripe'[o] = n /\ \A u \in Orders : u # o => stripe'[u] = stripe[u]
  BY <1>1, <1>2
<1>6. /\ x.t.action = "payout" => n.transfers # {}
      /\ x.t.action # "payout" => n.transfers = s.transfers
      /\ s.transfers # {} => n.transfers # {}
      /\ x.t.action = "refund-full" => n.refunded
      /\ x.t.action # "refund-full" => n.refunded = s.refunded
      /\ s.refunded => n.refunded
  BY <1>2, StripeKeeps
<1> HIDE DEF n, s
<1>7. ~Moving(x)
  BY <1>1 DEF Moving
<1>8. \A u \in Orders : /\ stripe[u].transfers # {} => stripe'[u].transfers # {}
                        /\ stripe[u].refunded => stripe'[u].refunded
  BY <1>5, <1>6 DEF s
<1>9. Backed'
  <2>1. ASSUME NEW z \in tx', Moving(z)
        PROVE  /\ z.t.action = "payout" => stripe'[z.order].transfers # {}
               /\ z.t.action = "refund-full" => stripe'[z.order].refunded
    <3>1. CASE z = y
      BY <3>1, <1>3, <1>5, <1>6
    <3>2. CASE z # y
      BY <3>2, <2>1, <1>0, <1>2, <1>4, <1>8 DEF Backed
    <3> QED
      BY <3>1, <3>2
  <2> QED
    BY <2>1, <1>0, <1>1, <1>8 DEF Backed, Moving
<1>10. Entered'
  <2> SUFFICES ASSUME faults' = 0 PROVE
        /\ late' = {}
        /\ \A u \in Orders :
             /\ stripe'[u].transfers # {} =>
                  \/ db'[u].payoutReleased
                  \/ \E z \in tx' : z.order = u /\ Moving(z) /\ z.t.action = "payout"
             /\ stripe'[u].refunded =>
                  \/ db'[u].state = "canceled"
                  \/ \E z \in tx' : z.order = u /\ Moving(z) /\ z.t.action = "refund-full"
    BY DEF Entered, Moving
  <2>1. /\ late = {} /\ faults = 0
    BY <1>0, <1>1 DEF Entered
  <2>2. \A z \in tx : Moving(z) => z \in tx'
    BY <1>4, <1>7
  <2>3. ASSUME NEW u \in Orders, stripe'[u].transfers # {}
        PROVE  \/ db[u].payoutReleased
               \/ \E z \in tx' : z.order = u /\ Moving(z) /\ z.t.action = "payout"
    <3>1. CASE stripe[u].transfers # {}
      BY <3>1, <2>1, <2>2, <1>0 DEF Entered
    <3>2. CASE stripe[u].transfers = {}
      <4>1. u = o /\ x.t.action = "payout"
        BY <3>2, <2>3, <1>5, <1>6 DEF s
      <4> QED
        BY <4>1, <1>3, <1>4 DEF Moving
    <3> QED
      BY <3>1, <3>2
  <2>4. ASSUME NEW u \in Orders, stripe'[u].refunded
        PROVE  \/ db[u].state = "canceled"
               \/ \E z \in tx' : z.order = u /\ Moving(z) /\ z.t.action = "refund-full"
    <3>1. CASE stripe[u].refunded
      BY <3>1, <2>1, <2>2, <1>0 DEF Entered
    <3>2. CASE ~stripe[u].refunded
      <4>1. u = o /\ x.t.action = "refund-full"
        BY <3>2, <2>4, <1>5, <1>6 DEF s
      <4> QED
        BY <4>1, <1>3, <1>4 DEF Moving
    <3> QED
      BY <3>1, <3>2
  <2> QED
    BY <2>1, <2>3, <2>4, <1>1
<1> QED
  BY <1>9, <1>10

\* A commit enters what its transaction moved.
LEMMA CommitStep ==
  ASSUME MoneyInv, NEW o \in Orders, Commit(o)
  PROVE  Backed' /\ Entered'
<1>0. SafeInv /\ Backed /\ Entered
  BY DEF MoneyInv
<1>1. PICK x \in tx :
        /\ x.order = o /\ x.phase = "called"
        /\ db' = [db EXCEPT ![o] = ExecuteWithin(@, x.t, x.actor, x.result)]
        /\ tx' = tx \ {x}
        /\ UNCHANGED <<stripe, late, faults>>
  BY DEF Commit
<1> DEFINE r == db[o]
<1> DEFINE n == ExecuteWithin(r, x.t, x.actor, x.result)
<1>2. /\ db \in [Orders -> Rows] /\ x.t \in Transitions /\ r.state \in x.t.from
      /\ \A z \in tx : z.order \in Orders /\ (z.order = o => z = x)
  BY <1>0, <1>1, MoneyTypes
<1>3. /\ r \in Rows /\ x.actor \in Actors /\ x.result \in PIStatus
      /\ RowInv(r) /\ Answers(x.t, x.result)
  BY <1>0, <1>1 DEF SafeInv, CoreInv, TypeInv, TypeOK, TxRecord, RowsInv, IntentsExist
<1>4. /\ n.payoutReleased <=> (r.payoutReleased \/ x.t.action = "payout")
      /\ n.state = "canceled" <=> x.t.action = "refund-full"
  BY <1>2, <1>3, ExecuteBooks
<1>5. r.state # "canceled"
  BY <1>2, MoneyInTheTable
<1> HIDE DEF n, r
<1>6. db'[o] = n /\ \A u \in Orders : u # o => db'[u] = db[u]
  BY <1>1, <1>2 DEF n, r
<1>7. x.t.action \in {"payout", "refund-full"} <=> Moving(x)
  BY <1>1 DEF Moving
<1>8. Backed'
  BY <1>0, <1>1, <1>4, <1>6, <1>7 DEF Backed, Moving, r
<1>9. Entered'
  <2>1. ASSUME faults = 0, NEW u \in Orders, stripe[u].transfers # {}
        PROVE  \/ db'[u].payoutReleased
               \/ \E z \in tx' : z.order = u /\ Moving(z) /\ z.t.action = "payout"
    BY <2>1, <1>0, <1>1, <1>2, <1>4, <1>6 DEF Entered, r
  <2>2. ASSUME faults = 0, NEW u \in Orders, stripe[u].refunded
        PROVE  \/ db'[u].state = "canceled"
               \/ \E z \in tx' : z.order = u /\ Moving(z) /\ z.t.action = "refund-full"
    BY <2>2, <1>0, <1>1, <1>2, <1>4, <1>5, <1>6 DEF Entered, r
  <2> QED
    BY <2>1, <2>2, <1>0, <1>1 DEF Entered, Moving
<1> QED
  BY <1>8, <1>9

\* A late call can only add to what Stripe moved, and there is none without a fault.
LEMMA LateStep ==
  ASSUME MoneyInv, NEW o \in Orders, LateCall(o)
  PROVE  Backed' /\ Entered'
<1>0. SafeInv /\ Backed /\ Entered
  BY DEF MoneyInv
<1>1. PICK c \in late :
        /\ c.order = o
        /\ stripe' = IF StripeAccepts(stripe[o], c.t)
                     THEN [stripe EXCEPT ![o] = StripeAfter(@, c.t)] ELSE stripe
        /\ UNCHANGED <<db, tx, faults>>
  BY DEF LateCall
<1>2. /\ c.t \in Transitions /\ c.t.action # "none" /\ stripe \in [Orders -> StripeState]
      /\ \A x \in tx : x.order \in Orders
  BY <1>0, <1>1, MoneyTypes
<1>3. /\ stripe[o].transfers # {} => StripeAfter(stripe[o], c.t).transfers # {}
      /\ stripe[o].refunded => StripeAfter(stripe[o], c.t).refunded
  BY <1>2, StripeKeeps
<1>4. \A u \in Orders : /\ stripe[u].transfers # {} => stripe'[u].transfers # {}
                        /\ stripe[u].refunded => stripe'[u].refunded
  BY <1>1, <1>2, <1>3
<1>5. Backed'
  BY <1>0, <1>1, <1>2, <1>4 DEF Backed, Moving
<1>6. Entered'
  BY <1>0, <1>1 DEF Entered
<1> QED
  BY <1>5, <1>6

\* Every step preserves the invariant of the money.
LEMMA StepMoney == MoneyInv /\ [Next]_vars => MoneyInv'
<1> SUFFICES ASSUME MoneyInv, [Next]_vars PROVE MoneyInv'
  OBVIOUS
<1>0. SafeInv /\ Backed /\ Entered /\ SafeInv'
  BY StepSafe DEF MoneyInv
<1>1. CASE \E o \in Orders : Loud(o)
  BY <1>0, <1>1, CallStep, CommitStep, LateStep DEF Loud, MoneyInv
<1>2. CASE \A o \in Orders : ~Loud(o)
  <2>1. \A o \in Orders : /\ db'[o].payoutReleased = db[o].payoutReleased
                          /\ db'[o].state = "canceled" <=> db[o].state = "canceled"
                          /\ stripe'[o].transfers = stripe[o].transfers
                          /\ stripe'[o].refunded = stripe[o].refunded
    BY <1>0, <1>2, QuietStep
  <2>2. \A x \in tx' : Moving(x) => x \in tx
    BY <1>0, <1>2, QuietStep
  <2>3. faults' = 0 => /\ faults = 0 /\ late' = late
                       /\ \A x \in tx : Moving(x) => x \in tx'
    BY <1>0, <1>2, QuietStep
  <2>4. \A x \in tx : x.order \in Orders
    BY <1>0, MoneyTypes
  <2>5. Backed'
    BY <2>1, <2>2, <2>4, <1>0 DEF Backed, Moving
  <2>6. Entered'
    BY <2>1, <2>3, <1>0 DEF Entered, Moving
  <2> QED
    BY <2>5, <2>6, <1>0 DEF MoneyInv
<1> QED
  BY <1>1, <1>2

\* The books and Stripe agree up to the transactions under way, in every behaviour.
THEOREM MoneyInvariant == Spec => []MoneyInv
<1>1. Init => MoneyInv
  <2>1. Init => Backed /\ Entered
    BY DEF Init, Backed, Entered, NoRows, NoOrder
  <2> QED
    BY <2>1, InitSafe DEF MoneyInv
<1> QED
  BY <1>1, StepMoney, PTL DEF Spec

\* What the books say was done with the money, Stripe did: completed orders are paid out,
\* canceled ones refunded once, and no order rests between payout and completion.
THEOREM BooksBacked == Spec => []BooksAreBacked
<1>1. MoneyInv => BooksAreBacked
  <2> SUFFICES ASSUME MoneyInv, NEW o \in Orders
               PROVE  /\ db[o].payoutReleased <=> db[o].state \in {"completed", "reviewed"}
                      /\ db[o].payout <=> db[o].payoutReleased
                      /\ db[o].payoutReleased => stripe[o].transfers # {}
                      /\ db[o].refunds = (IF db[o].state = "canceled" THEN 1 ELSE 0)
                      /\ db[o].state = "canceled" => stripe[o].refunded
    BY DEF BooksAreBacked
  <2>1. Books(db[o]) /\ db[o].state # "received"
    BY MoneyTypes DEF MoneyInv
  <2> QED
    BY <2>1 DEF Books, PaidOut, MoneyInv, Backed
<1> QED
  BY <1>1, MoneyInvariant, PTL

\* Without a fault, money leaves escrow one way only.
THEOREM SettledOneWay == Spec => []SettledOnce
<1>1. MoneyInv => SettledOnce
  <2> SUFFICES ASSUME MoneyInv, faults = 0, NEW o \in Orders,
                      stripe[o].transfers # {}, stripe[o].refunded
               PROVE  FALSE
    BY DEF SettledOnce
  <2>1. /\ \/ db[o].payoutReleased
           \/ \E x \in tx : x.order = o /\ x.t.action = "payout"
        /\ \/ db[o].state = "canceled"
           \/ \E x \in tx : x.order = o /\ x.t.action = "refund-full"
    BY DEF MoneyInv, Entered
  <2>2. /\ db[o].payoutReleased <=> db[o].state \in PaidOut
        /\ \A x \in tx : /\ x.t \in Transitions
                         /\ x.order = o => db[o].state \in x.t.from
                         /\ \A y \in tx : x.order = y.order => x = y
    BY MoneyTypes DEF MoneyInv, Books
  <2>3. ASSUME NEW x \in tx, x.order = o PROVE
          /\ db[o].state # "canceled"
          /\ x.t.action \in {"payout", "refund-full"} => db[o].state \notin PaidOut
    BY <2>2, <2>3, MoneyInTheTable
  <2>4. db[o].state = "canceled" => db[o].state \notin PaidOut
    BY DEF PaidOut
  <2> QED
    BY <2>1, <2>2, <2>3, <2>4
<1> QED
  BY <1>1, MoneyInvariant, PTL

\* Once the payout is released no refund reaches Stripe, and once an order is canceled no
\* transfer does, except through a request of an aborted transaction.
THEOREM PayoutIsFinal == Spec => PointOfNoReturn
<1>1. ASSUME SafeInv, [Next]_vars, NEW o \in Orders, \A c \in late : c.order # o
      PROVE  /\ db[o].payoutReleased => stripe'[o].refunded = stripe[o].refunded
             /\ db[o].state = "canceled" => stripe'[o].transfers = stripe[o].transfers
  <2>0. stripe \in [Orders -> StripeState]
    BY <1>1, MoneyTypes
  <2>1. ASSUME NEW u \in Orders, GatewayCall(u)
        PROVE  /\ db[o].payoutReleased => stripe'[o].refunded = stripe[o].refunded
               /\ db[o].state = "canceled" => stripe'[o].transfers = stripe[o].transfers
    <3>1. PICK x \in tx : /\ x.order = u /\ x.phase = "locked"
                          /\ stripe' = [stripe EXCEPT ![u] = StripeAfter(@, x.t)]
      BY <2>1 DEF GatewayCall
    <3>2. CASE u # o
      BY <3>1, <3>2, <2>0
    <3>3. CASE u = o
      <4>1. /\ x.t \in Transitions /\ x.t.action # "none" /\ db[o].state \in x.t.from
            /\ Books(db[o])
        BY <1>1, <3>1, <3>3, MoneyTypes
      <4>2. /\ db[o].state # "canceled"
            /\ x.t.action = "refund-full" => db[o].state \notin PaidOut
        BY <4>1, MoneyInTheTable
      <4>3. x.t.action # "refund-full" =>
              StripeAfter(stripe[o], x.t).refunded = stripe[o].refunded
        BY <2>0, <4>1, StripeKeeps
      <4>4. stripe'[o] = StripeAfter(stripe[o], x.t)
        BY <3>1, <3>3, <2>0
      <4> QED
        BY <4>1, <4>2, <4>3, <4>4 DEF Books
    <3> QED
      BY <3>2, <3>3
  <2>2. ASSUME NEW u \in Orders, Commit(u) PROVE stripe' = stripe
    BY <2>2 DEF Commit
  <2>3. ASSUME NEW u \in Orders, LateCall(u) PROVE stripe'[o] = stripe[o]
    BY <2>0, <2>3, <1>1 DEF LateCall
  <2>4. CASE \A u \in Orders : ~Loud(u)
    BY <1>1, <2>4, QuietStep
  <2> QED
    BY <2>1, <2>2, <2>3, <2>4 DEF Loud
<1>2. SafeInv /\ [Next]_vars =>
        \A o \in Orders :
          (\A c \in late : c.order # o) =>
            /\ db[o].payoutReleased => stripe'[o].refunded = stripe[o].refunded
            /\ db[o].state = "canceled" => stripe'[o].transfers = stripe[o].transfers
  BY <1>1
<1> QED
  BY <1>2, SafeInvariant, PTL DEF Spec, PointOfNoReturn

-----------------------------------------------------------------------------
(* The engine implements OrderLifecycle. *)

\* A transaction under way was asked for by a caller or is the timer of some state.
Asked ==
  \A x \in tx : x.actor \in Requesters \/ \E s \in TimedStates : x.t = Named(StateTimers[s])

RefinesInv == SafeInv /\ Asked

\* Every step keeps who asked.
LEMMA StepAsked == RefinesInv /\ [Next]_vars => RefinesInv'
<1> SUFFICES ASSUME RefinesInv, [Next]_vars PROVE Asked'
  BY StepSafe DEF RefinesInv
<1>0. SafeInv /\ Asked /\ tx \subseteq TxRecord
  BY MoneyTypes DEF RefinesInv
<1>1. CASE UNCHANGED vars
  BY <1>0, <1>1 DEF vars, Asked
<1>2. ASSUME NEW o \in Orders,
             \/ CreateOrder(o) \/ BuyerPays(o) \/ SellerOnboards(o) \/ LateCall(o)
             \/ GatewayRejects(o) \/ Commit(o) \/ Abort(o)
      PROVE  Asked'
  <2>1. tx' \subseteq tx
    BY <1>2 DEF CreateOrder, BuyerPays, SellerOnboards, LateCall, GatewayRejects, Commit, Abort
  <2> QED
    BY <2>1, <1>0 DEF Asked
<1>3. ASSUME NEW o \in Orders, GatewayCall(o) \/ CancelLost(o) PROVE Asked'
  <2>1. PICK x \in tx :
          \E y : tx' = (tx \ {x}) \cup {y} /\ y.actor = x.actor /\ y.t = x.t
    <3>1. CASE GatewayCall(o)
      <4>1. PICK x \in tx :
              tx' = (tx \ {x}) \cup {[x EXCEPT !.phase = "called", !.result = stripe'[o].pi]}
        BY <3>1 DEF GatewayCall
      <4> DEFINE y == [x EXCEPT !.phase = "called", !.result = stripe'[o].pi]
      <4>2. y.actor = x.actor /\ y.t = x.t
        BY <1>0 DEF TxRecord
      <4> HIDE DEF y
      <4> QED
        BY <4>1, <4>2 DEF y
    <3>2. CASE CancelLost(o)
      <4>1. PICK x \in tx : tx' = (tx \ {x}) \cup {[x EXCEPT !.phase = "called"]}
        BY <3>2 DEF CancelLost
      <4> DEFINE y == [x EXCEPT !.phase = "called"]
      <4>2. y.actor = x.actor /\ y.t = x.t
        BY <1>0 DEF TxRecord
      <4> HIDE DEF y
      <4> QED
        BY <4>1, <4>2 DEF y
    <3> QED
      BY <1>3, <3>1, <3>2
  <2> QED
    BY <2>1, <1>0 DEF Asked
<1>4. ASSUME NEW o \in Orders, NEW t \in Transitions, NEW a \in Requesters, Request(o, t, a)
      PROVE  Asked'
  <2>1. PICK b : b.actor = a /\ tx' = tx \cup {b}
    BY <1>4, BeginAdds DEF Request
  <2> QED
    BY <2>1, <1>0 DEF Asked
<1>5. ASSUME NEW o \in Orders, NEW s \in TimedStates, TimerDue(o, s) PROVE Asked'
  BY <1>0, <1>5 DEF TimerDue, Asked
<1>6. ASSUME NEW w \in Sweeps, CallApply(w) PROVE Asked'
  <2>1. PICK r \in sweep[w].current : Begin(r.order, TimerTransition(r), "system", w)
    BY <1>6 DEF CallApply
  <2>2. r.guard \in TimedStates
    BY <2>1, <1>0 DEF SafeInv, CoreInv, TypeInv, TypeOK, RowId
  <2>3. PICK b : b.t = TimerTransition(r) /\ tx' = tx \cup {b}
    BY <2>1, BeginAdds
  <2> QED
    BY <2>2, <2>3, <1>0 DEF Asked, TimerTransition
<1>7. ASSUME NEW w \in Sweeps,
             \/ Fetch(w) \/ CheckGuard(w) \/ MarkSkipped(w) \/ MarkFired(w)
             \/ ApplyRefused(w) \/ QueryFails(w) \/ Crash(w)
      PROVE  Asked'
  <2>1. UNCHANGED tx
    BY <1>7 DEF Fetch, CheckGuard, MarkSkipped, MarkFired, Mark, ApplyRefused, QueryFails, Crash
  <2> QED
    BY <2>1, <1>0 DEF Asked
<1> QED
  BY <1>1, <1>2, <1>3, <1>4, <1>5, <1>6, <1>7 DEF Next, TransactionStep, SweepStep

\* The abstract specification reads the same table.
LEMMA SameTable ==
  /\ Lifecycle!Transitions = Transitions
  /\ Lifecycle!TimedStates = TimedStates
  /\ Lifecycle!NoOrder = NoOrder
  /\ Lifecycle!StateTimers = StateTimers
  /\ Lifecycle!ImmediateNext = ImmediateNext
  /\ \A n : Lifecycle!Named(n) = Named(n)
<1>1. Lifecycle!Transitions = Transitions
  BY DEF Lifecycle!Transitions, Lifecycle!TransitionDef, Transitions, TransitionDef
<1>2. Lifecycle!TimedStates = TimedStates /\ Lifecycle!NoOrder = NoOrder
  BY DEF Lifecycle!TimedStates, TimedStates, Lifecycle!NoOrder, NoOrder
<1>3. Lifecycle!StateTimers = StateTimers /\ Lifecycle!ImmediateNext = ImmediateNext
  BY DEF Lifecycle!StateTimers, StateTimers, Lifecycle!ImmediateNext, ImmediateNext,
         Lifecycle!TimedStates, TimedStates
<1>4. \A n : Lifecycle!Named(n) = Named(n)
  BY <1>1 DEF Lifecycle!Named, Named
<1> QED
  BY <1>1, <1>2, <1>3, <1>4

\* A placed order.
LEMMA PlaceRefines ==
  ASSUME SafeInv, NEW o \in Orders, CreateOrder(o)
  PROVE  Lifecycle!Place(o)
<1>1. db \in [Orders -> Rows] /\ db[o].state = NoOrder
      /\ db' = [db EXCEPT ![o] = [db[o] EXCEPT !.state = "initial"]]
  BY MoneyTypes DEF CreateOrder
<1>2. /\ db'[o].state = "initial" /\ db'[o].timers = db[o].timers
      /\ db'[o].payoutReleased = db[o].payoutReleased /\ db'[o].refunds = db[o].refunds
      /\ \A u \in Orders : u # o => db'[u] = db[u]
  BY <1>1 DEF Rows
<1>3. \A u \in Orders : /\ db'[u].timers = db[u].timers /\ db'[u].refunds = db[u].refunds
                        /\ db'[u].payoutReleased = db[u].payoutReleased
  BY <1>2
<1>4. [u \in Orders |-> db'[u].state] = [[u \in Orders |-> db[u].state] EXCEPT ![o] = "initial"]
  BY <1>2
<1> QED
  BY <1>1, <1>3, <1>4, SameTable DEF Lifecycle!Place

\* A commit is one step of the lifecycle, of the party that asked or of the timer.
LEMMA CommitRefines ==
  ASSUME RefinesInv, NEW o \in Orders, Commit(o)
  PROVE  \/ \E t \in Transitions : Lifecycle!Ask(o, t)
         \/ \E s \in TimedStates : Lifecycle!FireTimer(o, s)
<1>0. SafeInv /\ Asked /\ SafeInv'
  BY StepSafe DEF RefinesInv, Next, TransactionStep
<1>1. PICK x \in tx :
        /\ x.order = o /\ x.phase = "called"
        /\ db' = [db EXCEPT ![o] = ExecuteWithin(@, x.t, x.actor, x.result)]
  BY DEF Commit
<1> DEFINE r == db[o]
<1> DEFINE n == ExecuteWithin(r, x.t, x.actor, x.result)
<1>2. /\ db \in [Orders -> Rows] /\ x.t \in Transitions /\ r.state \in x.t.from
  BY <1>0, <1>1, MoneyTypes
<1>3. /\ r \in Rows /\ x.actor \in Actors /\ x.result \in PIStatus /\ x.actor \in x.t.actor
      /\ RowInv(r) /\ Answers(x.t, x.result)
  BY <1>0, <1>1 DEF SafeInv, CoreInv, TypeInv, TypeOK, TxGuarded, TxRecord, RowsInv, IntentsExist
<1>4. /\ n.payoutReleased <=> (r.payoutReleased \/ x.t.action = "payout")
      /\ n.refunds = IF x.t.action = "refund-full" THEN r.refunds + 1 ELSE r.refunds
      /\ n.state = IF x.t.to \in DOMAIN ImmediateNext
                   THEN Named(ImmediateNext[x.t.to]).to ELSE x.t.to
      /\ RowInv(n) /\ n \in Rows
  BY <1>2, <1>3, ExecuteBooks, ExecuteInv
<1> HIDE DEF n, r
<1>5. db'[o] = n /\ \A u \in Orders : u # o => db'[u] = db[u]
  BY <1>1, <1>2 DEF n, r
<1>6. n.state = Lifecycle!Final(x.t)
  BY <1>4, SameTable DEF Lifecycle!Final
<1>7. {s \in TimedStates : n.timers[s] = "pending"} = {n.state} \cap TimedStates
  BY <1>4 DEF RowInv, TimersMatch
<1>8. Lifecycle!Move(o, x.t)
  <2>1. [u \in Orders |-> db'[u].state]
          = [[u \in Orders |-> db[u].state] EXCEPT ![o] = Lifecycle!Final(x.t)]
    BY <1>5, <1>6
  <2>2. [u \in Orders |-> {s \in TimedStates : db'[u].timers[s] = "pending"}]
          = [[u \in Orders |-> {s \in TimedStates : db[u].timers[s] = "pending"}]
               EXCEPT ![o] = {Lifecycle!Final(x.t)} \cap TimedStates]
    <3> DEFINE live(row) == {s \in TimedStates : row.timers[s] = "pending"}
    <3>1. live(db'[o]) = {Lifecycle!Final(x.t)} \cap TimedStates
      BY <1>5, <1>6, <1>7
    <3>2. \A u \in Orders : u # o => live(db'[u]) = live(db[u])
      BY <1>5
    <3> HIDE DEF live
    <3>3. [u \in Orders |-> live(db'[u])]
            = [[u \in Orders |-> live(db[u])] EXCEPT ![o] = {Lifecycle!Final(x.t)} \cap TimedStates]
      BY <3>1, <3>2
    <3> QED
      BY <3>3 DEF live
  <2>3. n.payoutReleased = (r.payoutReleased \/ x.t.action = "payout")
    BY <1>3, <1>4 DEF Rows
  <2>4. [u \in Orders |-> db'[u].payoutReleased]
          = [[u \in Orders |-> db[u].payoutReleased]
               EXCEPT ![o] = @ \/ x.t.action = "payout"]
    BY <1>5, <2>3 DEF r
  <2>5. [u \in Orders |-> db'[u].refunds]
          = [[u \in Orders |-> db[u].refunds]
               EXCEPT ![o] = IF x.t.action = "refund-full" THEN @ + 1 ELSE @]
    BY <1>5, <1>4 DEF r
  <2> QED
    BY <2>1, <2>2, <2>4, <2>5, <1>2, SameTable DEF Lifecycle!Move, r
<1>9. CASE x.actor \in Requesters
  BY <1>2, <1>3, <1>8, <1>9 DEF Lifecycle!Ask
<1>10. CASE \E s \in TimedStates : x.t = Named(StateTimers[s])
  <2>1. PICK s \in TimedStates : x.t = Named(StateTimers[s])
    BY <1>10
  <2>2. r.state = s /\ r.timers[s] = "pending"
    BY <2>1, <1>2, <1>3, TimersFireHome DEF RowInv, TimersMatch
  <2> QED
    BY <2>1, <2>2, <1>8, SameTable DEF Lifecycle!FireTimer, r
<1> QED
  BY <1>0, <1>9, <1>10 DEF Asked

\* A mark on a timer row that is not the live one cannot be seen.
LEMMA MarkRefines ==
  ASSUME SafeInv, NEW w \in Sweeps, MarkSkipped(w) \/ MarkFired(w)
  PROVE  UNCHANGED Lifecycle!lvars
<1>1. SafeInv'
  BY StepSafe DEF Next, SweepStep
<1>2. PICK status \in {"skipped", "fired"} : Mark(w, status)
  BY DEF MarkSkipped, MarkFired
<1>3. PICK r \in sweep[w].current : db' = [db EXCEPT ![r.order].timers[r.guard] = status]
  BY <1>2 DEF Mark
<1>4. \A u \in Orders : /\ db'[u].state = db[u].state /\ db'[u].refunds = db[u].refunds
                        /\ db'[u].payoutReleased = db[u].payoutReleased
  BY <1>3, MoneyTypes DEF Rows
<1>5. \A u \in Orders : {s \in TimedStates : db'[u].timers[s] = "pending"}
                          = {s \in TimedStates : db[u].timers[s] = "pending"}
  BY <1>1, <1>4 DEF SafeInv, RowsInv, RowInv, TimersMatch
<1> QED
  BY <1>4, <1>5, SameTable DEF Lifecycle!lvars

\* Every other step leaves the rows of the orders as they are.
LEMMA StepRefines == RefinesInv /\ [Next]_vars => [Lifecycle!Next]_(Lifecycle!lvars)
<1> SUFFICES ASSUME RefinesInv, [Next]_vars PROVE [Lifecycle!Next]_(Lifecycle!lvars)
  OBVIOUS
<1>0. SafeInv
  BY DEF RefinesInv
<1>1. ASSUME UNCHANGED db PROVE UNCHANGED Lifecycle!lvars
  BY <1>1 DEF Lifecycle!lvars
<1>2. ASSUME NEW o \in Orders, CreateOrder(o) PROVE Lifecycle!Next
  BY <1>0, <1>2, PlaceRefines DEF Lifecycle!Next
<1>3. ASSUME NEW o \in Orders, Commit(o) PROVE Lifecycle!Next
  BY <1>3, CommitRefines, SameTable DEF Lifecycle!Next
<1>4. ASSUME NEW w \in Sweeps, MarkSkipped(w) \/ MarkFired(w) PROVE UNCHANGED Lifecycle!lvars
  BY <1>0, <1>4, MarkRefines
<1>5. ASSUME NEW o \in Orders,
             \/ BuyerPays(o) \/ SellerOnboards(o) \/ LateCall(o) \/ Abort(o)
             \/ GatewayCall(o) \/ GatewayRejects(o) \/ CancelLost(o)
             \/ \E t \in Transitions, a \in Requesters : Request(o, t, a)
             \/ \E s \in TimedStates : TimerDue(o, s)
      PROVE  UNCHANGED db
  BY <1>5 DEF BuyerPays, SellerOnboards, LateCall, Abort, GatewayCall, GatewayRejects,
              CancelLost, Request, TimerDue
<1>6. ASSUME NEW w \in Sweeps,
             \/ Fetch(w) \/ CheckGuard(w) \/ CallApply(w) \/ ApplyRefused(w)
             \/ QueryFails(w) \/ Crash(w)
      PROVE  UNCHANGED db
  BY <1>6 DEF Fetch, CheckGuard, CallApply, ApplyRefused, QueryFails, Crash
<1>7. CASE UNCHANGED vars
  BY <1>1, <1>7 DEF vars
<1> QED
  BY <1>1, <1>2, <1>3, <1>4, <1>5, <1>6, <1>7 DEF Next, TransactionStep, SweepStep

\* The orders start as those of the lifecycle.
LEMMA InitRefines == Init => Lifecycle!Init
  BY SameTable DEF Init, Lifecycle!Init, NoRows

\* To its callers the engine is OrderLifecycle: locks, calls to Stripe, rollbacks, retries
\* and overlapping sweeps do not show in the rows of an order.
THEOREM EngineImplementsLifecycle == Spec => ImplementsLifecycle
<1>1. Init => RefinesInv
  BY InitSafe DEF Init, RefinesInv, Asked
<1> QED
  BY <1>1, StepAsked, InitRefines, StepRefines, PTL DEF Spec, ImplementsLifecycle, Lifecycle!Spec

\* A step of the lifecycle takes an order up in rank.
LEMMA LifecycleClimbs ==
  ASSUME [Lifecycle!Next]_(Lifecycle!lvars), NEW o \in Orders, db'[o].state # db[o].state
  PROVE  Rank[db[o].state] < Rank[db'[o].state]
<1> DEFINE at == [u \in Orders |-> db[u].state]
<1>1. \A u \in Orders : at'[u] = db'[u].state /\ at[u] = db[u].state
  OBVIOUS
<1>2. CASE UNCHANGED Lifecycle!lvars
  <2>1. at' = at
    BY <1>2 DEF Lifecycle!lvars
  <2> QED
    BY <2>1, <1>1
<1>3. ASSUME NEW u \in Orders, Lifecycle!Place(u) PROVE Rank[db[o].state] < Rank[db'[o].state]
  <2>1. at[u] = NoOrder /\ at' = [at EXCEPT ![u] = "initial"]
    BY <1>3, SameTable DEF Lifecycle!Place
  <2>2. db[o].state = NoOrder /\ db'[o].state = "initial"
    BY <2>1, <1>1
  <2> QED
    BY <2>2 DEF Rank, States, NoOrder
<1>4. ASSUME NEW u \in Orders, NEW t, Lifecycle!Move(u, t), t \in Transitions
      PROVE  Rank[db[o].state] < Rank[db'[o].state]
  <2>1. at[u] \in t.from /\ at' = [at EXCEPT ![u] = Lifecycle!Final(t)]
    BY <1>4 DEF Lifecycle!Move
  <2>2. db[o].state \in t.from /\ db'[o].state = Lifecycle!Final(t)
    BY <2>1, <1>1
  <2>3. Lifecycle!Final(t) = IF t.to = "received" THEN "completed" ELSE t.to
    BY SameTable, ImmediateIsCompletion DEF Lifecycle!Final, ImmediateNext
  <2>4. Rank[db[o].state] < Rank[t.to] /\ Rank[db[o].state] \in 0 .. 13
    BY <2>2, <1>4, RankClimbs, RankNumbers, TransitionsTyped DEF AllStates
  <2>5. Rank["received"] = 11 /\ Rank["completed"] = 12
    BY DEF Rank, States, NoOrder
  <2> QED
    BY <2>2, <2>3, <2>4, <2>5
<1>5. \A s \in TimedStates : Named(StateTimers[s]) \in Transitions
  BY TimersFireHome
<1> QED
  BY <1>2, <1>3, <1>4, <1>5, SameTable
  DEF Lifecycle!Next, Lifecycle!Ask, Lifecycle!FireTimer

\* An order never returns to a state it has left, whatever sweeps and callers retry: at most
\* twelve transitions after it was placed, it rests for good.  It holds of the engine
\* because it holds of OrderLifecycle.
THEOREM OrdersMoveForward ==
  Spec => [][\A o \in Orders : db'[o].state # db[o].state =>
               Rank[db[o].state] < Rank[db'[o].state]]_vars
<1>1. [Lifecycle!Next]_(Lifecycle!lvars) =>
        [\A o \in Orders : db'[o].state # db[o].state =>
           Rank[db[o].state] < Rank[db'[o].state]]_vars
  BY LifecycleClimbs
<1> QED
  BY <1>1, EngineImplementsLifecycle, PTL DEF ImplementsLifecycle, Lifecycle!Spec
=============================================================================
