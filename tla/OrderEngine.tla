------------------------------ MODULE OrderEngine ------------------------------
(***************************************************************************)
(* The order engine: OrderStateMachine.apply (one database transaction     *)
(* under a row lock, with the Stripe call inside it), the callers of apply *)
(* (checkout, the order endpoints, the timer worker), and as much of       *)
(* Stripe, buyer and seller as they rely on.                               *)
(*                                                                         *)
(* A database transaction is split where the code can be overtaken: the    *)
(* lock and the guards, the call to Stripe, the commit.  Nothing it writes *)
(* is visible before the commit, so the commit writes all rows at once.    *)
(***************************************************************************)
EXTENDS InstantPurchase, Sequences, FiniteSets

CONSTANTS
  Orders,       \* the orders that may be placed
  Sweeps,       \* the executions of sweep() that can overlap: the cron starts one
                \* every 30 s on every worker replica, whether or not another runs
  BatchSize,    \* `take` of the sweep's query (100 in the code)
  Requesters,   \* the actors that callers other than the worker pass to apply
  Client,       \* marks a transaction that a request, not a sweep, is running
  MaxFaults     \* bound on aborted transactions, lost calls and crashes

ASSUME BatchSizeAssumption == BatchSize \in Nat \ {0}
ASSUME RequestersAssumption == Requesters \subseteq Actors \ {"system"}
ASSUME ClientAssumption == Client \notin Sweeps
ASSUME MaxFaultsAssumption == MaxFaults \in Nat

VARIABLES
  db,      \* db[o]: the rows of order o, as committed
  tx,      \* the transactions of apply in flight
  stripe,  \* stripe[o]: what Stripe holds for order o
  account, \* account[o]: the seller of o has a StripeAccount row
  late,    \* requests sent to Stripe by transactions that are gone
  runAt,   \* runAt[o][s] > 0: the timer row of (o, s) is due; smaller is older
  sweep,   \* sweep[w]: where execution w of sweep() stands
  faults   \* faults so far

vars == <<db, tx, stripe, account, late, runAt, sweep, faults>>

-----------------------------------------------------------------------------
(* The rows of an order. *)

PIStatus ==
  {"none", "requires_payment_method", "requires_capture", "succeeded", "canceled"}
TimerStatus == {"none", "pending", "fired", "skipped", "canceled"}
Entry == [transition : {t.name : t \in Transitions},
          from : States, to : States, actor : Actors]
Event == [topic : {"order.transitioned", "payout.released"},
          from : States, to : States]

\* Order, OrderTransition, ScheduledTransition, PaymentIntent, Payout, Refund,
\* LineItem and Outbox rows.  A timer row is named by its guardState: an order
\* enters a state at most once (theorem HistoryIsAPath).
Rows ==
  [state : States \cup {NoOrder}, payoutReleased : BOOLEAN, priced : BOOLEAN,
   pi : PIStatus, payout : BOOLEAN, refunds : Nat,
   timers : [TimedStates -> TimerStatus], log : Seq(Entry), outbox : Seq(Event)]

NoRows ==
  [state |-> NoOrder, payoutReleased |-> FALSE, priced |-> FALSE,
   pi |-> "none", payout |-> FALSE, refunds |-> 0,
   timers |-> [s \in TimedStates |-> "none"], log |-> <<>>, outbox |-> <<>>]

RowId == [order : Orders, guard : TimedStates]

TxRecord ==
  [order : Orders, t : Transitions, actor : Actors, by : Sweeps \cup {Client},
   phase : {"locked", "called"}, result : PIStatus]

\* Mutant: no SELECT ... FOR UPDATE.
NeverLocked(o) == FALSE
Locked(o) == \E x \in tx : x.order = o

-----------------------------------------------------------------------------
(* The gateway: what each call does at Stripe. *)

\* paymentIntents.create with the key pi_<order>: a replay returns the same intent.
CreatePaymentIntent(s) ==
  [s EXCEPT !.pi = IF @ = "none" THEN "requires_payment_method" ELSE @]

ConfirmAndCapture(s) ==
  [s EXCEPT !.pi = IF @ = "requires_capture" THEN "succeeded" ELSE @]

\* Stripe refuses to cancel an intent that has succeeded; the gateway logs the
\* refusal and returns normally.
CancelPaymentIntent(s) ==
  [s EXCEPT !.pi = IF @ = "succeeded" THEN @ ELSE "canceled"]

\* Mutant: the key doc 04 section 1.3 gives, (orderId, transition).
PayoutKeyPerTransition(t) == t.name

\* The idempotency key of a transfer, payout_<order>, does not name the
\* transition: mark-received and auto-mark-received share it.
PayoutKey(t) == "payout"
TransferKey == {PayoutKey(t) : t \in Transitions}

\* A transfer is identified by its key: a second call with the same key returns
\* the first transfer.
CreateTransfer(s, t) == [s EXCEPT !.transfers = @ \cup {PayoutKey(t)}]

Refund(s) == [s EXCEPT !.refunded = TRUE]

StripeAfter(s, t) ==
  CASE t.action = "create-payment-intent" -> CreatePaymentIntent(s)
    [] t.action = "confirm-capture"       -> ConfirmAndCapture(s)
    [] t.action = "cancel-payment-intent" -> CancelPaymentIntent(s)
    [] t.action = "payout"                -> CreateTransfer(s, t)
    [] t.action = "refund-full"           -> Refund(s)

\* Stripe refunds only a charge that succeeded; the key refund_<order>_<amount>
\* makes a repeated refund return the first one.
StripeAccepts(s, t) == t.action = "refund-full" => s.pi = "succeeded"

\* runAction reaches the gateway.
CallsGateway(r, t) ==
  /\ t.action # "none"
  /\ t.action = "payout" => ~r.payoutReleased
  /\ t.action \in {"cancel-payment-intent", "refund-full"} => r.pi # "none"

\* The conflicts runAction raises before it calls the gateway.
ActionReady(o, t) ==
  /\ t.action = "confirm-capture" => db[o].pi # "none"
  /\ t.action = "payout" => db[o].payoutReleased \/ account[o]

-----------------------------------------------------------------------------
(* The writes of one executeWithin on the rows r, in the order of the code. *)

\* The PaymentIntent row after runAction, which the gateway answered with res.
PaymentIntentRow(r, t, res) ==
  CASE t.action \in {"create-payment-intent", "confirm-capture"} -> res
    [] t.action = "cancel-payment-intent" /\ r.pi # "none"       -> "canceled"
    [] OTHER                                                     -> r.pi

\* Mutant: the old state's timer is not canceled.
ReconciledKeepsOld(timers, to) ==
  [s \in TimedStates |-> IF s = to THEN "pending" ELSE timers[s]]

\* updateMany pending -> canceled, then the timer of the state just entered.
Reconciled(timers, to) ==
  [s \in TimedStates |-> IF s = to THEN "pending"
                         ELSE IF timers[s] = "pending" THEN "canceled"
                         ELSE timers[s]]

\* Mutant: payout.released is emitted for every move of a released order.
EmittedOnEveryMove(r, t) ==
  LET moved == [topic |-> "order.transitioned", from |-> r.state, to |-> t.to]
      paid  == [topic |-> "payout.released", from |-> r.state, to |-> t.to]
  IN  IF t.action = "payout" \/ r.payoutReleased
      THEN Append(Append(r.outbox, moved), paid) ELSE Append(r.outbox, moved)

Emitted(r, t) ==
  LET moved == [topic |-> "order.transitioned", from |-> r.state, to |-> t.to]
      paid  == [topic |-> "payout.released", from |-> r.state, to |-> t.to]
  IN  IF t.action = "payout" THEN Append(Append(r.outbox, moved), paid)
                             ELSE Append(r.outbox, moved)

Written(r, t, a, res) ==
  [state          |-> t.to,
   payoutReleased |-> r.payoutReleased \/ t.action = "payout",
   priced         |-> r.priced \/ t.privileged,
   pi             |-> PaymentIntentRow(r, t, res),
   payout         |-> r.payout \/ (t.action = "payout" /\ ~r.payoutReleased),
   refunds        |-> IF t.action = "refund-full" /\ r.pi # "none"
                      THEN r.refunds + 1 ELSE r.refunds,
   timers         |-> Reconciled(r.timers, t.to),
   log            |-> Append(r.log, [transition |-> t.name, from |-> r.state,
                                     to |-> t.to, actor |-> a]),
   outbox         |-> Emitted(r, t)]

\* executeWithin calls itself for a state with an immediate successor.
ExecuteWithin(r, t, a, res) ==
  LET after == Written(r, t, a, res)
  IN  IF t.to \in DOMAIN ImmediateNext
      THEN Written(after, Named(ImmediateNext[t.to]), "system", after.pi)
      ELSE after

-----------------------------------------------------------------------------
(* The worker's bookkeeping for one row of its batch. *)

\* On to the next row, or the end of the execution.
Finished(v) ==
  [pc |-> IF v.batch = <<>> THEN "idle" ELSE "next", batch |-> v.batch, current |-> {}]

IdleSweep == [pc |-> "idle", batch |-> <<>>, current |-> {}]

\* What the caller of a transaction does when apply returns, and when it throws.
Returned(x) ==
  IF x.by = Client THEN sweep ELSE [sweep EXCEPT ![x.by].pc = "fire"]
\* Mutant: the update to fired is outside the try block.
ThrownButFired(x) ==
  IF x.by = Client THEN sweep ELSE [sweep EXCEPT ![x.by].pc = "fire"]

Thrown(x) ==
  IF x.by = Client THEN sweep ELSE [sweep EXCEPT ![x.by] = Finished(@)]

\* The transaction is gone and with it the row lock.  A request it had not yet
\* seen answered may still reach Stripe.
StillOutstanding(x) ==
  IF x.phase = "locked" THEN late \cup {[order |-> x.order, t |-> x.t]} ELSE late

-----------------------------------------------------------------------------
(* OrderStateMachine.apply. *)

\* Mutant: the guard on the state is dropped.
MayApplyInAnyState(o, t, a) == a \in t.actor /\ ActionReady(o, t)

MayApply(o, t, a) ==
  /\ db[o].state \in t.from
  /\ a \in t.actor
  /\ ActionReady(o, t)

\* SELECT ... FOR UPDATE and the guards.  A guard that fails throws with nothing
\* written: for a request that is a stutter, for a sweep see ApplyRefused.
Begin(o, t, a, by) ==
  /\ ~Locked(o)
  /\ MayApply(o, t, a)
  /\ tx' = tx \cup {[order |-> o, t |-> t, actor |-> a, by |-> by,
                     phase |-> IF CallsGateway(db[o], t) THEN "locked" ELSE "called",
                     result |-> db[o].pi]}

\* The gateway call returns while the transaction waits for it.
GatewayCall(o) ==
  \E x \in tx :
    /\ x.order = o /\ x.phase = "locked" /\ StripeAccepts(stripe[o], x.t)
    /\ stripe' = [stripe EXCEPT ![o] = StripeAfter(@, x.t)]
    /\ tx' = (tx \ {x}) \cup {[x EXCEPT !.phase = "called", !.result = stripe'[o].pi]}
    /\ UNCHANGED <<db, account, late, runAt, sweep, faults>>

\* Mutant: the gateway swallows the error of every call, as cancelPaymentIntent does.
GatewayErrorSwallowed(o) ==
  \E x \in tx :
    /\ x.order = o /\ x.phase = "locked" /\ ~StripeAccepts(stripe[o], x.t)
    /\ tx' = (tx \ {x}) \cup {[x EXCEPT !.phase = "called"]}
    /\ UNCHANGED <<db, stripe, account, late, runAt, sweep, faults>>

\* Stripe answers with an error, apply throws, the transaction rolls back.
GatewayRejects(o) ==
  \E x \in tx :
    /\ x.order = o /\ x.phase = "locked" /\ ~StripeAccepts(stripe[o], x.t)
    /\ tx' = tx \ {x}
    /\ sweep' = Thrown(x)
    /\ UNCHANGED <<db, stripe, account, late, runAt, faults>>

Commit(o) ==
  \E x \in tx :
    /\ x.order = o /\ x.phase = "called"
    /\ db' = [db EXCEPT ![o] = ExecuteWithin(@, x.t, x.actor, x.result)]
    /\ runAt' = [runAt EXCEPT ![o] = [s \in TimedStates |-> 0]]
    /\ tx' = tx \ {x}
    /\ sweep' = Returned(x)
    /\ UNCHANGED <<stripe, account, late, faults>>

\* The transaction is rolled back: a gateway call that fails or times out, a lost
\* connection, a commit that fails, a process that dies.
Abort(o) ==
  \E x \in tx :
    /\ x.order = o /\ faults < MaxFaults
    /\ tx' = tx \ {x}
    /\ late' = StillOutstanding(x)
    /\ sweep' = Thrown(x)
    /\ faults' = faults + 1
    /\ UNCHANGED <<db, stripe, account, runAt>>

\* cancelPaymentIntent swallows every error, a request that got lost included.
CancelLost(o) ==
  \E x \in tx :
    /\ x.order = o /\ x.phase = "locked" /\ x.t.action = "cancel-payment-intent"
    /\ faults < MaxFaults
    /\ tx' = (tx \ {x}) \cup {[x EXCEPT !.phase = "called"]}
    /\ faults' = faults + 1
    /\ UNCHANGED <<db, stripe, account, late, runAt, sweep>>

-----------------------------------------------------------------------------
(* The callers of apply other than the worker. *)

\* CheckoutService.checkout up to order.create, which is not in a transaction
\* with the request-payment that follows it.
CreateOrder(o) ==
  /\ db[o].state = NoOrder
  /\ db' = [db EXCEPT ![o].state = "initial"]
  /\ UNCHANGED <<tx, stripe, account, late, runAt, sweep, faults>>

\* checkout's request-payment, confirm's confirm-payment, and
\* POST /orders/:id/transitions/:name, which takes any name.
Request(o, t, a) ==
  /\ Begin(o, t, a, Client)
  /\ UNCHANGED <<db, stripe, account, late, runAt, sweep, faults>>

-----------------------------------------------------------------------------
(* Stripe, the buyer and the seller. *)

\* The buyer confirms the payment with Stripe directly, by the client secret of
\* the PaymentIntent row; capture_method is automatic.
BuyerPays(o) ==
  /\ db[o].pi # "none"
  /\ stripe[o].pi = "requires_payment_method"
  /\ stripe' = [stripe EXCEPT ![o].pi = "succeeded"]
  /\ UNCHANGED <<db, tx, account, late, runAt, sweep, faults>>

SellerOnboards(o) ==
  /\ ~account[o]
  /\ account' = [account EXCEPT ![o] = TRUE]
  /\ UNCHANGED <<db, tx, stripe, late, runAt, sweep, faults>>

\* A request whose transaction is gone arrives at Stripe after all.
LateCall(o) ==
  \E c \in late :
    /\ c.order = o
    /\ late' = late \ {c}
    /\ stripe' = IF StripeAccepts(stripe[o], c.t)
                 THEN [stripe EXCEPT ![o] = StripeAfter(@, c.t)] ELSE stripe
    /\ UNCHANGED <<db, tx, account, runAt, sweep, faults>>

-----------------------------------------------------------------------------
(* ScheduledTransitionWorker. *)

Pending(r) == db[r.order].timers[r.guard] = "pending"
RunAt(r) == runAt[r.order][r.guard]
Due == {r \in RowId : Pending(r) /\ RunAt(r) > 0}

\* Time passes the runAt of a pending row.
TimerDue(o, s) ==
  /\ Pending([order |-> o, guard |-> s])
  /\ runAt[o][s] = 0
  /\ \E n \in 1 .. Cardinality(RowId) :
       /\ \A r \in RowId : RunAt(r) < n
       /\ n = 1 \/ \E r \in RowId : RunAt(r) = n - 1
       /\ runAt' = [runAt EXCEPT ![o][s] = n]
  /\ UNCHANGED <<db, tx, stripe, account, late, sweep, faults>>

\* The query of the sweep: the BatchSize oldest due rows, oldest first.  It reads;
\* it claims nothing.
Fetch(w) ==
  /\ sweep[w].pc = "idle"
  /\ \E n \in 1 .. BatchSize : \E b \in [1 .. n -> Due] :
       LET taken == {b[i] : i \in 1 .. n} IN
       /\ \A i, j \in 1 .. n : i < j => RunAt(b[i]) < RunAt(b[j])
       /\ \A r \in Due \ taken : RunAt(b[n]) < RunAt(r)
       /\ n < BatchSize => taken = Due
       /\ sweep' = [sweep EXCEPT ![w] = [pc |-> "next", batch |-> b, current |-> {}]]
  /\ UNCHANGED <<db, tx, stripe, account, late, runAt, faults>>

\* The read of the order, without a lock, and the comparison with guardState.
CheckGuard(w) ==
  /\ sweep[w].pc = "next"
  /\ LET r == Head(sweep[w].batch) IN
     sweep' = [sweep EXCEPT ![w] =
                 [pc |-> IF db[r.order].state = r.guard THEN "apply" ELSE "skip",
                  batch |-> Tail(sweep[w].batch), current |-> {r}]]
  /\ UNCHANGED <<db, tx, stripe, account, late, runAt, faults>>

\* scheduledTransition.update: by id, whatever the status is by now.
Mark(w, status) ==
  \E r \in sweep[w].current :
    /\ db' = [db EXCEPT ![r.order].timers[r.guard] = status]
    /\ sweep' = [sweep EXCEPT ![w] = Finished(@)]
    /\ UNCHANGED <<tx, stripe, account, late, runAt, faults>>

MarkSkipped(w) == sweep[w].pc = "skip" /\ Mark(w, "skipped")
\* Mutant: a status the schema does not know.
MarkFiring(w) == sweep[w].pc = "fire" /\ Mark(w, "firing")
MarkFired(w) == sweep[w].pc = "fire" /\ Mark(w, "fired")

TimerTransition(r) == Named(StateTimers[r.guard])

CallApply(w) ==
  /\ sweep[w].pc = "apply"
  /\ \E r \in sweep[w].current : Begin(r.order, TimerTransition(r), "system", w)
  /\ sweep' = [sweep EXCEPT ![w].pc = "applying"]
  /\ UNCHANGED <<db, stripe, account, late, runAt, faults>>

\* Mutant: a refused row is given up instead of left pending.
ApplyRefusedSkips(w) ==
  /\ sweep[w].pc = "apply"
  /\ \E r \in sweep[w].current :
       ~Locked(r.order) /\ ~MayApply(r.order, TimerTransition(r), "system")
  /\ Mark(w, "skipped")

\* apply throws on a guard.  The catch block counts the attempt, which nothing
\* reads (the count is left out), and leaves the row pending.
ApplyRefused(w) ==
  /\ sweep[w].pc = "apply"
  /\ \E r \in sweep[w].current :
       ~Locked(r.order) /\ ~MayApply(r.order, TimerTransition(r), "system")
  /\ sweep' = [sweep EXCEPT ![w] = Finished(@)]
  /\ UNCHANGED <<db, tx, stripe, account, late, runAt, faults>>

\* A query of the loop fails, or apply does before it has the lock: the catch block
\* counts the attempt and the loop goes on.
Unread(v) == IF v.pc = "next" THEN [v EXCEPT !.batch = Tail(@)] ELSE v
QueryFails(w) ==
  /\ sweep[w].pc \in {"next", "skip", "apply", "fire"}
  /\ faults < MaxFaults
  /\ sweep' = [sweep EXCEPT ![w] = Finished(Unread(@))]
  /\ faults' = faults + 1
  /\ UNCHANGED <<db, tx, stripe, account, late, runAt>>

\* The process of the sweep dies, or its catch block fails too: the rest of the
\* batch is forgotten.  A transaction it runs is aborted (Abort) before.
Crash(w) ==
  /\ sweep[w].pc \in {"next", "skip", "apply", "fire"}
  /\ faults < MaxFaults
  /\ sweep' = [sweep EXCEPT ![w] = IdleSweep]
  /\ faults' = faults + 1
  /\ UNCHANGED <<db, tx, stripe, account, late, runAt>>

-----------------------------------------------------------------------------
Init ==
  /\ db = [o \in Orders |-> NoRows]
  /\ tx = {}
  /\ stripe = [o \in Orders |-> [pi |-> "none", transfers |-> {}, refunded |-> FALSE]]
  /\ account \in [Orders -> BOOLEAN]
  /\ late = {}
  /\ runAt = [o \in Orders |-> [s \in TimedStates |-> 0]]
  /\ sweep = [w \in Sweeps |-> IdleSweep]
  /\ faults = 0

SweepStep(w) ==
  \/ Fetch(w) \/ CheckGuard(w) \/ MarkSkipped(w)
  \/ CallApply(w) \/ ApplyRefused(w) \/ MarkFired(w)

TransactionStep(o) == GatewayCall(o) \/ GatewayRejects(o) \/ Commit(o)

Next ==
  \/ \E o \in Orders :
       \/ CreateOrder(o) \/ BuyerPays(o) \/ SellerOnboards(o)
       \/ TransactionStep(o) \/ Abort(o) \/ CancelLost(o) \/ LateCall(o)
       \/ \E t \in Transitions, a \in Requesters : Request(o, t, a)
       \/ \E s \in TimedStates : TimerDue(o, s)
  \/ \E w \in Sweeps : SweepStep(w) \/ QueryFails(w) \/ Crash(w)

Spec == Init /\ [][Next]_vars

\* The scheduler and the database make progress: time passes, the cron keeps
\* starting sweeps, a transaction ends, and a sweep that waits for a row lock gets
\* it even when requests keep taking it (PostgreSQL queues the waiters of a row).
\* Buyers, sellers and faults may not happen.
Fairness ==
  /\ \A o \in Orders : WF_vars(TransactionStep(o))
  /\ \A o \in Orders, s \in TimedStates : WF_vars(TimerDue(o, s))
  /\ \A w \in Sweeps : WF_vars(SweepStep(w))
  /\ \A w \in Sweeps : SF_vars(CallApply(w) \/ ApplyRefused(w))

FairSpec == Spec /\ Fairness

-----------------------------------------------------------------------------
(* Properties. *)

\* Every variable holds what the schema and the code can put there.
TypeOK ==
  /\ db \in [Orders -> Rows]
  /\ tx \subseteq TxRecord
  /\ stripe \in [Orders -> [pi : PIStatus, transfers : SUBSET TransferKey, refunded : BOOLEAN]]
  /\ account \in [Orders -> BOOLEAN]
  /\ late \subseteq [order : Orders, t : Transitions]
  /\ runAt \in [Orders -> [TimedStates -> Nat]]
  /\ sweep \in [Sweeps -> [pc : {"idle", "next", "skip", "apply", "applying", "fire"},
                           batch : Seq(RowId), current : SUBSET RowId]]
  /\ faults \in 0 .. MaxFaults

\* "A single live timer": an order has a pending ScheduledTransition exactly for
\* the timed state it is in, whatever requests and overlapping sweeps do to the
\* rows.  A row that is skipped or overwritten too early leaves an order that
\* never expires, is never refunded or never pays its seller.
LiveTimer ==
  \A o \in Orders, s \in TimedStates :
    db[o].timers[s] = "pending" <=> db[o].state = s

\* The OrderTransition rows of an order tell its whole story: they chain from
\* initial to its present state, and visit no state twice (so that guardState
\* cannot mistake a later visit for the one the timer was set in).
HistoryIsPath ==
  \A o \in Orders :
    LET log == db[o].log IN
    /\ log = <<>> => db[o].state \in {NoOrder, "initial"}
    /\ log # <<>> => log[1].from = "initial" /\ log[Len(log)].to = db[o].state
    /\ \A i \in 1 .. Len(log) - 1 : log[i].to = log[i + 1].from
    /\ \A i, j \in 1 .. Len(log) : i < j => log[i].to # log[j].to

\* What the books say was done with the money, Stripe did: an order completes
\* exactly when its payout is recorded and released, is canceled exactly when one
\* refund is recorded, and never rests in `received`, between payout and completion.
BooksAreBacked ==
  \A o \in Orders :
    /\ db[o].payoutReleased <=> db[o].state \in {"completed", "reviewed"}
    /\ db[o].payout <=> db[o].payoutReleased
    /\ db[o].payoutReleased => stripe[o].transfers # {}
    /\ db[o].refunds = (IF db[o].state = "canceled" THEN 1 ELSE 0)
    /\ db[o].state = "canceled" => stripe[o].refunded

\* However often a payout is aborted and retried, by the buyer, the timer or the
\* operator, the seller receives one transfer.
OneTransfer ==
  \A o \in Orders : \A k, l \in stripe[o].transfers : k = l

\* The outbox announces a payout exactly once, and only when it is released.
AnnouncedOnce ==
  \A o \in Orders :
    LET out == db[o].outbox IN
    /\ db[o].payoutReleased <=>
         \E i \in 1 .. Len(out) : out[i].topic = "payout.released"
    /\ \A i, j \in 1 .. Len(out) :
         out[i].topic = "payout.released" /\ out[j].topic = "payout.released" => i = j

\* As long as no transaction was aborted, money leaves escrow one way only: to the
\* seller or back to the buyer.
SettledOnce ==
  faults = 0 =>
    \A o \in Orders : ~(stripe[o].transfers # {} /\ stripe[o].refunded)

\* A timer row marked fired has fired: its transition is in the history, made by
\* the system.
FiredHasEffect ==
  \A o \in Orders, s \in TimedStates :
    db[o].timers[s] = "fired" =>
      \E i \in 1 .. Len(db[o].log) :
        /\ db[o].log[i].transition = StateTimers[s]
        /\ db[o].log[i].actor = "system"

\* The payout is the point of no return: once it is released no refund reaches
\* Stripe, and once an order is canceled no transfer does, unless a request of an
\* aborted transaction is still under way.
PointOfNoReturn ==
  [][\A o \in Orders :
       (\A c \in late : c.order # o) =>
         /\ db[o].payoutReleased => stripe'[o].refunded = stripe[o].refunded
         /\ db[o].state = "canceled" => stripe'[o].transfers = stripe[o].transfers]_vars

\* Timers fire: no order stays in a timed state for ever, except where the money
\* action is refused every time: a payout to a seller without an account, a refund
\* of an intent that was not paid.
TimersFire ==
  \A o \in Orders, s \in TimedStates :
    db[o].state = s ~>
      \/ db[o].state # s
      \/ s = "delivered" /\ ~account[o]
      \/ s = "purchased" /\ stripe[o].pi # "succeeded"

\* The engine is indivisible to its callers: seen through the committed rows it is
\* OrderLifecycle, in which every transition is one step and every timer step is
\* that of the state the order is in.
Lifecycle == INSTANCE OrderLifecycle WITH
  state    <- [o \in Orders |-> db[o].state],
  live     <- [o \in Orders |-> {s \in TimedStates : db[o].timers[s] = "pending"}],
  released <- [o \in Orders |-> db[o].payoutReleased],
  refunds  <- [o \in Orders |-> db[o].refunds]
ImplementsLifecycle == Lifecycle!Spec

-----------------------------------------------------------------------------
(* What the code's comments and documents say, and TLC refutes. *)

\* scheduled-transition.worker.ts:33 - a sweep claims its batch atomically: no two
\* sweeps hold the same row.
ClaimedByOne ==
  \A v, w \in Sweeps : v # w =>
    \A i \in 1 .. Len(sweep[v].batch), j \in 1 .. Len(sweep[w].batch) :
      sweep[v].batch[i] # sweep[w].batch[j]

\* scheduled-transition.worker.ts:11-13 - skipped marks a timer that was
\* superseded, so not one that fired.
SkippedMeansSuperseded ==
  \A o \in Orders, s \in TimedStates :
    db[o].timers[s] = "skipped" =>
      \A i \in 1 .. Len(db[o].log) :
        ~(db[o].log[i].transition = StateTimers[s] /\ db[o].log[i].actor = "system")

\* instant-purchase.process.ts:6 - funds are captured at confirm-payment: an order
\* that was purchased is paid.
PurchasedIsPaid ==
  \A o \in Orders :
    (\E i \in 1 .. Len(db[o].log) : db[o].log[i].to = "purchased") =>
      stripe[o].pi = "succeeded"

\* doc 04 section 1.5 - payment-expired comes with a full refund: no expired order
\* keeps the buyer's money.
ExpiredKeepsNothing ==
  \A o \in Orders :
    db[o].state = "payment-expired" /\ stripe[o].pi = "succeeded" =>
      stripe[o].refunded

\* order-state-machine.service.ts:39 - a transition that throws leaves nothing
\* half-applied: with no transaction open, Stripe has moved the money exactly when
\* the books say so.
NothingHalfApplied ==
  \A o \in Orders : ~Locked(o) =>
    /\ stripe[o].transfers # {} <=> db[o].payoutReleased
    /\ stripe[o].refunded <=> db[o].refunds > 0

\* doc 04 section 3.4 - a payout that succeeded is the point of no return for
\* automated refunds: no order is both paid out and refunded.
PaidOutOrRefunded ==
  \A o \in Orders : ~(stripe[o].transfers # {} /\ stripe[o].refunded)

\* scheduled-transition.worker.ts:11 - every sweep fires the rows that are due: a
\* due row does not stay pending for ever because of another order.
DueRowsFire ==
  \A o \in Orders :
    db[o].state = "pending-payment" ~> db[o].state # "pending-payment"

=============================================================================
