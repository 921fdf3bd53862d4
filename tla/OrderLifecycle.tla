---------------------------- MODULE OrderLifecycle ----------------------------
(***************************************************************************)
(* What the order engine promises to its callers: an order moves along the *)
(* process in indivisible steps; each step either is asked for by a party  *)
(* the table admits, or is the one timer of the state the order is in; and *)
(* each step sets the next timer, releases the payout or records the       *)
(* refund together with the move.  There are no transactions, locks,       *)
(* sweeps or failures here: OrderEngine shows that they do not show.       *)
(***************************************************************************)
EXTENDS InstantPurchase

CONSTANTS Orders, Requesters

VARIABLES
  state,     \* state[o]: where the order is
  live,      \* live[o]: the guard states of its live timers
  released,  \* released[o]: the seller has been paid
  refunds    \* refunds[o]: how often the buyer has been refunded

lvars == <<state, live, released, refunds>>

\* Where a transition ends: the engine leaves an immediate state at once.
Final(t) ==
  IF t.to \in DOMAIN ImmediateNext THEN Named(ImmediateNext[t.to]).to ELSE t.to

Place(o) ==
  /\ state[o] = NoOrder
  /\ state' = [state EXCEPT ![o] = "initial"]
  /\ UNCHANGED <<live, released, refunds>>

Move(o, t) ==
  /\ state[o] \in t.from
  /\ state' = [state EXCEPT ![o] = Final(t)]
  /\ live' = [live EXCEPT ![o] = {Final(t)} \cap TimedStates]
  /\ released' = [released EXCEPT ![o] = @ \/ t.action = "payout"]
  /\ refunds' = [refunds EXCEPT ![o] = IF t.action = "refund-full" THEN @ + 1 ELSE @]

Ask(o, t) == t.actor \cap Requesters # {} /\ Move(o, t)

FireTimer(o, s) == s \in live[o] /\ Move(o, Named(StateTimers[s]))

Init ==
  /\ state = [o \in Orders |-> NoOrder]
  /\ live = [o \in Orders |-> {}]
  /\ released = [o \in Orders |-> FALSE]
  /\ refunds = [o \in Orders |-> 0]

Next ==
  \E o \in Orders :
    \/ Place(o)
    \/ \E t \in Transitions : Ask(o, t)
    \/ \E s \in TimedStates : FireTimer(o, s)

Spec == Init /\ [][Next]_lvars
=============================================================================
