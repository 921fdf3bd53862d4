---------------------------- MODULE InstantPurchase ----------------------------
(***************************************************************************)
(* The process definition instant-purchase/release-14: the table of        *)
(* transitions the order engine interprets                                 *)
(* (src/src/modules/orders/process/instant-purchase.process.ts).  Timer    *)
(* durations are abstracted: a timer that exists may become due at any     *)
(* later moment.                                                           *)
(***************************************************************************)
EXTENDS Naturals

Actors == {"customer", "provider", "operator", "system"}

MoneyActions == {"create-payment-intent", "confirm-capture",
                 "cancel-payment-intent", "payout", "refund-full"}

States == {"initial", "pending-payment", "payment-expired", "purchased",
           "pending-shipment", "shipped", "delivered", "received", "completed",
           "reviewed", "canceled", "disputed", "escalated-dispute"}

\* An entry of the table; action is "none" where the source gives none.
TransitionDef(name, from, to, actor, privileged, action) ==
  [name |-> name, from |-> from, to |-> to, actor |-> actor,
   privileged |-> privileged, action |-> action]

Transitions ==
  { TransitionDef("request-payment", {"initial"}, "pending-payment",
                  {"customer"}, TRUE, "create-payment-intent"),
    TransitionDef("confirm-payment", {"pending-payment"}, "purchased",
                  {"customer"}, TRUE, "confirm-capture"),
    TransitionDef("expire-payment", {"pending-payment"}, "payment-expired",
                  {"system"}, FALSE, "cancel-payment-intent"),
    TransitionDef("confirm-order", {"purchased"}, "pending-shipment",
                  {"provider", "operator"}, FALSE, "none"),
    TransitionDef("mark-shipped", {"pending-shipment"}, "shipped",
                  {"provider", "operator"}, FALSE, "none"),
    TransitionDef("mark-delivered", {"shipped"}, "delivered",
                  {"provider", "system", "operator"}, FALSE, "none"),
    TransitionDef("mark-received", {"delivered"}, "received",
                  {"customer"}, FALSE, "payout"),
    TransitionDef("auto-mark-received", {"delivered"}, "received",
                  {"system"}, FALSE, "payout"),
    TransitionDef("mark-completed", {"received"}, "completed",
                  {"system"}, FALSE, "none"),
    TransitionDef("auto-cancel", {"purchased"}, "canceled",
                  {"system"}, FALSE, "refund-full"),
    TransitionDef("dispute", {"pending-shipment", "shipped", "delivered"},
                  "disputed", {"customer"}, FALSE, "none"),
    TransitionDef("approve-refund", {"disputed", "escalated-dispute"},
                  "canceled", {"provider", "operator"}, FALSE, "refund-full"),
    TransitionDef("decline-dispute", {"disputed"}, "escalated-dispute",
                  {"provider"}, FALSE, "none"),
    TransitionDef("auto-escalate-dispute", {"disputed"}, "escalated-dispute",
                  {"system"}, FALSE, "none"),
    TransitionDef("resolve-release", {"escalated-dispute"}, "received",
                  {"operator"}, FALSE, "payout"),
    TransitionDef("expire-review-period", {"completed"}, "reviewed",
                  {"system"}, FALSE, "none") }

\* The states with an entry timer, and the transition each timer fires.
TimedStates ==
  {"pending-payment", "purchased", "delivered", "disputed", "completed"}

StateTimers ==
  [s \in TimedStates |->
     CASE s = "pending-payment" -> "expire-payment"
       [] s = "purchased"       -> "auto-cancel"
       [] s = "delivered"       -> "auto-mark-received"
       [] s = "disputed"        -> "auto-escalate-dispute"
       [] s = "completed"       -> "expire-review-period"]

\* States left in the same database transaction that enters them.
ImmediateNext == [s \in {"received"} |-> "mark-completed"]

\* Lookup by name: def.transitions.find((x) => x.name === transitionName).
Named(n) == CHOOSE t \in Transitions : t.name = n

-----------------------------------------------------------------------------
\* An order that checkout has not created yet.
NoOrder == "absent"

\* A topological numbering of the process: every transition climbs, so no order
\* is ever in the same state twice.  It is not in the source: it is the reason
\* why the check of a timer against its guardState is enough.
Rank ==
  [s \in States \cup {NoOrder} |->
     CASE s = NoOrder             -> 0
       [] s = "initial"           -> 1
       [] s = "pending-payment"   -> 2
       [] s = "payment-expired"   -> 3
       [] s = "purchased"         -> 4
       [] s = "pending-shipment"  -> 5
       [] s = "shipped"           -> 6
       [] s = "delivered"         -> 7
       [] s = "disputed"          -> 8
       [] s = "escalated-dispute" -> 9
       [] s = "canceled"          -> 10
       [] s = "received"          -> 11
       [] s = "completed"         -> 12
       [] s = "reviewed"          -> 13]
=============================================================================
