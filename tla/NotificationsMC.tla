--------------------------- MODULE NotificationsMC ----------------------------
(***************************************************************************)
(* TLC instances of Notifications.                                         *)
(***************************************************************************)
EXTENDS Notifications

CONSTANTS u1, u2

MCEvents == {[recipient |-> u1, order |-> "o1", type |-> "order_shipped"]}
MCNews == {[recipient |-> u1, show |-> "s1", type |-> "upcoming_live", text |-> "soon"]}
MCReminders == {[recipient |-> u1, show |-> "s1", type |-> "upcoming_live"],
                [recipient |-> u2, show |-> "s1", type |-> "upcoming_live"]}
=============================================================================
