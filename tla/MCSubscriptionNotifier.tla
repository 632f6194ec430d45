----------------------- MODULE MCSubscriptionNotifier -----------------------
(* SubscriptionNotifier on a few users, nodes and changes.  The users      *)
(* differ in what they may do, so no run uses symmetry.                    *)
EXTENDS SubscriptionNotifier, TLC
=============================================================================
