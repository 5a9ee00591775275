------------------------- MODULE MCSubscriptionTurn -------------------------
(* SubscriptionTurn on a small instance. *)
EXTENDS SubscriptionTurn, TLC

Symmetry == Permutations(Requests)
=============================================================================
