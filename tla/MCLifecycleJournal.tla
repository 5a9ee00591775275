------------------------- MODULE MCLifecycleJournal -------------------------
(* LifecycleJournal on small instances for TLC. *)
EXTENDS LifecycleJournal, TLC

MCSymmetry == Permutations(Executors)
=============================================================================
