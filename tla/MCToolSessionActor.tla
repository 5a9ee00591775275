------------------------- MODULE MCToolSessionActor -------------------------
(* ToolSessionActor on a small instance for TLC. *)
EXTENDS ToolSessionActor, TLC

MCSymmetry == Permutations(Clients) \cup Permutations(Calls)
=============================================================================
