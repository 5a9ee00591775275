------------------------- MODULE MCSessionRegistry --------------------------
(* SessionRegistry on small instances for TLC. *)
EXTENDS SessionRegistry, TLC

MCSymmetry ==
  Permutations(Clients) \cup Permutations(Entries) \cup Permutations(Sids)
    \cup Permutations(Uuids) \cup Permutations(Inputs) \cup Permutations(Configs)
=============================================================================
