------------------------- MODULE MCCredentialStore --------------------------
(* CredentialStore on small instances for TLC. *)
EXTENDS CredentialStore, TLC

MCSymmetry == Permutations(Tasks)
=============================================================================
