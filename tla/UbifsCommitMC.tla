--------------------------- MODULE UbifsCommitMC ---------------------------
(* Model-checking instance of UbifsCommit. *)
EXTENDS UbifsCommit, TLC

Symm == Permutations(Clients)
=============================================================================
