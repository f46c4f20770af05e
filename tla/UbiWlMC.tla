------------------------------ MODULE UbiWlMC ------------------------------
(* Model-checking instance of UbiWl. *)
EXTENDS UbiWl, TLC

Symm == Permutations(PEBs) \cup Permutations(Clients)
=============================================================================
