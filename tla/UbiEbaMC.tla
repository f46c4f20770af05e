----------------------------- MODULE UbiEbaMC ------------------------------
(* Model-checking instance of UbiEba. *)
EXTENDS UbiEba, TLC

Symm == Permutations(PEBs) \cup Permutations(Vals)
=============================================================================
