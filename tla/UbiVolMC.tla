------------------------------ MODULE UbiVolMC ------------------------------
(* Instance of UbiVol for TLC. *)
EXTENDS UbiVol, TLC

McLebs == {<<0, 1>>}

Symm == Permutations(Clients) \cup Permutations(Names)
=============================================================================
