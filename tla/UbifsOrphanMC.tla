--------------------------- MODULE UbifsOrphanMC ---------------------------
(* A small instance of UbifsOrphan for TLC. *)
EXTENDS UbifsOrphan, TLC

Symmetry == Permutations(Inos)

=============================================================================
