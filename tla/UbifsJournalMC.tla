-------------------------- MODULE UbifsJournalMC ---------------------------
(* A small instance of UbifsJournal for TLC. *)
EXTENDS UbifsJournal, TLC

=============================================================================
