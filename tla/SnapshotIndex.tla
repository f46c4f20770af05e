--------------------------- MODULE SnapshotIndex ----------------------------
(***************************************************************************)
(* What the tree node cache promises of the index: it is a set of entries  *)
(* that changes while an earlier state of it is being saved, and the saved *)
(* state is replaced at once.  After a cut of power it is as saved.        *)
(***************************************************************************)
CONSTANT Entries

VARIABLES
    entries,    \* the index
    snap,       \* what is being saved
    saved       \* what a mount would find

Init == entries \subseteq Entries /\ snap = saved /\ saved \subseteq Entries

Change == entries' \subseteq Entries /\ UNCHANGED <<snap, saved>>
Start == snap' = entries /\ UNCHANGED <<entries, saved>>
Save == saved' = snap /\ UNCHANGED <<entries, snap>>
Cut == entries' = saved /\ snap' = saved /\ UNCHANGED saved

Next == Change \/ Start \/ Save \/ Cut

Spec == Init /\ [][Next]_<<entries, snap, saved>>

=============================================================================
