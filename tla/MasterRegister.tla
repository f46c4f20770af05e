--------------------------- MODULE MasterRegister ---------------------------
(***************************************************************************)
(* What the master area of UBIFS promises to the rest of the file system:  *)
(* a register that is written atomically, whatever moment the power is cut *)
(* at.  A write is announced, and takes place at one instant or never.     *)
(***************************************************************************)
VARIABLES
    value,      \* what a mount would read now
    pending     \* the value that is being written, if there is one

rvars == <<value, pending>>

Init == pending = {}

Begin == pending' # {} /\ UNCHANGED value

\* It took effect, or it was given up.
End == pending' = {} /\ value' \in pending \cup {value}

Next == Begin \/ End

Spec == Init /\ [][Next]_rvars

=============================================================================
