------------------------------ MODULE UftlMC -------------------------------
(* Model-checking instance of Uftl. *)
EXTENDS Uftl, TLC

Symm == Permutations(Vals)

\* Bound: nothing is read, which would only fill buffers that are clean.
NoReads == \A i \in Bufs : pool[i].sector # None => pool[i].dirty # {}

\* Bound: a run ends with the first page taken for read that was not, after
\* which UftlInv and ReadsLatest claim nothing.
AllRead == ~misread
=============================================================================
