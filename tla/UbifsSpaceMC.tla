---------------------------- MODULE UbifsSpaceMC ----------------------------
(* Instances of UbifsSpace for TLC: file systems near the limit of their space. *)
EXTENDS UbifsSpace, Sequences, TLC

MCHeadOf == [k \in Requests |-> IF k = "del" /\ "base" \in Heads THEN "base" ELSE "data"]
MCGrowth == [k \in Requests |->
    CASE k = "new" -> [idx |-> 1, data |-> 2, dd |-> 0]
      [] k = "change" -> [idx |-> 0, data |-> 0, dd |-> 2]
      [] OTHER -> [idx |-> 0, data |-> 0, dd |-> 1]]

\* A LEB of an index, and one of data: so many nodes of size 1 and 2, and dirt.
Idx(n, dirty) == [lp |-> [free |-> LebSize - n - dirty, dirty |-> dirty, index |-> TRUE],
                  live |-> <<0, 0>>]
Data(ones, twos, dirty) ==
    [lp |-> [free |-> LebSize - ones - 2 * twos - dirty, dirty |-> dirty, index |-> FALSE],
     live |-> <<ones, twos>>]
E == Data(0, 0, 0)

\* The first LEB is the head of the index, the second is reserved for the
\* garbage collector; so many operations and events are gone.
FS(past_ops, past_events, s) ==
    [lp |-> [l \in LEBs |-> s[l].lp], live |-> [l \in LEBs |-> s[l].live],
     ihead |-> 1, gc_lnum |-> 2, ops |-> past_ops, events |-> past_events]

\* Little data and much dirt; an index of several LEBs; one whose LEBs are all
\* dirty and no empty LEB to commit to; and a full file system, where only
\* deletions can be written.
DirtyData == <<Idx(1, 1), E, Data(1, 0, 7), Data(1, 0, 7), Data(1, 0, 7), Data(1, 0, 7), Data(1, 0, 5), E>>
DirtyIndex == <<Idx(1, 7), E, Idx(1, 7), Idx(0, 8), Data(1, 0, 3), Data(0, 1, 6), E, Data(0, 0, 8)>>
NoEmpty == <<Idx(1, 7), E, Idx(1, 7), Idx(1, 7), Data(1, 0, 7), Data(0, 1, 6), E, Data(1, 0, 7)>>
Full == <<Idx(2, 0), E, E, Data(0, 4, 0), Data(8, 0, 0), Data(0, 3, 2), Data(1, 3, 0), Data(1, 3, 0)>>

MCMounts ==
    {FS(0, 0, DirtyData), FS(0, 0, Full),
     FS(0, 1, DirtyIndex), FS(1, 0, DirtyIndex), FS(1, 0, NoEmpty)}

MCSymmetry == Permutations(Threads)
=============================================================================
