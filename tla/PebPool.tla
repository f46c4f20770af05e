------------------------------ MODULE PebPool ------------------------------
(***************************************************************************)
(* What the wear-leveling sub-system promises to the EBA layer: physical   *)
(* eraseblocks are handed out only when they are free, are free only after *)
(* an erasure, and are erased only after they were put, or after their     *)
(* contents were moved to another eraseblock.                              *)
(***************************************************************************)
CONSTANT PEBs

VARIABLE st   \* [PEBs -> {"free", "held", "dirty", "bad"}]

Status == {"free", "held", "dirty", "bad"}

PoolTypeOK == st \in [PEBs -> Status]

\* The scan finds PEBs in use, free ones, and ones to be erased.
PoolInit == st \in [PEBs -> {"free", "held", "dirty"}]

\* ubi_wl_get_peb()
Get(p) == st[p] = "free" /\ st' = [st EXCEPT ![p] = "held"]

\* ubi_wl_put_peb(), or a holder that gives up in read-only mode
Put(p) == st[p] = "held" /\ st' = [st EXCEPT ![p] = "dirty"]

\* A free PEB becomes the target of a move.
Reserve(p) == st[p] = "free" /\ st' = [st EXCEPT ![p] = "dirty"]

\* The contents of p are now in q.
Move(p, q) ==
    /\ st[p] = "held" /\ st[q] = "dirty"
    /\ st' = [st EXCEPT ![p] = "dirty", ![q] = "held"]

\* An erasure that succeeds, and one that fails.
Clean(p) == st[p] = "dirty" /\ st' = [st EXCEPT ![p] = "free"]
Retire(p) == st[p] = "dirty" /\ st' = [st EXCEPT ![p] = "bad"]

PoolNext ==
    \E p \in PEBs :
        \/ Get(p) \/ Put(p) \/ Reserve(p) \/ Clean(p) \/ Retire(p)
        \/ \E q \in PEBs : Move(p, q)

PoolSpec == PoolInit /\ [][PoolNext]_st
=============================================================================
