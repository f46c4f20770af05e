------------------------------ MODULE UbifsTnc ------------------------------
(***************************************************************************)
(* The tree node cache of UBIFS: tnc.c, tnc_commit.c, tnc_misc.c, the      *)
(* shrinker, and the garbage collection of index LEBs (gc.c, find.c).      *)
(*                                                                         *)
(* The index is a B-tree of which the nodes that were looked at are in     *)
(* memory, as znodes.  A commit lays out the dirty ones and writes them    *)
(* while the tree goes on changing: a znode it has not written yet is      *)
(* copied by who wants to change it.  The index of the last commit stays   *)
(* on flash until the next one is complete, also when the new nodes are    *)
(* written in the gaps its obsolete nodes leave.                           *)
(*                                                                         *)
(* An index node takes one slot of a LEB.  Leaves are entries, a key and a *)
(* name; keys that are hashes may collide.  A branch that is not in memory *)
(* has no znode (0), one that is not on flash no place (NoAt).             *)
(***************************************************************************)
EXTENDS Integers, Sequences, FiniteSets, SequencesExt, FiniteSetsExt, TLC

CONSTANTS
    Entries,            \* pairs of a key and a name, both numbers
    HashKeys,           \* the keys of directory entries
    DataKeys,           \* the keys of data of one inode
    Seeds,              \* what the journal inserts to begin with; what is
                        \* there already it deletes
    Fanout, LebCnt, Slots,
    MaxOps, MaxCommits, MaxCuts, MaxBackground

ASSUME Sizes ==
    /\ {Fanout, LebCnt, Slots} \subseteq Nat \ {0} /\ Fanout >= 3
    /\ Seeds \in Seq(Entries) /\ Seeds # <<>>

VARIABLES
    flash,      \* the index LEBs, sequences of nodes
    tnc,        \* the tree in memory and what is changed with it
    clist,      \* the znodes of the commit, in the order they are written
    enext,      \* the next of them
    ilebs,      \* the empty LEBs allocated for the commit
    gap_lebs,   \* the LEBs used by the in-the-gaps method
    dirty_idx,  \* the dirty index LEBs at the start of the last commit
    idx_gc,     \* index LEBs that are garbage-collected: <<lnum, unmap>>
    ihead,      \* the index head: LEB and the slots in use
    cmt,        \* how far the commit is
    snap,       \* what the master node of the commit will say
    mst,        \* what the master node says
    entries, snap_entries, saved_entries,   \* history: what is in the index
    ops, commits, cuts, background

flvars == <<flash, ihead>>
cvars == <<clist, enext, ilebs, gap_lebs, dirty_idx, cmt, snap>>
hvars == <<snap_entries, saved_entries>>
bounds == <<ops, commits, cuts, background>>
vars == <<flvars, tnc, cvars, idx_gc, mst, entries, hvars, bounds>>

Lebs == 1 .. LebCnt
NoAt == <<0, 0>>
Root == <<0, 1>>
Ids == 1 .. 60

Branch(key, nm, at, z) == [key |-> key, nm |-> nm, at |-> at, z |-> z]
Znode(lev, br, dirty) ==
    [lev |-> lev, br |-> br, dirty |-> dirty, cow |-> FALSE, cnext |-> FALSE,
     alt |-> FALSE, obs |-> FALSE]
Pad == [lev |-> -1, br |-> <<>>]

\* What is written of a znode.
OnFlash(z) == [lev |-> z.lev, br |-> [n \in DOMAIN z.br |-> [z.br[n] EXCEPT !.z = 0]]]
NodeAt(at) == flash[at[1]][at[2]]

-----------------------------------------------------------------------------
(***************************************************************************)
(* Branches and znodes of a tree t: the znodes, the root, the index nodes  *)
(* of the last commits that are not in the tree any more, LEB properties,  *)
(* the size of the index, and the counters of dirty and clean znodes.      *)
(***************************************************************************)
Live(t) == {z \in DOMAIN t.zn : ~t.zn[z].obs}

\* Where the branch of a znode is: its parent and iip.
Owner(t, z) ==
    IF t.zroot.z = z THEN Root
    ELSE CHOOSE p \in UNION {{<<i, n>> : n \in DOMAIN t.zn[i].br} : i \in Live(t)} :
             t.zn[p[1]].br[p[2]].z = z

Zbr(t, p) == IF p = Root THEN t.zroot ELSE t.zn[p[1]].br[p[2]]
SetZbr(t, p, b) ==
    IF p = Root THEN [t EXCEPT !.zroot = b] ELSE [t EXCEPT !.zn[p[1]].br[p[2]] = b]

NewId(t) == Min(Ids \ DOMAIN t.zn)
AddZnode(t, id, z) ==
    [t EXCEPT !.zn = [i \in DOMAIN @ \cup {id} |-> IF i = id THEN z ELSE @[i]]]
DropZnodes(t, ids) ==
    [t EXCEPT !.zn = [i \in DOMAIN @ \ ids |-> @[i]]]

\* insert_old_idx(); adding one twice is an error.
InsertOldIdx(t, at) ==
    IF at = NoAt THEN t
    ELSE [t EXCEPT !.old = @ \cup {at}, !.twice = @ \/ at \in t.old]

InsOldIdxZnode(t, z) == InsertOldIdx(t, Zbr(t, Owner(t, z)).at)

InsClrOldIdxZnode(t, z) ==
    LET p == Owner(t, z)
    IN SetZbr(InsertOldIdx(t, Zbr(t, p).at), p, [Zbr(t, p) EXCEPT !.at = NoAt])

AddIdxDirt(t, at) == [t EXCEPT !.lp[at[1]].dirty = @ + 1, !.size = @ - 1]

\* ubifs_load_znode()
Load(t, p) ==
    LET b == Zbr(t, p)
        node == NodeAt(b.at)
        id == NewId(t)
    IN IF b.z # 0 THEN t
       ELSE SetZbr([AddZnode(t, id, Znode(node.lev, node.br, FALSE))
                       EXCEPT !.ccnt = @ + 1],
                   p, [b EXCEPT !.z = id])

Child(t, p) == Zbr(t, p).z

\* copy_znode(), and the new branch of it.
CopyZnode(t, p) ==
    LET b == Zbr(t, p)
        id == NewId(t)
        copied == AddZnode([t EXCEPT !.zn[b.z].obs = TRUE, !.dcnt = @ + 1], id,
                           [t.zn[b.z] EXCEPT !.dirty = TRUE, !.cow = FALSE,
                                             !.cnext = FALSE])
    IN [t |-> SetZbr(IF b.at = NoAt THEN copied
                     ELSE AddIdxDirt(InsertOldIdx(copied, b.at), b.at),
                     p, [b EXCEPT !.at = NoAt, !.z = id]),
        z |-> id]

\* A znode that is not being committed.
DirtyInPlace(t, p) ==
    LET b == Zbr(t, p)
    IN [t |-> IF t.zn[b.z].dirty THEN t
              ELSE AddIdxDirt([t EXCEPT !.zn[b.z].dirty = TRUE,
                                        !.dcnt = @ + 1, !.ccnt = @ - 1], b.at),
        z |-> b.z]

\* dirty_cow_znode()
DirtyCow(t, p) ==
    IF t.zn[Child(t, p)].cow THEN CopyZnode(t, p) ELSE DirtyInPlace(t, p)

DirtyChild(d, n) == DirtyCow(d.t, <<d.z, n>>)

\* dirty_cow_bottom_up()
RECURSIVE DirtyBottomUp(_, _)
DirtyBottomUp(t, z) ==
    LET p == Owner(t, z)
    IN IF p = Root \/ (~t.zn[p[1]].cnext /\ t.zn[z].dirty) THEN DirtyCow(t, p)
       ELSE DirtyChild(DirtyBottomUp(t, p[1]), p[2])

EnsureDirty(f) ==
    IF f.t.zn[f.z].cnext \/ ~f.t.zn[f.z].dirty
    THEN DirtyBottomUp(f.t, f.z) @@ f
    ELSE f

-----------------------------------------------------------------------------
(***************************************************************************)
(* Lookup.  A place in the tree is a record of the tree, which loading and *)
(* dirtying have changed, a znode, a slot (0 is before the first), and     *)
(* whether what was looked for is there.                                   *)
(***************************************************************************)

\* ubifs_search_zbranch()
RECURSIVE Search(_, _, _, _)
Search(br, key, beg, end) ==
    LET mid == (beg + end) \div 2
    IN IF end <= beg THEN [n |-> end, found |-> FALSE]
       ELSE IF key > br[mid + 1].key THEN Search(br, key, mid + 1, end)
       ELSE IF key < br[mid + 1].key THEN Search(br, key, beg, mid)
       ELSE [n |-> mid + 1, found |-> TRUE]

SearchZbranch(t, z, key) == Search(t.zn[z].br, key, 0, Len(t.zn[z].br))
Cnt(t, z) == Len(t.zn[z].br)

\* Down one side of a sub-tree to a level.
RECURSIVE DownSide(_, _, _, _)
DownSide(t, p, lev, step) ==
    LET z == Child(t, p)
        n == IF step = 1 THEN 1 ELSE Cnt(t, z)
    IN IF z = 0 THEN DownSide(Load(t, p), p, lev, step)
       ELSE IF t.zn[z].lev = lev THEN [t |-> t, z |-> z, n |-> n, found |-> TRUE]
       ELSE DownSide(t, <<z, n>>, lev, step)

\* left_znode() and right_znode()
RECURSIVE Neighbour(_, _, _, _)
Neighbour(t, z, lev, step) ==
    LET p == Owner(t, z)
    IN IF p = Root THEN [t |-> t, z |-> 0, n |-> 0, found |-> FALSE]
       ELSE IF p[2] + step \in 1 .. Cnt(t, p[1])
       THEN DownSide(t, <<p[1], p[2] + step>>, lev, step)
       ELSE Neighbour(t, p[1], lev, step)

\* Mutant: the znode to the left is not looked at.
PrevHere(f) ==
    IF f.n > 1 THEN [f EXCEPT !.n = @ - 1, !.found = TRUE]
    ELSE [f EXCEPT !.n = 0, !.found = FALSE]
TncPrev(f) ==
    IF f.n > 1 THEN [f EXCEPT !.n = @ - 1, !.found = TRUE]
    ELSE Neighbour(f.t, f.z, 0, -1)
TncNext(f) ==
    IF f.n < Cnt(f.t, f.z) THEN [f EXCEPT !.n = @ + 1, !.found = TRUE]
    ELSE Neighbour(f.t, f.z, 0, 1)

KeyOf(f) == f.t.zn[f.z].br[f.n].key
NameOf(f) == f.t.zn[f.z].br[f.n].nm

RECURSIVE Down(_, _, _, _), DownFrom(_, _, _)
Down(t, p, key, dirty) ==
    IF Child(t, p) = 0 THEN Down(Load(t, p), p, key, dirty)
    ELSE DownFrom(IF dirty THEN DirtyCow(t, p) ELSE [t |-> t, z |-> Child(t, p)], key, dirty)
DownFrom(d, key, dirty) ==
    LET s == SearchZbranch(d.t, d.z, key)
    IN IF d.t.zn[d.z].lev = 0 THEN d @@ s
       ELSE Down(d.t, <<d.z, Max({s.n, 1})>>, key, dirty)

\* An entry before the first of a znode may be the last of the one before.
TryLeft(f, g, key, dirty) ==
    IF ~g.found THEN f
    ELSE IF KeyOf(g) # key THEN [f EXCEPT !.t = g.t]
    ELSE IF dirty THEN EnsureDirty(g) ELSE g
MayBeLeft(f, key, dirty) ==
    IF f.found \/ key \notin HashKeys \/ f.n # 0 THEN f
    ELSE TryLeft(f, TncPrev(f), key, dirty)

\* ubifs_lookup_level0() and lookup_level0_dirty()
LookupLevel0(t, key, dirty) == MayBeLeft(Down(t, Root, key, dirty), key, dirty)

\* Between the last entry of a znode and the first of the next one it is the
\* latter that is right.
AfterEntry(g) ==
    IF g.n = Cnt(g.t, g.z) THEN [TncNext(g) EXCEPT !.n = 0, !.found = FALSE]
    ELSE [g EXCEPT !.found = FALSE]

\* resolve_collision(): f is where the search is, g the entry to the side.
RECURSIVE LookLeft(_, _, _, _), LookRight(_, _, _, _)
LookLeft(f, g, key, nm) ==
    IF ~g.found THEN [f EXCEPT !.n = 0, !.found = FALSE]
    ELSE IF KeyOf(g) # key THEN AfterEntry(g)
    ELSE IF NameOf(g) > nm THEN LookLeft(g, TncPrev(g), key, nm)
    ELSE [g EXCEPT !.found = NameOf(g) = nm]
LookRight(f, g, key, nm) ==
    IF ~g.found THEN [f EXCEPT !.found = FALSE]
    ELSE IF KeyOf(g) # key \/ NameOf(g) > nm THEN [f EXCEPT !.t = g.t, !.found = FALSE]
    ELSE IF NameOf(g) < nm THEN LookRight(g, TncNext(g), key, nm)
    ELSE g

ResolveCollision(f, key, nm) ==
    IF ~f.found \/ key \notin HashKeys THEN f
    ELSE IF NameOf(f) = nm THEN f
    ELSE IF NameOf(f) > nm THEN LookLeft(f, TncPrev(f), key, nm)
    ELSE LookRight(f, TncNext(f), key, nm)

\* A lookup of an entry, and where it would be inserted.
Lookup(t, e, dirty) == ResolveCollision(LookupLevel0(t, e[1], dirty), e[1], e[2])

\* ubifs_tnc_next_ent(): none is <<>> (mutant: the name does not count).
EntAt(g) ==
    IF ~g.found THEN <<>>
    ELSE IF KeyOf(g) \in HashKeys THEN <<KeyOf(g), NameOf(g)>> ELSE <<>>
NextOfKey(t, e) == EntAt(TncNext(LookupLevel0(t, e[1], FALSE)))
NextEnt(t, e) == EntAt(TncNext(Lookup(t, e, FALSE)))

-----------------------------------------------------------------------------
(***************************************************************************)
(* Changes of the tree.                                                    *)
(***************************************************************************)

\* correct_parent_keys(): the key of a first branch became smaller.
RECURSIVE CorrectParents(_, _, _)
CorrectParents(t, z, key) ==
    LET p == Owner(t, z)
    IN IF p = Root \/ p[2] # 1 \/ key >= Zbr(t, p).key THEN t
       ELSE CorrectParents([t EXCEPT !.zn[p[1]].br[1].key = key, !.zn[p[1]].alt = TRUE],
                           p[1], key)

\* insert_zbranch(): in the first slot it changes what the znode is found by.
InsertZbranch(t, z, b, n) ==
    [t EXCEPT !.zn[z].br = InsertAt(@, n, b), !.zn[z].alt = @ \/ n = 1]

\* Mutant: a znode that was inserted at the front is split as any other.
SplitAsIs(t, z) == t

\* A znode that is split may not be found by its key any more.
RecordAlt(t, z) == IF t.zn[z].alt THEN InsClrOldIdxZnode(t, z) ELSE t

\* What stays in a full znode, and whether the new branch goes there:
\* consecutive data keys are not split.
SplitAt(br, b, n, appending, leaf) ==
    LET half == (Fanout + 1) \div 2
        apart == /\ n - 1 >= half /\ n <= Fanout
                 /\ {br[1].key, b.key} \subseteq DataKeys /\ br[n].key \notin DataKeys
        data == leaf /\ b.key \in DataKeys
        append == IF data THEN n = Fanout + 1 /\ br[Fanout].key \in DataKeys
                  ELSE appending /\ n = Fanout + 1
    IN IF apart /\ (data \/ appending)
       THEN [keep |-> n - 1, here |-> TRUE, appending |-> append]
       ELSE LET keep == IF append THEN Fanout ELSE half
            IN [keep |-> IF n <= keep THEN keep - 1 ELSE keep,
                here |-> n <= keep, appending |-> append]

\* The new znode of a split, and the branch in the one or the other.
Split(t, z, s, new) ==
    LET br == t.zn[z].br
    IN [AddZnode([t EXCEPT !.zn[z].br = SubSeq(br, 1, s.keep)], new,
                 Znode(t.zn[z].lev, SubSeq(br, s.keep + 1, Fanout), TRUE))
           EXCEPT !.dcnt = @ + 1]
InsertSplit(t, z, b, n, s, new) ==
    IF s.here THEN InsertZbranch(Split(t, z, s, new), z, b, n)
    ELSE InsertZbranch(Split(t, z, s, new), new, b, n - s.keep)

NewRoot(t, z, right, top) ==
    LET left == [t.zroot EXCEPT !.key = t.zn[z].br[1].key]
    IN [AddZnode(t, top, Znode(t.zn[z].lev + 1, <<left, right>>, TRUE))
           EXCEPT !.dcnt = @ + 1, !.zroot = Branch(0, 0, NoAt, top)]

\* tnc_insert()
RECURSIVE Insert(_, _, _, _, _), InsertUp(_, _, _, _)
Insert(t, z, b, n, appending) ==
    IF Cnt(t, z) < Fanout
    THEN IF n = 1 THEN CorrectParents(InsertZbranch(t, z, b, n), z, b.key)
         ELSE InsertZbranch(t, z, b, n)
    ELSE LET s == SplitAt(t.zn[z].br, b, n, appending, t.zn[z].lev = 0)
             u == InsertSplit(RecordAlt(t, z), z, b, n, s, NewId(t))
         IN InsertUp(IF n = 1 /\ s.here THEN CorrectParents(u, z, b.key) ELSE u,
                     z, NewId(t), s.appending)

\* The znode a split has made, into the parent.
InsertUp(t, z, new, appending) ==
    LET p == Owner(t, z)
        nb == Branch(t.zn[new].br[1].key, 0, NoAt, new)
    IN IF p = Root THEN NewRoot(t, z, nb, NewId(t))
       ELSE Insert(t, p[1], nb, p[2] + 1, appending)

\* A dirty znode leaves the tree; one of the commit is freed at its end.
Discard(t, z) ==
    IF t.zn[z].cnext THEN [t EXCEPT !.zn[z].obs = TRUE, !.dcnt = @ - 1, !.ccnt = @ + 1]
    ELSE [DropZnodes(t, {z}) EXCEPT !.dcnt = @ - 1]

\* The tree is collapsed while its root has one child.
NewTop(d, z) ==
    Discard([InsertOldIdx(d, d.zroot.at) EXCEPT !.zroot = d.zn[z].br[1]], z)

RECURSIVE Collapse(_)
Collapse(t) ==
    LET z == t.zroot.z
    IN IF Cnt(t, z) # 1 \/ t.zn[z].lev = 0 THEN t
       ELSE Collapse(NewTop(DirtyCow(Load(t, <<z, 1>>), <<z, 1>>).t, z))

\* A znode that has become empty goes, with the ancestors it was alone in.
RECURSIVE DropUp(_, _)
DropUp(t, z) ==
    LET p == Owner(t, z)
        u == Discard(InsOldIdxZnode(t, z), z)
    IN IF Cnt(t, p[1]) = 1 THEN DropUp(u, p[1])
       ELSE Collapse([u EXCEPT !.zn[p[1]].br = RemoveAt(@, p[2])])

\* tnc_delete()
Delete(f) ==
    LET u == [f.t EXCEPT !.zn[f.z].br = RemoveAt(@, f.n)]
    IN IF Cnt(f.t, f.z) > 1 THEN u ELSE DropUp(u, f.z)

\* ubifs_tnc_add() and ubifs_tnc_add_nm(): what is there is replaced.
AddAt(f, e) ==
    IF f.found THEN f.t ELSE Insert(f.t, f.z, Branch(e[1], e[2], NoAt, 0), f.n + 1, FALSE)
Added(t, e) == AddAt(EnsureDirty(Lookup(t, e, TRUE)), e)

\* ubifs_tnc_remove() and ubifs_tnc_remove_nm()
RemoveAtPlace(f) == IF f.found THEN Delete(EnsureDirty(f)) ELSE f.t
Removed(t, e) == RemoveAtPlace(Lookup(t, e, TRUE))

\* ubifs_tnc_remove_range(), of the keys of data.  Of a znode all that follow
\* go at once.
Thinned(f) ==
    LET br == f.t.zn[f.z].br
        more == {n \in f.n + 1 .. Len(br) : \A k \in f.n + 1 .. n : br[k].key \in DataKeys}
    IN [f EXCEPT !.t.zn[f.z].br =
           SubSeq(@, 1, f.n) \o SubSeq(@, f.n + 1 + Cardinality(more), Len(@))]

RECURSIVE RemoveRange(_, _), RemoveFrom(_, _)
RemoveRange(f, from) ==
    RemoveFrom(IF f.found THEN f ELSE TncNext(f), from)
RemoveFrom(g, from) ==
    IF ~g.found THEN g.t
    ELSE IF KeyOf(g) \notin DataKeys THEN g.t
    ELSE RemoveRange(LookupLevel0(Delete(Thinned(EnsureDirty(g))), from, FALSE), from)

-----------------------------------------------------------------------------
(***************************************************************************)
(* Index nodes found on flash, by their first key and their place.         *)
(***************************************************************************)
NotFound(t) == [t |-> t, z |-> 0]
ChildAt(t, p) == [t |-> t, z |-> Child(t, p)]
Found(t, p) == ChildAt(Load(t, p), p)

\* The branches to the side, as long as they may have the key.
RECURSIVE LookAside(_, _, _, _), CheckAside(_, _, _, _)
LookAside(f, key, at, step) ==
    IF f.n + step \in 1 .. Cnt(f.t, f.z)
    THEN CheckAside([f EXCEPT !.n = @ + step], key, at, step)
    ELSE CheckAside(Neighbour(f.t, f.z, f.t.zn[f.z].lev, step), key, at, step)
CheckAside(g, key, at, step) ==
    IF ~g.found THEN NotFound(g.t)
    ELSE IF Zbr(g.t, <<g.z, g.n>>).at = at THEN Found(g.t, <<g.z, g.n>>)
    ELSE IF step * (KeyOf(g) - key) > 0 THEN NotFound(g.t)
    ELSE LookAside(g, key, at, step)

\* From a znode down to the parent level; before the first branch of a znode
\* the one to the left is tried.
Searched(t, z, key) == [t |-> t, z |-> z] @@ SearchZbranch(t, z, key)

RECURSIVE DownTo(_, _, _), DownLeft(_, _, _)
DownTo(f, key, lev) ==
    IF f.n = 0 THEN DownLeft(Neighbour(f.t, f.z, f.t.zn[f.z].lev, -1), key, lev)
    ELSE IF f.t.zn[f.z].lev = lev THEN [f EXCEPT !.found = TRUE]
    ELSE IF f.t.zn[f.z].br[f.n].z = 0
    THEN DownTo([f EXCEPT !.t = Load(@, <<f.z, f.n>>)], key, lev)
    ELSE DownTo(Searched(f.t, f.t.zn[f.z].br[f.n].z, key), key, lev)
DownLeft(g, key, lev) ==
    IF g.found THEN DownTo(Searched(g.t, g.z, key), key, lev) ELSE g

\* The branch that was searched for, or those with the same key to its sides.
OrRight(left, f, key, at) ==
    IF left.z # 0 THEN left ELSE LookAside([f EXCEPT !.t = left.t], key, at, 1)
CheckChild(f, key, at) ==
    IF ~f.found THEN NotFound(f.t)
    ELSE IF Zbr(f.t, <<f.z, f.n>>).at = at THEN Found(f.t, <<f.z, f.n>>)
    ELSE IF key \notin HashKeys THEN NotFound(f.t)
    ELSE OrRight(LookAside(f, key, at, -1), f, key, at)

\* lookup_znode(), when the root is in memory
LookupBelow(root, key, lev, at) ==
    IF root.t.zroot.at = at THEN root
    ELSE IF lev >= root.t.zn[root.z].lev THEN NotFound(root.t)
    ELSE CheckChild(DownTo(Searched(root.t, root.z, key), key, lev + 1), key, at)
LookupZnode(t, node, at) == LookupBelow(Found(t, Root), node.br[1].key, node.lev, at)

\* Mutant: what has left the tree is not looked for.
UseInTnc(f, at) ==
    f @@ [use |-> IF f.z = 0 THEN 0 ELSE IF f.t.zn[f.z].dirty THEN 1 ELSE 2]

\* is_idx_node_in_use(): 0 is no, 1 is in the old index only.
Use(f, at) ==
    f @@ [use |-> IF f.z # 0 THEN IF f.t.zn[f.z].dirty THEN 1 ELSE 2
                  ELSE IF at \in f.t.old THEN 1 ELSE 0]
InUse(t, node, at) == Use(LookupZnode(t, node, at), at)

-----------------------------------------------------------------------------
(***************************************************************************)
(* Layout of a commit.                                                     *)
(***************************************************************************)

\* The dirty znodes, children before parents (find_first_dirty() and
\* find_next_dirty()).
RECURSIVE DirtyUnder(_, _)
DirtyUnder(t, z) ==
    IF z = 0 THEN <<>>
    ELSE IF ~t.zn[z].dirty THEN <<>>
    ELSE FlattenSeq([n \in DOMAIN t.zn[z].br |->
                        IF t.zn[z].lev = 0 THEN <<>> ELSE DirtyUnder(t, t.zn[z].br[n].z)])
         \o <<z>>

\* get_znodes_to_commit()
MarkCow(t, list) ==
    [t EXCEPT !.zn = [z \in DOMAIN @ |->
        IF z \in Range(list) THEN [@[z] EXCEPT !.cow = TRUE, !.cnext = TRUE, !.alt = FALSE]
        ELSE @[z]]]

Room == Slots - ihead[2]

\* get_leb_cnt()
NeedLebs(cnt) == (Max({cnt - Room, 0}) + Slots - 1) \div Slots

Empty(lp, l) == lp[l].free + lp[l].dirty = Slots /\ ~lp[l].taken /\ ~lp[l].idx

\* ubifs_find_free_leb_for_idx() for each of a set of LEBs.
TakeLebs(lp, ls) ==
    [l \in Lebs |-> IF l \in ls THEN [free |-> Slots, dirty |-> 0, idx |-> TRUE, taken |-> TRUE]
                    ELSE lp[l]]

\* The branch of a znode, now that it has a place.
Place(t, z, at) ==
    LET p == Owner(t, z)
    IN [SetZbr(t, p, [Zbr(t, p) EXCEPT !.at = at]) EXCEPT !.size = @ + 1, !.dcnt = @ - 1]

\* make_idx_node(), but for the node itself.
MakeIdxNode(t, z, at) ==
    [Place(InsOldIdxZnode(t, z), z, at) EXCEPT !.zn[z].dirty = FALSE, !.zn[z].cow = FALSE]

\* fill_gap(), slot by slot.
RECURSIVE FillGap(_, _, _, _)
FillGap(g, l, from, to) ==
    IF from > to \/ g.next > Len(clist) THEN [g EXCEPT !.pads = @ \cup from .. to]
    ELSE LET z == clist[g.next]
         IN FillGap([g EXCEPT !.t = MakeIdxNode(@, z, <<l, from>>),
                              !.leb = [@ EXCEPT ![from] = OnFlash(g.t.zn[z])],
                              !.next = @ + 1],
                    l, from + 1, to)

\* The loop of layout_leb_in_gaps(): a gap is filled when the node after it is
\* found to be in use.
NextNode(g, u, l, i) ==
    IF u.use = 0 THEN [g EXCEPT !.t = u.t]
    ELSE [FillGap([g EXCEPT !.t = u.t], l, g.gap, i - 1)
             EXCEPT !.gap = i + 1, !.dirt = IF u.use = 1 THEN @ + 1 ELSE @]

GapAt(g, l, i) ==
    IF flash[l][i] = Pad THEN g ELSE NextNode(g, InUse(g.t, flash[l][i], <<l, i>>), l, i)

Scanned(t, l) ==
    FoldLeft(LAMBDA g, i: GapAt(g, l, i),
             [t |-> t, next |-> enext, pads |-> {}, dirt |-> 0, gap |-> 1,
              leb |-> [i \in 1 .. Slots |->
                          IF i \in DOMAIN flash[l] THEN flash[l][i] ELSE Pad]],
             [i \in DOMAIN flash[l] |-> i])

\* layout_leb_in_gaps(): the LEB as it becomes, and what is written.
Packed(g, l) ==
    LET leb == [i \in 1 .. Slots |-> IF i \in g.pads THEN Pad ELSE g.leb[i]]
        len == Max({0} \cup {i \in 1 .. Slots : leb[i] # Pad})
        written == g.next # enext
        dirt == g.dirt + Cardinality({i \in 1 .. len : leb[i] = Pad})
    IN [t |-> IF written \/ g.t.lp[l].free = Slots
              THEN [g.t EXCEPT !.lp[l].free = Slots - len, !.lp[l].dirty = dirt] ELSE g.t,
        leb |-> IF written THEN SubSeq(leb, 1, len) ELSE flash[l],
        next |-> g.next]
LastGap(g, l) == FillGap(g, l, g.gap, Slots)
LebInGaps(t, l) == Packed(LastGap(Scanned(t, l), l), l)

\* layout_in_empty_space(): where the k-th of the znodes goes, and what is
\* left in a LEB after so many.
PlaceOf(k, lebs) ==
    IF k <= Room THEN <<ihead[1], ihead[2] + k>>
    ELSE <<lebs[(k - Room - 1) \div Slots + 1], ((k - Room - 1) % Slots) + 1>>

UsedLebs(n) == (Max({n - Room, 0}) + Slots - 1) \div Slots

LayoutInEmptySpace(t, list, lebs) ==
    LET n == Len(list)
        placed == FoldLeft(LAMBDA u, k: Place(u, list[k], PlaceOf(k, lebs)),
                           t, [k \in 1 .. n |-> k])
        ends == {PlaceOf(k, lebs) : k \in 1 .. n}
        top(l) == Max({p[2] : p \in {q \in ends : q[1] = l}})
    IN [placed EXCEPT !.lp = [l \in Lebs |->
           IF \E p \in ends : p[1] = l THEN [@[l] EXCEPT !.free = Slots - top(l)] ELSE @[l]]]

\* free_unused_idx_lebs()
FreeUnused(lp, lebs) ==
    [l \in Lebs |-> IF l \in Range(lebs) THEN [lp[l] EXCEPT !.idx = FALSE, !.taken = FALSE]
                    ELSE lp[l]]

DirtyIdx(lp) ==
    {l \in Lebs : lp[l].idx /\ ~lp[l].taken /\ lp[l].free + lp[l].dirty \in 1 .. Slots - 1}

\* The rest of ubifs_tnc_start_commit(), when there is room or not.
FinishLayout(t, list, lebs) ==
    LET n == Len(list)
        laid == LayoutInEmptySpace(t, list, lebs)
        lp == FreeUnused(laid.lp, SubSeq(lebs, UsedLebs(n) + 1, Len(lebs)))
    IN IF n > Room + Slots * Len(lebs)
       THEN /\ cmt' = "broken"
            /\ tnc' = t
            /\ UNCHANGED <<dirty_idx, snap, snap_entries>>
       ELSE /\ cmt' = "laid"
            /\ tnc' = [laid EXCEPT !.old = {}, !.lp = lp]
            /\ dirty_idx' = DirtyIdx(lp)
            /\ snap' = [root |-> laid.zroot.at, size |-> laid.size,
                        lp |-> [l \in Lebs |-> [lp[l] EXCEPT !.taken = FALSE]]]
            /\ snap_entries' = entries

-----------------------------------------------------------------------------
(***************************************************************************)
(* Operations of the file system.                                          *)
(***************************************************************************)
Unlocked == cmt \notin {"gaps", "broken"}

Op == /\ Unlocked /\ ops < MaxOps
      /\ ops' = ops + 1
      /\ UNCHANGED <<flvars, cvars, idx_gc, mst, hvars, commits, cuts, background>>

TncAdd(e) ==
    /\ Op
    /\ tnc' = Added(tnc, e)
    /\ entries' = entries \cup {e}

\* The root inode stays.
TncRemove(e) ==
    /\ Op
    /\ e # Seeds[1]
    /\ tnc' = Removed(tnc, e)
    /\ entries' = entries \ {e}

TncRemoveRange(from) ==
    /\ Op
    /\ tnc' = RemoveRange(LookupLevel0(tnc, from, FALSE), from)
    /\ entries' = {e \in entries : e[1] \notin DataKeys \/ e[1] < from}

\* ubifs_tnc_locate(), ubifs_tnc_lookup_nm(): what is read is kept in memory.
TncLookup(e) ==
    /\ Op
    /\ tnc' = Lookup(tnc, e, FALSE).t
    /\ tnc' # tnc
    /\ UNCHANGED entries

-----------------------------------------------------------------------------
(***************************************************************************)
(* Garbage collection and the shrinker.                                    *)
(***************************************************************************)

\* Of an index LEB every node is made dirty; the LEB is free after the next
\* commit (ubifs_garbage_collect_leb()).
DirtyFound(f) == IF f.z = 0 THEN f.t ELSE DirtyBottomUp(f.t, f.z).t
DirtyIdxNode(t, l, i) ==
    IF flash[l][i] = Pad THEN t ELSE DirtyFound(LookupZnode(t, flash[l][i], <<l, i>>))

GcIndexLeb(l) ==
    /\ Unlocked /\ background < MaxBackground
    /\ l \in DirtyIdx(tnc.lp)
    /\ LET t == FoldLeft(LAMBDA u, i: DirtyIdxNode(u, l, i), tnc,
                         [i \in DOMAIN flash[l] |-> i])
       IN tnc' = [t EXCEPT !.lp[l] = [free |-> Slots, dirty |-> 0, idx |-> FALSE,
                                      taken |-> TRUE]]
    /\ idx_gc' = <<<<l, FALSE>>>> \o idx_gc
    /\ background' = background + 1
    /\ UNCHANGED <<flvars, cvars, mst, entries, hvars, ops, commits, cuts>>

\* A clean znode goes with all below it, unless it is of the commit.
Sheddable(t, z) == ~t.zn[z].cnext /\ ~t.zn[z].dirty

RECURSIVE Below(_, _)
Below(t, z) ==
    {z} \cup IF t.zn[z].lev = 0 THEN {}
             ELSE UNION {Below(t, b.z) : b \in {c \in Range(t.zn[z].br) : c.z # 0}}

\* shrink_tnc()
Shrink(z) ==
    /\ Unlocked /\ background < MaxBackground
    /\ Sheddable(tnc, z)
    /\ LET gone == Below(tnc, z)
           p == Owner(tnc, z)
       IN tnc' = [DropZnodes(SetZbr(tnc, p, [Zbr(tnc, p) EXCEPT !.z = 0]), gone)
                     EXCEPT !.ccnt = @ - Cardinality(gone)]
    /\ background' = background + 1
    /\ UNCHANGED <<flvars, cvars, idx_gc, mst, entries, hvars, ops, commits, cuts>>

-----------------------------------------------------------------------------
(***************************************************************************)
(* The commit.                                                             *)
(***************************************************************************)
cother == <<mst, entries, saved_entries, ops, cuts, background>>

\* ubifs_gc_start_commit(), of index LEBs: those without a node in use are
\* free after this commit.
Freeable(lp) == {l \in Lebs : lp[l].idx /\ ~lp[l].taken /\ lp[l].free + lp[l].dirty = Slots}

GcStart(lp) ==
    [l \in Lebs |-> IF l \in Freeable(lp)
                    THEN [free |-> Slots, dirty |-> 0, idx |-> FALSE, taken |-> TRUE]
                    ELSE lp[l]]

IdxGcAll(gc, lp) ==
    SetToSeq({<<l, TRUE>> : l \in Freeable(lp)}) \o [i \in DOMAIN gc |-> <<gc[i][1], TRUE>>]

\* ubifs_tnc_start_commit(), up to the layout.
CommitStart ==
    /\ cmt = "rest" /\ commits < MaxCommits
    /\ LET lp == GcStart(tnc.lp)
           list == DirtyUnder(tnc, tnc.zroot.z)
           marked == MarkCow(tnc, list)
           avail == {l \in Lebs : Empty(lp, l)}
           need == NeedLebs(Len(list))
       IN \E ls \in kSubset(Min({need, Cardinality(avail)}), avail) :
              /\ idx_gc' = IdxGcAll(idx_gc, tnc.lp)
              /\ flash' = [l \in Lebs |-> IF l \in ls THEN <<>> ELSE flash[l]]
              /\ clist' = list
              /\ enext' = 1
              /\ ilebs' = SetToSeq(ls)
              /\ IF Cardinality(ls) < need
                 THEN /\ cmt' = "gaps"
                      /\ tnc' = [marked EXCEPT !.lp = TakeLebs(lp, ls)]
                      /\ UNCHANGED <<dirty_idx, snap, snap_entries>>
                 ELSE FinishLayout([marked EXCEPT !.lp = TakeLebs(lp, ls)], list, SetToSeq(ls))
    /\ commits' = commits + 1
    /\ UNCHANGED <<ihead, gap_lebs, cother>>

\* ubifs_find_dirty_idx_leb(): one of the LEBs that were dirty at the start
\* of the last commit, any index LEB with space, or one that was to be erased.
OfLastCommit == {l \in dirty_idx : tnc.lp[l].idx /\ ~tnc.lp[l].taken}
WithSpace ==
    {l \in Lebs : tnc.lp[l].idx /\ ~tnc.lp[l].taken /\ tnc.lp[l].free + tnc.lp[l].dirty > 0}

GapLebs ==
    IF OfLastCommit # {} THEN OfLastCommit
    ELSE IF WithSpace # {} THEN WithSpace
    ELSE IF idx_gc # <<>> THEN {idx_gc[1][1]} ELSE {}

\* layout_in_gaps(), one LEB; each is changed atomically.
GapLeb(l) ==
    /\ cmt = "gaps"
    /\ l \in GapLebs
    /\ \E r \in {LebInGaps([tnc EXCEPT !.lp[l].idx = TRUE, !.lp[l].taken = TRUE], l)} :
          /\ flash' = [flash EXCEPT ![l] = r.leb]
          /\ enext' = r.next
          /\ IF NeedLebs(Len(clist) - r.next + 1) > Len(ilebs)
             THEN tnc' = r.t /\ UNCHANGED <<cmt, dirty_idx, snap, snap_entries>>
             ELSE FinishLayout(r.t, SubSeq(clist, r.next, Len(clist)), ilebs)
    /\ idx_gc' = IF OfLastCommit \cup WithSpace = {} THEN Tail(idx_gc) ELSE idx_gc
    /\ gap_lebs' = gap_lebs \cup {l}
    /\ UNCHANGED <<ihead, clist, ilebs, commits, cother>>

\* No LEB is left: the rest has to go where it can.
GapsExhausted ==
    /\ cmt = "gaps" /\ GapLebs = {}
    /\ FinishLayout(tnc, SubSeq(clist, enext, Len(clist)), ilebs)
    /\ UNCHANGED <<flvars, clist, enext, ilebs, gap_lebs, idx_gc, commits, cother>>

\* return_gap_lebs()
ReturnGapLebs ==
    /\ cmt = "laid"
    /\ cmt' = "write"
    /\ tnc' = [tnc EXCEPT !.lp = [l \in Lebs |->
                  IF l \in gap_lebs THEN [@[l] EXCEPT !.taken = FALSE] ELSE @[l]]]
    /\ gap_lebs' = {}
    /\ UNCHANGED <<flvars, clist, enext, ilebs, dirty_idx, snap, snap_entries, idx_gc,
                   commits, cother>>

ClearFlags(zn) == IF zn.dirty THEN [zn EXCEPT !.dirty = FALSE] ELSE [zn EXCEPT !.cow = FALSE]

\* write_index(): the node is made from the znode, and the flags are cleared
\* one after the other.
WriteNode ==
    LET z == clist[enext]
        head == IF Room > 0 THEN ihead ELSE <<ilebs[1], 0>>
    IN /\ cmt = "write" /\ enext <= Len(clist)
       /\ tnc.zn[z].dirty /\ tnc.zn[z].cow
       /\ flash' = [flash EXCEPT ![head[1]] = Append(@, OnFlash(tnc.zn[z]))]
       /\ ihead' = <<head[1], head[2] + 1>>
       /\ ilebs' = IF Room > 0 THEN ilebs ELSE Tail(ilebs)
       /\ tnc' = [tnc EXCEPT !.zn[z] = ClearFlags(@),
                             !.lp[ihead[1]].taken = @ /\ Room > 0]
       /\ UNCHANGED <<clist, enext, gap_lebs, dirty_idx, cmt, snap, snap_entries, idx_gc,
                      commits, cother>>

WriteDone ==
    LET z == clist[enext]
    IN /\ cmt = "write" /\ enext <= Len(clist)
       /\ ~(tnc.zn[z].dirty /\ tnc.zn[z].cow)
       /\ tnc' = [tnc EXCEPT !.zn[z] = ClearFlags(@)]
       /\ enext' = enext + 1
       /\ UNCHANGED <<flvars, clist, ilebs, gap_lebs, dirty_idx, cmt, snap, snap_entries,
                      idx_gc, commits, cother>>

\* free_obsolete_znodes()
FreeObsolete ==
    /\ cmt = "write" /\ enext > Len(clist)
    /\ LET gone == {z \in Range(clist) : tnc.zn[z].obs}
           stay == Range(clist) \ gone
           t == DropZnodes(tnc, gone)
       IN tnc' = [t EXCEPT !.zn = [z \in DOMAIN @ |->
                                     IF z \in stay THEN [@[z] EXCEPT !.cnext = FALSE] ELSE @[z]],
                           !.ccnt = @ + Cardinality(stay)]
    /\ clist' = <<>> /\ enext' = 1 /\ ilebs' = <<>>
    /\ cmt' = "master"
    /\ UNCHANGED <<flvars, gap_lebs, dirty_idx, snap, snap_entries, idx_gc, commits, cother>>

\* ubifs_write_master()
WriteMaster ==
    /\ cmt = "master"
    /\ mst' = [root |-> snap.root, size |-> snap.size, lp |-> snap.lp, ihead |-> ihead]
    /\ saved_entries' = snap_entries
    /\ cmt' = "erase"
    /\ UNCHANGED <<flvars, tnc, clist, enext, ilebs, gap_lebs, dirty_idx, snap, snap_entries,
                   idx_gc, entries, bounds>>

\* ubifs_gc_end_commit(), LEB by LEB.
EraseIdxLeb(i) ==
    LET l == idx_gc[i][1]
    IN /\ cmt = "erase" /\ idx_gc[i][2]
       /\ flash' = [flash EXCEPT ![l] = <<>>]
       /\ tnc' = [tnc EXCEPT !.lp[l].taken = FALSE]
       /\ idx_gc' = RemoveAt(idx_gc, i)
       /\ UNCHANGED <<ihead, cvars, hvars, commits, cother>>

CommitEnd ==
    /\ cmt = "erase" /\ \A i \in DOMAIN idx_gc : ~idx_gc[i][2]
    /\ cmt' = "rest"
    /\ UNCHANGED <<flvars, tnc, clist, enext, ilebs, gap_lebs, dirty_idx, snap, idx_gc,
                   hvars, commits, cother>>

-----------------------------------------------------------------------------
(***************************************************************************)
(* A cut of power, and the mount after it: the tree is not in memory, and  *)
(* the index head is cleaned behind what the master node says              *)
(* (ubifs_recover_inl_heads()).                                            *)
(***************************************************************************)
Mounted(m) ==
    [zn |-> <<>>, zroot |-> Branch(0, 0, m.root, 0), old |-> {}, twice |-> FALSE,
     lp |-> [m.lp EXCEPT ![m.ihead[1]].taken = TRUE], size |-> m.size,
     dcnt |-> 0, ccnt |-> 0]

PowerCut ==
    /\ cuts < MaxCuts
    /\ cuts' = cuts + 1
    /\ tnc' = Mounted(mst)
    /\ ihead' = mst.ihead
    /\ flash' = [flash EXCEPT ![mst.ihead[1]] = SubSeq(@, 1, mst.ihead[2])]
    /\ clist' = <<>> /\ enext' = 1 /\ ilebs' = <<>> /\ gap_lebs' = {} /\ dirty_idx' = {}
    /\ idx_gc' = <<>>
    /\ cmt' = "rest"
    /\ entries' = saved_entries /\ snap_entries' = saved_entries
    /\ UNCHANGED <<snap, mst, saved_entries, ops, commits, background>>

\* A file system as mkfs leaves it, with the seeds replayed from the journal.
Seeded(s, e) ==
    IF e \in s.entries
    THEN [t |-> Removed(s.t, e), entries |-> s.entries \ {e}]
    ELSE [t |-> Added(s.t, e), entries |-> s.entries \cup {e}]

Init ==
    LET root == Znode(0, <<Branch(Seeds[1][1], Seeds[1][2], NoAt, 0)>>, FALSE)
        m == [root |-> <<1, 1>>, size |-> 1, ihead |-> <<1, 1>>,
              lp |-> [l \in Lebs |-> [free |-> IF l = 1 THEN Slots - 1 ELSE Slots, dirty |-> 0,
                                      idx |-> l = 1, taken |-> FALSE]]]
        seeded == FoldLeft(Seeded, [t |-> Mounted(m), entries |-> {Seeds[1]}], Tail(Seeds))
    IN /\ flash = [l \in Lebs |-> IF l = 1 THEN <<OnFlash(root)>> ELSE <<>>]
       /\ mst = m /\ ihead = <<1, 1>>
       /\ tnc = seeded.t
       /\ clist = <<>> /\ enext = 1 /\ ilebs = <<>> /\ gap_lebs = {} /\ dirty_idx = {}
       /\ idx_gc = <<>> /\ cmt = "rest"
       /\ snap = [root |-> NoAt, size |-> 0, lp |-> m.lp]
       /\ entries = seeded.entries /\ saved_entries = {Seeds[1]} /\ snap_entries = {Seeds[1]}
       /\ ops = 0 /\ commits = 0 /\ cuts = 0 /\ background = 0

Next ==
    \/ \E e \in Entries : TncAdd(e) \/ TncRemove(e) \/ TncLookup(e)
    \/ \E k \in DataKeys : TncRemoveRange(k)
    \/ \E l \in Lebs : GcIndexLeb(l) \/ GapLeb(l)
    \/ \E z \in Live(tnc) : Shrink(z)
    \/ CommitStart \/ GapsExhausted \/ ReturnGapLebs \/ WriteNode \/ WriteDone
    \/ FreeObsolete \/ WriteMaster \/ CommitEnd
    \/ \E i \in DOMAIN idx_gc : EraseIdxLeb(i)
    \/ PowerCut

Spec == Init /\ [][Next]_vars

-----------------------------------------------------------------------------
(***************************************************************************)
(* Properties.                                                             *)
(***************************************************************************)
Node(t, b) ==
    IF b.z # 0 THEN t.zn[b.z]
    ELSE IF b.at[1] \in Lebs /\ b.at[2] \in DOMAIN flash[b.at[1]] THEN NodeAt(b.at) ELSE Pad

\* The entries under a branch; a node that is not there is none.
RECURSIVE Walk(_, _, _)
Walk(t, b, lev) ==
    LET node == Node(t, b)
    IN IF node = Pad \/ lev \notin {-1, node.lev} THEN {<<0, 0>>}
       ELSE IF node.lev = 0 THEN {<<c.key, c.nm>> : c \in Range(node.br)}
       ELSE UNION {Walk(t, c, node.lev - 1) : c \in Range(node.br)}

\* The index is the set of entries it should be, and a lookup finds each of
\* them and nothing else: also with keys that collide, spread over znodes,
\* and after splits and deletions left the keys of parents behind
\* (ubifs_lookup_level0(), resolve_collision()).
IndexIsMap ==
    /\ Walk(tnc, tnc.zroot, -1) = entries
    /\ \A e \in Entries : Lookup(tnc, e, FALSE).found <=> e \in entries

\* A directory is read entry by entry, each time from the name of the last
\* one: what follows it is found also when it has been removed meanwhile, and
\* among names that collide (ubifs_tnc_next_ent()).
After(e, f) == f[1] > e[1] \/ (f[1] = e[1] /\ f[2] > e[2])

ReaddirResumes ==
    \A e \in {x \in Entries : x[1] \in HashKeys} :
        LET rest == {f \in entries : f[1] \in HashKeys /\ After(e, f)}
            next == NextEnt(tnc, e)
        IN IF rest = {} THEN next = <<>>
           ELSE next \in rest /\ \A f \in rest : ~After(f, next)

\* The counters of dirty and clean znodes that the shrinker and the budget
\* read are exact, but for znodes of a commit, which come to the clean ones at
\* its end.
CountsExact ==
    cmt \notin {"gaps", "broken"} =>
        /\ tnc.dcnt = Cardinality({z \in Live(tnc) : tnc.zn[z].dirty /\ ~tnc.zn[z].cow})
        /\ tnc.ccnt + Cardinality({z \in Range(clist) : ~tnc.zn[z].obs})
             = Cardinality({z \in Live(tnc) : ~tnc.zn[z].dirty \/ tnc.zn[z].cow})

\* The places the index refers to are the size of the index, and with the
\* free and the dirty space they are all of an index LEB: no space is lost or
\* counted twice (add_idx_dirt(), layout_leb_in_gaps()).
RECURSIVE Places(_, _)
Places(t, b) ==
    LET node == Node(t, b)
        own == IF b.z = 0 \/ ~node.dirty \/ node.cow THEN {b.at} ELSE {}
    IN own \cup IF node.lev <= 0 THEN {} ELSE UNION {Places(t, c) : c \in Range(node.br)}

IdxAccounts ==
    cmt \notin {"gaps", "broken"} =>
        LET used == Places(tnc, tnc.zroot)
        IN /\ tnc.size = Cardinality(used)
           /\ \A l \in Lebs : tnc.lp[l].free + tnc.lp[l].dirty
                                 + Cardinality({p \in used : p[1] = l}) = Slots

\* An obsolete index node is recorded once ("old idx added twice!").
OldIdxOnce == ~tnc.twice

\* A znode of the commit is there until the commit frees it, and what the
\* tree has dropped is not kept for ever (free_obsolete_znodes(), shrink_tnc()).
ListAlive ==
    /\ Range(clist) \subseteq DOMAIN tnc.zn
    /\ \A z \in DOMAIN tnc.zn : tnc.zn[z].cnext <=> z \in Range(clist)
    /\ \A z \in DOMAIN tnc.zn : tnc.zn[z].obs => z \in Range(clist)

\* Every node of the index on flash is found by its first key and its place,
\* or it is recorded: else the in-the-gaps method would overwrite it
\* (lookup_znode(), insert_zbranch()).
OldKnown ==
    cmt = "rest" =>
        \A p \in Places(Mounted(mst), Branch(0, 0, mst.root, 0)) :
            InUse(tnc, NodeAt(p), p).use # 0

\* The accounts of znodes, of space and of obsolete nodes are exact.
TncInv == CountsExact /\ IdxAccounts /\ OldIdxOnce /\ ListAlive /\ OldKnown

\* The index is saved as it was when the commit started, at once, while it
\* goes on changing; a cut of power takes it back to what was saved.
Saving == INSTANCE SnapshotIndex WITH
    entries <- Walk(tnc, tnc.zroot, -1),
    snap <- snap_entries,
    saved <- Walk(Mounted(mst), Branch(0, 0, mst.root, 0), -1)

SavesSnapshots == Saving!Spec

=============================================================================
