----------------------------- MODULE UbifsSpace -----------------------------
(***************************************************************************)
(* The space of a UBIFS file system: the properties of the LEBs of the main *)
(* area and the counters kept of them (lprops.c), the search for LEBs for   *)
(* the journal, the index and the garbage collector (find.c), budgeting     *)
(* (budget.c), the garbage collector (gc.c), and what the journal and the   *)
(* commit ask of them (journal.c, tnc_commit.c, log.c).                     *)
(*                                                                         *)
(* Sizes are in units of one index node, which is also the smallest node   *)
(* and the unit of input and output.  The index is a number of znodes, of  *)
(* which some are dirty; which keys they hold is UbifsTnc.  All LEB         *)
(* properties are in memory, so the flash is never scanned for them.       *)
(***************************************************************************)
EXTENDS Integers, FiniteSets, FiniteSetsExt, Functions

CONSTANTS
    LEBs,          \* LEBs of the main area
    LebSize,
    Heads,         \* journal heads, with GCHD
    GCHD,
    HeadOf,        \* the head a request writes to
    Threads,       \* what writes: each has one page or deletion at a time
    Requests,      \* [Requests -> [idx, data, dd]] is what each budgets
    Growth,
    Privileged,    \* threads that may use the reserved pool
    RpSize,
    Sizes,         \* sizes of nodes
    DeadWm, DarkWm, MinWrite, MinIdxNode, MinIndexLebs, HeapSize,
    MaxMkspcRetries, MaxRetries, SoftLimit, HardLimit,
    Mounts,        \* file systems to start from
    MaxOps, MaxEvents

None == 0
ASSUME SpaceAssumption ==
    /\ None \notin LEBs /\ None \notin Threads
    /\ Requests = {"new", "change", "del"}
    /\ GCHD \in Heads /\ HeadOf \in [Requests -> Heads \ {GCHD}]
    /\ Growth \in [Requests -> [idx : Nat, data : Nat, dd : Nat]]

ASSUME SizeAssumption ==
    /\ LebSize \in Nat \ {0} /\ HeapSize \in Nat \ {0} /\ Sizes \subseteq Nat \ {0}
    /\ {DeadWm, DarkWm, MinWrite, MinIdxNode, MinIndexLebs} \subseteq Nat
    /\ LEBs \subseteq Nat
    /\ IsFiniteSet(LEBs) /\ IsFiniteSet(Heads) /\ IsFiniteSet(Threads) /\ IsFiniteSet(Sizes)

Num(b) == IF b THEN 1 ELSE 0
Size(n) == SumFunction([s \in Sizes |-> s * n[s]])
Spc(p) == p.free + p.dirty

\* What a mount reads: the properties of a LEB count its nodes, the head of
\* the index is a LEB of the index, and what the collector has reserved is empty.
ASSUME MountAssumption ==
    \A m \in Mounts :
        /\ m.lp \in [LEBs -> [free : Nat, dirty : Nat, index : BOOLEAN]]
        /\ m.live \in [LEBs -> [Sizes -> Nat]]
        /\ \A l \in LEBs :
              IF m.lp[l].index
              THEN /\ Spc(m.lp[l]) <= LebSize /\ Size(m.live[l]) = 0
                   /\ m.lp[l].free = LebSize => l = m.ihead
              ELSE Spc(m.lp[l]) + Size(m.live[l]) = LebSize
        /\ m.ihead \in LEBs /\ m.lp[m.ihead].index
        /\ m.gc_lnum \in LEBs
        /\ m.lp[m.gc_lnum] = [free |-> LebSize, dirty |-> 0, index |-> FALSE]

VARIABLES
    sp,            \* LEB properties, c->lst with freeable_cnt and idx_gc_cnt, and
                   \* whether they have been changed since the last commit
    live,          \* of each data LEB and size: its nodes in use
    jh,            \* write-buffers of the journal heads
    pend,          \* LEBs with nodes a write-buffer not yet on flash replaces
    gc_lnum, idx_gc, buds, old_buds,
    bi,            \* struct ubifs_budg_info
    dirty_zn,      \* dirty znodes
    calc_idx_sz,
    old_idx,       \* nodes of the committed index no longer in use, by LEB
    dirty_idx,     \* index LEBs that were dirty at the last commit
    committed,     \* LEBs of the index the master node refers to
    th, gc, cmt,   \* threads, the garbage collector, the commit
    lp_mutex,      \* who holds it between two sections of space_lock
    required,      \* a commit is required
    lost,          \* something still needed has been erased
    ops, events

lpvars == <<sp, lp_mutex>>
data == <<live, jh, pend, gc_lnum, buds>>
index == <<dirty_zn, calc_idx_sz, old_idx, dirty_idx, committed>>
vars == <<sp, live, jh, pend, gc_lnum, idx_gc, buds, old_buds, bi, dirty_zn, calc_idx_sz,
          old_idx, dirty_idx, committed, th, gc, cmt, lp_mutex, required, lost, ops, events>>


-----------------------------------------------------------------------------
(***************************************************************************)
(* LEB properties.                                                         *)
(***************************************************************************)
\* ubifs_categorize_lprops()
Categorize(p) ==
    CASE p.taken -> "uncat"
      [] ~p.taken /\ p.free = LebSize -> "empty"
      [] ~p.taken /\ p.free # LebSize /\ Spc(p) = LebSize ->
            IF p.index THEN "frdi_idx" ELSE "freeable"
      [] OTHER ->
            IF p.index THEN IF Spc(p) >= MinIdxNode THEN "dirty_idx" ELSE "uncat"
            ELSE IF p.dirty >= DeadWm /\ p.dirty > p.free THEN "dirty"
            ELSE IF p.free > 0 THEN "free" ELSE "uncat"

OnHeap(cat) == cat \in {"dirty", "dirty_idx", "free"}

\* get_heap_comp_val()
CompVal(p, cat) ==
    CASE cat = "free" -> p.free [] cat = "dirty_idx" -> Spc(p) [] OTHER -> p.dirty

\* LEBs that do not differ in anything are interchangeable.
Same(l, k) ==
    /\ sp.lp[l] = sp.lp[k] /\ live[l] = live[k] /\ old_idx[l] = old_idx[k]
    /\ \A s \in Range(pend) \cup {committed, dirty_idx, cmt.nxt} : l \in s <=> k \in s
OneOfEach(ls) == {l \in ls : \A k \in ls : k < l => ~Same(k, l)}

Cat(s, cat) == {l \in LEBs : s.lp[l].cat = cat}
Top(s, cat) == {l \in Cat(s, cat) : \A k \in Cat(s, cat) :
                                        CompVal(s.lp[l], cat) >= CompVal(s.lp[k], cat)}
Bottom(s, cat) ==
    CHOOSE l \in Cat(s, cat) : \A k \in Cat(s, cat) :
                                   CompVal(s.lp[l], cat) <= CompVal(s.lp[k], cat)

\* add_to_lpt_heap(): of a full heap, one at the bottom gives way to a better.
AddToHeap(lp, l, cat) ==
    LET b == Bottom([lp |-> lp], cat)
    IN IF Cardinality(Cat([lp |-> lp], cat)) < HeapSize
       THEN [lp EXCEPT ![l].cat = cat]
       ELSE IF CompVal(lp[l], cat) > CompVal(lp[b], cat)
       THEN [lp EXCEPT ![l].cat = cat, ![b].cat = "uncat"]
       ELSE [lp EXCEPT ![l].cat = "uncat"]

\* change_category()
ChangeCategory(lp, l) ==
    LET cat == Categorize(lp[l])
    IN IF cat = lp[l].cat THEN lp
       ELSE IF OnHeap(cat) THEN AddToHeap([lp EXCEPT ![l].cat = "none"], l, cat)
       ELSE [lp EXCEPT ![l].cat = cat]

\* ubifs_calc_dark()
CalcDark(spc) ==
    IF spc < DarkWm THEN spc
    ELSE IF spc - DarkWm < MinWrite THEN spc - MinWrite ELSE DarkWm

DeadOf(p) == IF ~p.index /\ Spc(p) < DeadWm THEN Spc(p) ELSE 0
DarkOf(p) == IF ~p.index /\ Spc(p) >= DeadWm THEN CalcDark(Spc(p)) ELSE 0
UsedOf(p) == IF p.index THEN 0 ELSE LebSize - Spc(p)
EmptyOf(p) == Num(p.free = LebSize)
TakenOf(p) == Num(p.taken /\ p.free = LebSize)

\* ubifs_change_lp(): the properties become n, idx_gc_cnt changes by d.
ChangeLp(s, l, n, d) ==
    LET o == s.lp[l]
        lp == ChangeCategory([s.lp EXCEPT ![l] = n], l)
    IN [lp |-> lp, dirty |-> TRUE,
        lst |-> [empty |-> s.lst.empty + EmptyOf(n) - EmptyOf(o),
                 taken |-> s.lst.taken + TakenOf(n) - TakenOf(o),
                 idx |-> s.lst.idx + Num(n.index) - Num(o.index),
                 used |-> s.lst.used + UsedOf(n) - UsedOf(o),
                 dead |-> s.lst.dead + DeadOf(n) - DeadOf(o),
                 dark |-> s.lst.dark + DarkOf(n) - DarkOf(o),
                 freeable |-> s.lst.freeable + Num(lp[l].cat = "freeable")
                                             - Num(o.cat = "freeable"),
                 idx_gc |-> s.lst.idx_gc + d]]

\* ubifs_return_leb(), ubifs_add_dirt(), and others of their kind.
Take(s, l) == ChangeLp(s, l, [s.lp[l] EXCEPT !.taken = TRUE], 0)
ReturnLeb(s, l) == ChangeLp(s, l, [s.lp[l] EXCEPT !.taken = FALSE], 0)
AddDirt(s, l, n) == ChangeLp(s, l, [s.lp[l] EXCEPT !.dirty = @ + n], 0)
SetSpace(s, l, free, dirty) == ChangeLp(s, l, [s.lp[l] EXCEPT !.free = free, !.dirty = dirty], 0)

\* The same for each LEB of a set.
ForAll(Op(_, _), s, ls) == FoldSet(LAMBDA l, r : Op(r, l), s, ls)

\* Nothing of a LEB may be needed when it is erased (ubifs_leb_unmap()).
NeededBy(pd, l) == l \in committed \cup UNION Range(pd) \/ Size(live[l]) > 0
Needed(l) == NeededBy(pend, l)

\* Nobody reads under commit_sem while the commit starts.
Exclusive == {"alloc", "gaps", "layout", "finish"}

\* ubifs_get_lprops()
LpFree == lp_mutex.by = "nobody"
Unlocked == [by |-> "nobody", pick |-> FALSE, excl |-> FALSE]

-----------------------------------------------------------------------------
(***************************************************************************)
(* Budgeting.                                                              *)
(***************************************************************************)
DivUp(a, b) == (a + b - 1) \div b
Pos(n) == IF n > 0 THEN n ELSE 0

\* ubifs_calc_min_idx_lebs()
MinIdxLebs(b) ==
    LET n == DivUp(3 * (b.old + b.idx + b.uncommitted), LebSize) + 1
    IN IF n < MinIndexLebs THEN MinIndexLebs ELSE n

\* The LEBs the index may take, and those it has not taken of its share.
IdxAvail(s) == s.lst.empty + s.lst.freeable + s.lst.idx_gc - s.lst.taken
Rsvd(s, min_idx) == Pos(min_idx - s.lst.idx)

\* Mutant: the LEBs of the journal heads and of deletions are not set aside.
AvailableAll(s, min_idx) ==
    Pos(Cardinality(LEBs) * LebSize - s.lst.used - (min_idx + 1) * LebSize
        - s.lst.dead - s.lst.dark - Pos(s.lst.idx - min_idx) * DarkWm)

\* ubifs_calc_available()
Available(s, min_idx) ==
    Pos(Cardinality(LEBs) * LebSize - s.lst.used
        - (min_idx + 1 + (Cardinality(Heads) - 1) + 1) * LebSize
        - s.lst.dead - s.lst.dark - Pos(s.lst.idx - min_idx) * DarkWm)

\* do_budget_space()
Fits(b, t) ==
    LET available == Available(sp, MinIdxLebs(b))
    IN /\ Rsvd(sp, MinIdxLebs(b)) <= IdxAvail(sp)
       /\ b.data + b.dd <= available
       /\ available - (b.data + b.dd) > RpSize \/ t \in Privileged

WithGrowth(b, g) == [b EXCEPT !.idx = @ + g.idx, !.data = @ + g.data, !.dd = @ + g.dd]
Recalculated(b) == [b EXCEPT !.min_idx = MinIdxLebs(b)]
Liability == bi.idx + bi.data + bi.dd
NoGrowth == [idx |-> 0, data |-> 0, dd |-> 0]
Idle == [pc |-> "idle", kind |-> "none", held |-> NoGrowth, any |-> FALSE, leb |-> None,
         offs |-> 0, len |-> 0, liab |-> 0, tries |-> 0, nospc |-> 0, retried |-> FALSE,
         err |-> "none"]
NoGc == [by |-> None, any |-> FALSE, pc |-> "off", i |-> 0, min |-> DeadWm, leb |-> None,
         moved |-> FALSE, before |-> 0, err |-> "none"]

\* A budget is refused: a deletion goes on without one.
Refused(t) ==
    th' = [th EXCEPT ![t] = IF th[t].kind = "del" THEN [Idle EXCEPT !.pc = "dirty", !.kind = "del"]
                            ELSE Idle]

Request(t, k) ==
    /\ th[t].pc = "idle" /\ ops < MaxOps
    /\ th' = [th EXCEPT ![t] = [@ EXCEPT !.pc = "again", !.kind = k, !.retried = FALSE]]
    /\ ops' = ops + 1
    /\ UNCHANGED <<sp, data, idx_gc, old_buds, bi, index, gc, cmt, lp_mutex, required, lost, events>>

idle == <<sp, data, idx_gc, old_buds, index, gc, cmt, lp_mutex, lost, ops, events>>

\* ubifs_budget_space()
BudgetSpace(t) ==
    LET g == Growth[th[t].kind]
        b == WithGrowth(bi, g)
    IN /\ th[t].pc = "again"
       /\ IF bi.nospace /\ (bi.nospace_rp \/ t \notin Privileged)
          THEN Refused(t) /\ UNCHANGED bi
          ELSE IF Fits(b, t)
          THEN /\ bi' = Recalculated(b)
               /\ th' = [th EXCEPT ![t] = [Idle EXCEPT !.pc = "dirty", !.kind = th[t].kind, !.held = g]]
          ELSE /\ th' = [th EXCEPT ![t].pc = "mkspc", ![t].tries = 0]
               /\ UNCHANGED bi
       /\ UNCHANGED <<idle, required>>

\* make_free_space(): others write back what they have meanwhile.
Shrink(t) ==
    /\ th[t].pc = "mkspc"
    /\ th' = [th EXCEPT ![t].pc = "shrunk", ![t].liab = Liability]
    /\ UNCHANGED <<idle, bi, required>>

Shrunk(t) ==
    /\ th[t].pc = "shrunk"
    /\ cmt.pc \notin Exclusive
    /\ th' = [th EXCEPT ![t].pc = IF Liability < th[t].liab THEN "again" ELSE "gcwait",
                        ![t].liab = 0, ![t].any = TRUE]
    /\ UNCHANGED <<idle, bi, required>>

\* run_gc(): what it returned.
GcFreed(t) ==
    /\ th[t].pc = "gcdone" /\ th[t].any /\ th[t].leb # None /\ LpFree
    /\ sp' = ReturnLeb(sp, th[t].leb)
    /\ th' = [th EXCEPT ![t].pc = "again", ![t].leb = None, ![t].err = "none"]
    /\ UNCHANGED <<data, idx_gc, old_buds, bi, index, gc, cmt, lp_mutex, required, lost, ops, events>>

GcFailed(t) ==
    /\ th[t].pc = "gcdone" /\ th[t].any /\ th[t].leb = None
    /\ th' = [th EXCEPT ![t].pc = "commit", ![t].err = "none"]
    /\ UNCHANGED <<idle, bi, required>>

\* The commit is over: once more, and in the end there is no space.
MkspcRetry(t) ==
    /\ th[t].pc = "committed" /\ th[t].any
    /\ IF th[t].tries < MaxMkspcRetries
       THEN th' = [th EXCEPT ![t].pc = "mkspc", ![t].tries = @ + 1] /\ UNCHANGED bi
       ELSE IF ~th[t].retried
       THEN th' = [th EXCEPT ![t].pc = "again", ![t].retried = TRUE] /\ UNCHANGED bi
       ELSE /\ Refused(t)
            /\ bi' = [bi EXCEPT !.nospace = TRUE,
                                !.nospace_rp = @ \/ t \in Privileged \/ RpSize = 0]
    /\ UNCHANGED <<idle, required>>

\* ubifs_convert_page_budget()
Convert(t) ==
    LET g == th[t].held
        n == [idx |-> 0, data |-> 0, dd |-> g.dd + g.data]
    IN /\ th[t].pc = "dirty" /\ th[t].kind = "new" /\ g.data > 0
       /\ bi' = Recalculated([bi EXCEPT !.idx = @ - g.idx, !.data = @ - g.data, !.dd = @ + g.data])
       /\ th' = [th EXCEPT ![t].held = n, ![t].kind = "change"]
       /\ UNCHANGED <<idle, required>>

\* Mutant: the reservation for the index is not recalculated.
ReleasedStale(b, g) ==
    [b EXCEPT !.idx = @ - g.idx, !.data = @ - g.data, !.dd = @ - g.dd]

Released(b, g) ==
    Recalculated([b EXCEPT !.idx = @ - g.idx, !.uncommitted = @ + g.idx,
                           !.data = @ - g.data, !.dd = @ - g.dd])

\* ubifs_release_budget(), and what a deletion without a budget does at its end.
Release(t) ==
    /\ th[t].pc = "written"
    /\ LET g == th[t].held
           b == IF g = NoGrowth THEN bi ELSE Released(bi, g)
       IN bi' = [b EXCEPT !.nospace = FALSE, !.nospace_rp = FALSE]
    /\ th' = [th EXCEPT ![t] = Idle]
    /\ UNCHANGED <<idle, required>>

-----------------------------------------------------------------------------
(***************************************************************************)
(* The journal: a page or a deletion is written to its head.                *)
(***************************************************************************)
Room(h) == IF jh[h].leb = None THEN 0 ELSE LebSize - jh[h].offs - jh[h].used

\* ubifs_wbuf_sync_nolock(), of some heads: what is on flash is accounted
\* (bud_wbuf_callback()).
SyncOne(s, h) ==
    IF jh[h].used = 0 THEN s
    ELSE ChangeLp(s, jh[h].leb, [s.lp[jh[h].leb] EXCEPT !.free = LebSize - jh[h].offs - jh[h].used], 0)
Synced(s, hs) == FoldSet(LAMBDA h, r : SyncOne(r, h), s, hs)
SyncedHead(w) == [w EXCEPT !.offs = @ + w.used, !.used = 0]
JhSynced(hs) == [h \in Heads |-> IF h \in hs THEN SyncedHead(jh[h]) ELSE jh[h]]
PendSynced(hs) == [h \in Heads |-> IF h \in hs THEN {} ELSE pend[h]]
Seek(w, l, offs) == [w EXCEPT !.leb = l, !.offs = offs, !.used = 0]
Unheld(hs) == \A h \in hs : jh[h].by = None
Others == Heads \ {GCHD}

jother == <<idx_gc, old_buds, bi, index, gc, cmt, required, lost, ops, events>>

\* make_reservation(): the sizes of nodes are known only now.
Write(t) ==
    /\ th[t].pc = "dirty" /\ cmt.pc \notin Exclusive
    /\ \E n \in Sizes :
          /\ n <= Growth[th[t].kind].data + Growth[th[t].kind].dd
          /\ th' = [th EXCEPT ![t] = [@ EXCEPT !.pc = "reserve", !.len = n, !.any = FALSE,
                                              !.tries = 0, !.nospc = 0]]
    /\ UNCHANGED <<lpvars, data, jother>>

\* A node of a page that is no longer in use, in any LEB.
InUse(l, n) == l \in LEBs /\ live[l][n] > 0

\* A znode is changed: its place in the index is then obsolete
\* (dirty_cow_znode(), add_idx_dirt()); or it was dirty before.
IdxLive == {l \in LEBs : sp.lp[l].index /\ Spc(sp.lp[l]) < LebSize}
WithZnode(s, z) == IF z = None THEN s ELSE AddDirt(s, z, 1)
DirtyZnode(z, added) ==
    /\ z \in IdxLive \cup IF dirty_zn > 0 THEN {None} ELSE {}
    /\ dirty_zn' = dirty_zn + Num(z # None) + added
    /\ calc_idx_sz' = calc_idx_sz - Num(z # None)
    /\ old_idx' = IF z = None THEN old_idx ELSE [old_idx EXCEPT ![z] = @ + 1]
    /\ UNCHANGED <<dirty_idx, committed>>

\* ubifs_jnl_write_data(), ubifs_jnl_update(): a new page has a node and, at
\* worst, a znode more; a change replaces a node; a deletion removes one, and
\* its own node is dirt from the start.
Replaces(k) == k # "new"
WriteNode(t) ==
    LET h == HeadOf[th[t].kind]
        l == jh[h].leb
        len == th[t].len
        del == th[t].kind = "del"
    IN /\ th[t].pc = "reserve" /\ Unheld({h}) /\ LpFree
       /\ Room(h) >= len
       /\ \E z \in LEBs \cup {None}, added \in (IF th[t].kind = "new" THEN {0, 1} ELSE {0}) :
          \E v \in (IF Replaces(th[t].kind) THEN {n \in LEBs \X Sizes : InUse(n[1], n[2])}
                   ELSE {<<None, 0>>}) :
             LET written == IF del THEN live ELSE [live EXCEPT ![l][len] = @ + 1]
                 s == IF v[1] = None THEN WithZnode(sp, z)
                      ELSE AddDirt(WithZnode(sp, z), v[1], v[2])
             IN /\ DirtyZnode(z, added)
                /\ sp' = IF del THEN AddDirt(s, l, len) ELSE s
                /\ live' = IF v[1] = None THEN written ELSE [written EXCEPT ![v[1]][v[2]] = @ - 1]
                /\ pend' = [pend EXCEPT ![h] = @ \cup ({v[1]} \ {None})]
                /\ jh' = [jh EXCEPT ![h].used = @ + len]
       /\ th' = [th EXCEPT ![t].pc = "written"]
       /\ UNCHANGED <<gc_lnum, buds, idx_gc, old_buds, bi, gc, cmt, lp_mutex, required, lost, ops, events>>

\* do_find_free_space(), with everything in memory.
Fitting(ls, len) == {l \in ls : sp.lp[l].free >= len}
FreeLebs(len, pick, squeeze) ==
    LET top == Fitting(Top(sp, "free"), len)
        empty == IF pick THEN Cat(sp, "empty") ELSE {}
        dirty == Fitting(Cat(sp, "dirty"), len)
    IN IF squeeze /\ top # {} THEN top
       ELSE IF empty # {} THEN empty
       ELSE IF top # {} THEN top
       ELSE IF dirty # {} THEN dirty
       ELSE {l \in Fitting(Cat(sp, "uncat"), len) : ~sp.lp[l].taken /\ ~sp.lp[l].index}

\* ubifs_find_free_space(): under space_lock, whether an empty LEB may be
\* taken, which is then counted as taken; then the LEB is looked for; then
\* it has been counted twice.
FindFree(t) ==
    LET h == HeadOf[th[t].kind]
        pick == /\ Rsvd(sp, bi.min_idx) < IdxAvail(sp)
                /\ sp.lst.empty - sp.lst.taken > 0
    IN /\ th[t].pc = "reserve" /\ Unheld({h}) /\ LpFree
       /\ Room(h) < th[t].len
       /\ lp_mutex' = [by |-> "find", pick |-> pick, excl |-> FALSE]
       /\ sp' = [sp EXCEPT !.lst.taken = @ + Num(pick)]
       /\ jh' = [jh EXCEPT ![h].by = t]
       /\ th' = [th EXCEPT ![t].pc = "find"]
       /\ UNCHANGED <<live, pend, gc_lnum, buds, jother>>

FindFreeLeb(t) ==
    LET h == HeadOf[th[t].kind]
        ls == FreeLebs(th[t].len, lp_mutex.pick, h = "base")
    IN /\ th[t].pc = "find"
       /\ IF ls = {}
          THEN /\ sp' = [sp EXCEPT !.lst.taken = @ - Num(lp_mutex.pick)]
               /\ lp_mutex' = Unlocked
               /\ jh' = [jh EXCEPT ![h].by = None]
               /\ th' = [th EXCEPT ![t].pc = "gcwait"]
          ELSE /\ \E l \in OneOfEach(ls) :
                     /\ sp' = Take(sp, l)
                     /\ th' = [th EXCEPT ![t] = [@ EXCEPT !.pc = "found", !.leb = l,
                                                        !.offs = LebSize - sp.lp[l].free]]
               /\ UNCHANGED <<lp_mutex, jh>>
       /\ UNCHANGED <<live, pend, gc_lnum, buds, jother>>

FoundFree(t) ==
    /\ th[t].pc = "found"
    /\ sp' = [sp EXCEPT !.lst.taken = @ - Num(lp_mutex.pick)]
    /\ lp_mutex' = Unlocked
    /\ lost' = (lost \/ (th[t].offs = 0 /\ Needed(th[t].leb)))
    /\ th' = [th EXCEPT ![t].pc = "bud"]
    /\ UNCHANGED <<data, idx_gc, old_buds, bi, index, gc, cmt, required, ops, events>>

\* reserve_space(), its end: the head goes on in the LEB, unless the log is
\* full (ubifs_add_bud_to_log()).
AddBud(t) ==
    LET h == HeadOf[th[t].kind]
        l == th[t].leb
    IN /\ th[t].pc = "bud" /\ LpFree
       /\ pend' = PendSynced({h})
       /\ \/ /\ sp' = Synced(sp, {h})
             /\ jh' = [jh EXCEPT ![h] = [Seek(@, l, th[t].offs) EXCEPT !.by = None]]
             /\ buds' = buds \cup {l}
             /\ th' = [th EXCEPT ![t].pc = "reserve", ![t].leb = None, ![t].offs = 0]
             /\ UNCHANGED events
          \/ /\ events < MaxEvents
             /\ events' = events + 1
             /\ sp' = ReturnLeb(Synced(sp, {h}), l)
             /\ jh' = [JhSynced({h}) EXCEPT ![h].by = None]
             /\ th' = [th EXCEPT ![t].pc = "commit", ![t].leb = None]
             /\ UNCHANGED buds
       /\ UNCHANGED <<live, gc_lnum, idx_gc, old_buds, bi, index, gc, cmt, lp_mutex, required,
                      lost, ops>>

\* The garbage collector has freed a LEB: someone else may have found one
\* for the head meanwhile.
GotLeb(t) ==
    LET h == HeadOf[th[t].kind]
        enough == Room(h) >= th[t].len
    IN /\ th[t].pc = "gcdone" /\ ~th[t].any /\ th[t].leb # None
       /\ Unheld({h}) /\ LpFree
       /\ sp' = IF enough THEN ReturnLeb(sp, th[t].leb) ELSE sp
       /\ jh' = IF enough THEN jh ELSE [jh EXCEPT ![h].by = t]
       /\ th' = IF enough THEN [th EXCEPT ![t].pc = "reserve", ![t].leb = None]
                ELSE [th EXCEPT ![t].pc = "bud", ![t].offs = 0]
       /\ UNCHANGED <<live, pend, gc_lnum, buds, lp_mutex, jother>>

\* It has not: try again, then commit and try again (make_reservation()).
GotNo(r) ==
    IF r.err = "again" THEN [r EXCEPT !.pc = "commit", !.err = "none"]
    ELSE IF r.tries < MaxRetries THEN [r EXCEPT !.pc = "reserve", !.tries = @ + 1]
    ELSE IF r.nospc < MaxRetries THEN [r EXCEPT !.pc = "commit", !.nospc = @ + 1]
    ELSE [r EXCEPT !.pc = "stuck"]

GotNoLeb(t) ==
    /\ th[t].pc = "gcdone" /\ ~th[t].any /\ th[t].leb = None
    /\ th' = [th EXCEPT ![t] = GotNo(@)]
    /\ UNCHANGED <<lpvars, data, jother>>

ReserveAgain(t) ==
    /\ th[t].pc = "committed" /\ ~th[t].any /\ cmt.pc \notin Exclusive
    /\ th' = [th EXCEPT ![t].pc = "reserve", ![t].tries = 0]
    /\ UNCHANGED <<lpvars, data, jother>>

\* The timer of a write-buffer.
WbufTimer(h) ==
    /\ jh[h].used > 0 /\ Unheld({h}) /\ LpFree
    /\ events < MaxEvents
    /\ events' = events + 1
    /\ sp' = Synced(sp, {h}) /\ jh' = JhSynced({h}) /\ pend' = PendSynced({h})
    /\ UNCHANGED <<live, gc_lnum, buds, lp_mutex, th, idx_gc, old_buds, bi, index, gc, cmt,
                   required, lost, ops>>

-----------------------------------------------------------------------------
(***************************************************************************)
(* The garbage collector (ubifs_garbage_collect()).                        *)
(***************************************************************************)
gcother == <<old_buds, bi, cmt, ops>>

GcEnter(t) ==
    /\ th[t].pc = "gcwait" /\ gc.by = None
    /\ IF required
       THEN th' = [th EXCEPT ![t].pc = "gcdone", ![t].err = "again"] /\ UNCHANGED gc
       ELSE /\ th' = [th EXCEPT ![t].pc = "gc"]
            /\ gc' = [NoGc EXCEPT !.by = t, !.any = th[t].any, !.pc = "iter"]
    /\ UNCHANGED <<lpvars, data, idx_gc, index, required, lost, events, gcother>>

\* The limits, and the first section of ubifs_find_dirty_leb(): whether an
\* empty LEB may be taken, and whether an index LEB may.
GcIter ==
    LET few == bi.min_idx >= sp.lst.idx
    IN /\ gc.pc = "iter" /\ LpFree
       /\ IF required \/ (gc.i > SoftLimit /\ idx_gc # {})
          THEN /\ gc' = [gc EXCEPT !.pc = "end", !.err = "again"]
               /\ required' = TRUE
               /\ UNCHANGED lp_mutex
          ELSE IF gc.i > HardLimit
          THEN gc' = [gc EXCEPT !.pc = "end", !.err = "nospc"] /\ UNCHANGED <<required, lp_mutex>>
          ELSE /\ gc' = [gc EXCEPT !.pc = "pick", !.before = Room(GCHD)]
               /\ lp_mutex' = [by |-> "gc", excl |-> few,
                               pick |-> ~gc.any /\ Rsvd(sp, bi.min_idx) < IdxAvail(sp)]
               /\ UNCHANGED required
       /\ UNCHANGED <<sp, data, idx_gc, index, th, lost, events, gcother>>

Spacious(ls, min) == {l \in ls : Spc(sp.lp[l]) >= min}

\* ubifs_find_dirty_leb(), with everything in memory.
DirtyLebs(min, pick, excl) ==
    LET idx == IF excl THEN {} ELSE Spacious(Spacious(Top(sp, "dirty_idx"), min), LebSize \div 2)
        dirty == Spacious(Top(sp, "dirty"), min)
        Less(l, k) == Spc(sp.lp[l]) < Spc(sp.lp[k])
        scan == {l \in Spacious(LEBs, min) : sp.lp[l].dirty >= DeadWm /\ ~sp.lp[l].taken}
        uncat == {l \in scan \cap Cat(sp, "uncat") : ~(excl /\ sp.lp[l].index)}
    IN IF pick /\ Cat(sp, "empty") # {} THEN Cat(sp, "empty")
       ELSE IF pick /\ Cat(sp, "freeable") # {} THEN Cat(sp, "freeable")
       ELSE IF idx # {} /\ dirty # {}
       THEN {l \in idx : \E k \in dirty : ~Less(l, k)} \cup {k \in dirty : \E l \in idx : Less(l, k)}
       ELSE IF idx \cup dirty # {} THEN idx \cup dirty
       ELSE IF scan \cap Cat(sp, "free") # {} THEN scan \cap Cat(sp, "free")
       ELSE uncat

\* What ubifs_garbage_collect_leb() does with a LEB.
GcWhat(p) ==
    CASE p.free = LebSize -> "free"
      [] p.free # LebSize /\ Spc(p) = LebSize -> "sync"
      [] OTHER -> IF p.index THEN "index" ELSE "move"

GcPick ==
    LET ls == DirtyLebs(gc.min, lp_mutex.pick, lp_mutex.excl)
    IN /\ gc.pc = "pick"
       /\ IF ls = {}
          THEN gc' = [gc EXCEPT !.pc = "end", !.err = "nospc"] /\ UNCHANGED sp
          ELSE \E l \in OneOfEach(ls) :
                 /\ sp' = Take(sp, l)
                 /\ gc' = [gc EXCEPT !.pc = GcWhat(sp.lp[l]), !.leb = l, !.moved = FALSE]
       /\ lp_mutex' = Unlocked
       /\ UNCHANGED <<data, idx_gc, index, th, required, lost, events, gcother>>

\* All nodes of an index LEB are made dirty; it is free after the commit.
GcIndex ==
    LET l == gc.leb
        n == LebSize - Spc(sp.lp[l])
    IN /\ gc.pc = "index" /\ LpFree
       /\ dirty_zn' = dirty_zn + n /\ calc_idx_sz' = calc_idx_sz - n
       /\ old_idx' = [old_idx EXCEPT ![l] = @ + n]
       /\ sp' = ChangeLp(sp, l, [sp.lp[l] EXCEPT !.free = LebSize, !.dirty = 0, !.index = FALSE], 1)
       /\ idx_gc' = idx_gc \cup {[lnum |-> l, unmap |-> FALSE]}
       /\ gc' = [gc EXCEPT !.pc = "iter", !.i = @ + 1, !.leb = None]
       /\ UNCHANGED <<data, dirty_idx, committed, lp_mutex, th, required, lost, events, gcother>>

\* move_nodes(): those that fit, in an order of the keys; one that does not
\* stops all behind it.
FirstFit(n, room) ==
    {m \in [Sizes -> 0..LebSize] :
        /\ \A s \in Sizes : m[s] <= n[s]
        /\ Size(m) <= room
        /\ m = n \/ \E s \in Sizes : m[s] < n[s] /\ s > room - Size(m)}

GcMove ==
    LET l == gc.leb
        k == jh[GCHD].leb
    IN /\ gc.pc = "move" /\ LpFree
       /\ IF k = None
          THEN gc' = [gc EXCEPT !.pc = "switch"] /\ UNCHANGED <<sp, live, jh, pend, index>>
          ELSE \E m \in FirstFit(live[l], Room(GCHD)), z \in LEBs \cup {None} :
                 /\ IF Size(m) = 0 THEN z = None /\ UNCHANGED index ELSE DirtyZnode(z, 0)
                 /\ sp' = IF Size(m) = 0 THEN sp ELSE AddDirt(WithZnode(sp, z), l, Size(m))
                 /\ live' = [live EXCEPT ![l] = [s \in Sizes |-> @[s] - m[s]],
                                         ![k] = [s \in Sizes |-> @[s] + m[s]]]
                 /\ jh' = [jh EXCEPT ![GCHD].used = @ + Size(m)]
                 /\ pend' = [pend EXCEPT ![GCHD] = IF Size(m) = 0 THEN @ ELSE @ \cup {l}]
                 /\ gc' = [gc EXCEPT !.pc = IF m = live[l] THEN "sync" ELSE "switch",
                                     !.moved = TRUE]
       /\ UNCHANGED <<gc_lnum, buds, idx_gc, lp_mutex, th, required, lost, events, gcother>>

\* switch_gc_head(): the reserved LEB becomes the head, unless the log is full.
GcSwitch ==
    /\ gc.pc = "switch" /\ LpFree
    /\ pend' = PendSynced({GCHD})
    /\ lost' = (lost \/ NeededBy(PendSynced({GCHD}), gc_lnum))
    /\ \/ /\ sp' = Synced(sp, {GCHD})
          /\ jh' = [jh EXCEPT ![GCHD] = Seek(@, gc_lnum, 0)]
          /\ buds' = buds \cup {gc_lnum}
          /\ gc_lnum' = None
          /\ gc' = [gc EXCEPT !.pc = "move"]
          /\ UNCHANGED events
       \/ /\ events < MaxEvents
          /\ events' = events + 1
          /\ sp' = ReturnLeb(Synced(sp, {GCHD}), gc.leb)
          /\ jh' = JhSynced({GCHD})
          /\ gc' = [gc EXCEPT !.pc = "end", !.leb = None, !.err = "again"]
          /\ UNCHANGED <<buds, gc_lnum>>
    /\ UNCHANGED <<live, idx_gc, index, lp_mutex, th, required, gcother>>

\* Mutant: what has been replaced by nodes in a write-buffer is erased.
NoHeads == {}
HeadsToSync == Others

\* gc_sync_wbufs()
GcSync ==
    /\ gc.pc = "sync" /\ LpFree /\ Unheld(Others)
    /\ sp' = Synced(sp, HeadsToSync)
    /\ jh' = JhSynced(HeadsToSync)
    /\ pend' = PendSynced(HeadsToSync)
    /\ gc' = [gc EXCEPT !.pc = "free"]
    /\ UNCHANGED <<live, gc_lnum, buds, idx_gc, index, lp_mutex, th, required, lost, events, gcother>>

\* The LEB is free: it is the next reserved one, or it is what is returned.
\* Unless space has been gained, more dirty LEBs are asked for in the end.
AfterRetained(g) ==
    LET gained == Room(GCHD) > g.before
        min == IF gained THEN g.min \div 2 ELSE IF g.i < SoftLimit THEN g.min ELSE 2 * g.min
    IN [g EXCEPT !.pc = "iter", !.i = @ + 1, !.leb = None,
                 !.min = IF min < DeadWm THEN DeadWm ELSE IF min > DarkWm THEN DarkWm ELSE min]

GcFree ==
    LET l == gc.leb
        own == IF gc.moved /\ gc_lnum # None THEN {GCHD} ELSE {}
    IN /\ gc.pc = "free" /\ LpFree
       /\ sp' = Synced(SetSpace(sp, l, LebSize, 0), own)
       /\ jh' = JhSynced(own) /\ pend' = PendSynced(own)
       /\ lost' = (lost \/ (~(gc.moved /\ gc_lnum = None) /\ NeededBy(PendSynced(own), l)))
       /\ IF gc_lnum = None
          THEN gc_lnum' = l /\ gc' = AfterRetained(gc)
          ELSE gc' = [gc EXCEPT !.pc = "end"] /\ UNCHANGED gc_lnum
       /\ UNCHANGED <<live, buds, idx_gc, index, lp_mutex, th, required, events, gcother>>

GcEnd ==
    LET again == gc.err = "again" \/ (gc.err = "nospc" /\ idx_gc # {})
    IN /\ gc.pc = "end" /\ LpFree
       /\ sp' = Synced(sp, {GCHD}) /\ jh' = JhSynced({GCHD}) /\ pend' = PendSynced({GCHD})
       /\ lost' = (lost \/ NeededBy(PendSynced({GCHD}), gc_lnum))
       /\ required' = (required \/ (gc.err = "nospc" /\ idx_gc # {}))
       /\ th' = [th EXCEPT ![gc.by] = [@ EXCEPT !.pc = "gcdone", !.leb = gc.leb,
                                        !.err = IF again THEN "again" ELSE gc.err]]
       /\ gc' = NoGc
       /\ UNCHANGED <<live, gc_lnum, buds, idx_gc, index, lp_mutex, events, gcother>>

-----------------------------------------------------------------------------
(***************************************************************************)
(* The commit (do_commit()).                                               *)
(***************************************************************************)
Readers == {"reserve", "find", "found", "bud", "gcwait", "gc"}
Reading(t) == th[t].pc \in Readers \/ (th[t].pc = "gcdone" /\ ~th[t].any)
Wanted == required \/ \E t \in Threads : th[t].pc = "commit"

\* Who waited for the commit goes on.
Woken == [t \in Threads |-> IF th[t].pc = "commit" THEN [th[t] EXCEPT !.pc = "committed"] ELSE th[t]]

NothingToCommit == dirty_zn = 0 /\ ~sp.dirty
CommitCancelled ==
    /\ cmt.pc = "rest" /\ \A t \in Threads : ~Reading(t)
    /\ Wanted /\ NothingToCommit
    /\ th' = Woken /\ required' = FALSE
    /\ UNCHANGED <<lpvars, data, idx_gc, old_buds, bi, index, gc, cmt, lost, ops, events>>

\* ubifs_gc_start_commit()
FreeLeb(s, l) == SetSpace(s, l, LebSize, 0)
FreeIdxLeb(s, l) ==
    ChangeLp(s, l, [s.lp[l] EXCEPT !.free = LebSize, !.dirty = 0, !.index = FALSE, !.taken = TRUE], 1)
GcStart(s) == ForAll(FreeIdxLeb, ForAll(FreeLeb, s, Cat(s, "freeable")), Cat(s, "frdi_idx"))
GcStartList(s) ==
    {[g EXCEPT !.unmap = TRUE] : g \in idx_gc}
    \cup {[lnum |-> l, unmap |-> TRUE] : l \in Cat(s, "frdi_idx")}

\* All write-buffers are synchronized; buds that are no heads are to be
\* returned (remove_buds()).
CommitStart ==
    LET s == Synced(sp, Heads)
        open == {jh[h].leb : h \in Heads}
    IN /\ cmt.pc = "rest" /\ \A t \in Threads : ~Reading(t)
       /\ ~NothingToCommit
       /\ IF Wanted THEN UNCHANGED events ELSE events < MaxEvents /\ events' = events + 1
       /\ sp' = GcStart(s) /\ jh' = JhSynced(Heads) /\ pend' = PendSynced(Heads)
       /\ lost' = (lost \/ \E l \in Cat(s, "freeable") : NeededBy(PendSynced(Heads), l))
       /\ idx_gc' = GcStartList(s)
       /\ old_buds' = buds \ open /\ buds' = buds \cap open
       /\ cmt' = [cmt EXCEPT !.pc = IF dirty_zn = 0 THEN "finish" ELSE "alloc",
                             !.left = dirty_zn]
       /\ required' = FALSE
       /\ UNCHANGED <<live, gc_lnum, bi, index, th, gc, lp_mutex, ops>>

\* get_leb_cnt()
LebCnt(n) == DivUp(Pos(n - sp.lp[cmt.ihead].free), LebSize)

cmother == <<data, buds, bi, th, gc, lp_mutex, required, ops, events>>

\* alloc_idx_lebs(), ubifs_find_free_leb_for_idx()
AllocLeb ==
    LET ls == IF Cat(sp, "empty") # {} THEN Cat(sp, "empty") ELSE Cat(sp, "freeable")
    IN /\ cmt.pc = "alloc"
       /\ IF Cardinality(cmt.ilebs) = LebCnt(cmt.left)
          THEN cmt' = [cmt EXCEPT !.pc = "layout"] /\ UNCHANGED <<sp, lost>>
          ELSE IF ls = {}
          THEN cmt' = [cmt EXCEPT !.pc = "gaps"] /\ UNCHANGED <<sp, lost>>
          ELSE \E l \in OneOfEach(ls) :
                 /\ sp' = ChangeLp(sp, l, [sp.lp[l] EXCEPT !.free = LebSize, !.dirty = 0,
                                                           !.taken = TRUE, !.index = TRUE], 0)
                 /\ lost' = (lost \/ Needed(l))
                 /\ cmt' = [cmt EXCEPT !.ilebs = @ \cup {l}]
       /\ UNCHANGED <<idx_gc, old_buds, index, cmother>>

\* Mutant: only what was saved at the last commit is looked through.
GapLebsSaved == {l \in dirty_idx : sp.lp[l].index /\ ~sp.lp[l].taken}

\* ubifs_find_dirty_idx_leb()
GapLebs ==
    LET IdxFree(ls) == {l \in ls : sp.lp[l].index /\ ~sp.lp[l].taken}
        spacious == Spacious(IdxFree(LEBs), MinIdxNode)
    IN IF IdxFree(dirty_idx) # {} THEN IdxFree(dirty_idx)
       ELSE IF spacious # {} THEN spacious
       ELSE {g.lnum : g \in idx_gc}

\* layout_leb_in_gaps(): nodes of the committed index stay.  When no LEB is
\* left the rest has to go where it can.
InGaps(l) ==
    LET p == sp.lp[l]
        used == LebSize - Spc(p)
        gaps == LebSize - used - old_idx[l]
        w == IF gaps < cmt.left THEN gaps ELSE cmt.left
        free == IF p.free < gaps - w THEN p.free ELSE gaps - w
    IN /\ sp' = ChangeLp(sp, l, [p EXCEPT !.free = free, !.dirty = LebSize - used - w - free,
                                          !.taken = TRUE, !.index = TRUE], Num(p.index) - 1)
       /\ calc_idx_sz' = calc_idx_sz + w /\ dirty_zn' = dirty_zn - w
       /\ dirty_idx' = dirty_idx \ {l}
       /\ idx_gc' = {g \in idx_gc : g.lnum # l}
       /\ cmt' = [cmt EXCEPT !.left = @ - w, !.gaps = @ \cup {l},
                             !.pc = IF LebCnt(cmt.left - w) > Cardinality(cmt.ilebs) THEN "gaps"
                                    ELSE "layout"]

LayoutInGaps ==
    /\ cmt.pc = "gaps"
    /\ IF GapLebs = {}
       THEN cmt' = [cmt EXCEPT !.pc = "layout"]
            /\ UNCHANGED <<sp, idx_gc, dirty_zn, calc_idx_sz, dirty_idx>>
       ELSE \E l \in OneOfEach(GapLebs) : InGaps(l)
    /\ UNCHANGED <<old_buds, old_idx, committed, lost, cmother>>

\* layout_in_empty_space(), one LEB.
LayoutLeb ==
    LET h == cmt.ihead
        free == sp.lp[h].free
        w == IF cmt.left < free THEN cmt.left ELSE free
        next == Min(cmt.ilebs)
    IN /\ cmt.pc = "layout"
       /\ sp' = SetSpace(sp, h, free - w, sp.lp[h].dirty)
       /\ calc_idx_sz' = calc_idx_sz + w /\ dirty_zn' = dirty_zn - w
       /\ cmt' = IF w = cmt.left THEN [cmt EXCEPT !.left = 0, !.pc = "finish"]
                 ELSE IF cmt.ilebs = {} THEN [cmt EXCEPT !.pc = "broken"]
                 ELSE [cmt EXCEPT !.left = @ - w, !.ilebs = @ \ {next}, !.ihead = next,
                                  !.full = @ \cup {h}]
       /\ UNCHANGED <<idx_gc, old_buds, old_idx, dirty_idx, committed, lost, cmother>>

\* ubifs_tnc_start_commit(), its end: LEBs not used go back, and the budget
\* takes the index for committed.
FreeUnused(s, l) == ChangeLp(s, l, [s.lp[l] EXCEPT !.taken = FALSE, !.index = FALSE], 0)

LayoutDone ==
    LET s == ForAll(FreeUnused, sp, cmt.ilebs)
    IN /\ cmt.pc = "finish"
       /\ sp' = [s EXCEPT !.dirty = FALSE]
       /\ old_idx' = [l \in LEBs |-> 0]
       /\ dirty_idx' = Cat(s, "dirty_idx")
       /\ bi' = Recalculated([bi EXCEPT !.old = calc_idx_sz, !.uncommitted = 0])
       /\ cmt' = [cmt EXCEPT !.pc = "write", !.ilebs = {}, !.nxt = IdxLive]
       /\ UNCHANGED <<idx_gc, old_buds, dirty_zn, calc_idx_sz, committed, lost, data, th, gc,
                      lp_mutex, required, ops, events>>

\* return_gap_lebs() and write_index()
WriteIndex ==
    /\ cmt.pc = "write" /\ LpFree
    /\ sp' = ForAll(ReturnLeb, sp, cmt.gaps \cup cmt.full)
    /\ cmt' = [cmt EXCEPT !.pc = "master", !.gaps = {}, !.full = {}]
    /\ UNCHANGED <<idx_gc, old_buds, index, lost, cmother>>

WriteMaster ==
    /\ cmt.pc = "master"
    /\ committed' = cmt.nxt
    /\ cmt' = [cmt EXCEPT !.pc = "post"]
    /\ UNCHANGED <<sp, idx_gc, old_buds, dirty_zn, calc_idx_sz, old_idx, dirty_idx, lost, cmother>>

\* ubifs_log_post_commit()
ReturnBud(l) ==
    /\ cmt.pc = "post" /\ LpFree
    /\ sp' = ReturnLeb(sp, l)
    /\ old_buds' = old_buds \ {l}
    /\ UNCHANGED <<idx_gc, index, cmt, lost, cmother>>

\* ubifs_gc_end_commit()
GcEndCommit(g) ==
    /\ cmt.pc = "post" /\ old_buds = {} /\ g.unmap /\ gc.by = None /\ LpFree
    /\ lost' = (lost \/ Needed(g.lnum))
    /\ sp' = ChangeLp(sp, g.lnum, [sp.lp[g.lnum] EXCEPT !.taken = FALSE], -1)
    /\ idx_gc' = idx_gc \ {g}
    /\ UNCHANGED <<old_buds, index, cmt, cmother>>

CommitDone ==
    /\ cmt.pc = "post" /\ old_buds = {} /\ \A g \in idx_gc : ~g.unmap
    /\ cmt' = [cmt EXCEPT !.pc = "rest", !.nxt = {}]
    /\ th' = Woken
    /\ UNCHANGED <<lpvars, idx_gc, old_buds, index, lost, data, bi, gc, required, ops, events>>

-----------------------------------------------------------------------------
\* A mount: the counters are those of the LEB properties.
Counted(lp) ==
    LET Sum(Op(_)) == SumFunction([l \in LEBs |-> Op(lp[l])])
    IN [empty |-> Sum(EmptyOf), taken |-> Sum(TakenOf), idx |-> Cardinality({l \in LEBs : lp[l].index}),
        used |-> Sum(UsedOf), dead |-> Sum(DeadOf), dark |-> Sum(DarkOf),
        freeable |-> Cardinality({l \in LEBs : lp[l].cat = "freeable"}), idx_gc |-> 0]

Uncategorized(p, taken) ==
    [free |-> p.free, dirty |-> p.dirty, index |-> p.index, taken |-> taken, cat |-> "none"]

Init ==
    \E m \in Mounts :
        LET lp == FoldSet(LAMBDA l, r : ChangeCategory(r, l),
                          [l \in LEBs |-> Uncategorized(m.lp[l], l \in {m.gc_lnum, m.ihead})], LEBs)
            size == SumFunction([l \in LEBs |-> IF m.lp[l].index THEN LebSize - Spc(m.lp[l]) ELSE 0])
        IN /\ sp = [lp |-> lp, lst |-> Counted(lp), dirty |-> FALSE]
           /\ live = m.live
           /\ jh = [h \in Heads |-> [leb |-> None, offs |-> 0, used |-> 0, by |-> None]]
           /\ pend = [h \in Heads |-> {}]
           /\ gc_lnum = m.gc_lnum /\ idx_gc = {} /\ buds = {} /\ old_buds = {}
           /\ bi = Recalculated([idx |-> 0, data |-> 0, dd |-> 0, uncommitted |-> 0, old |-> size,
                                 min_idx |-> 0, nospace |-> FALSE, nospace_rp |-> FALSE])
           /\ dirty_zn = 0 /\ calc_idx_sz = size
           /\ old_idx = [l \in LEBs |-> 0] /\ dirty_idx = {}
           /\ committed = {l \in LEBs : m.lp[l].index /\ Spc(m.lp[l]) < LebSize}
           /\ th = [t \in Threads |-> Idle] /\ gc = NoGc
           /\ cmt = [pc |-> "rest", ihead |-> m.ihead, left |-> 0, ilebs |-> {}, gaps |-> {},
                     full |-> {}, nxt |-> {}]
           /\ lp_mutex = Unlocked /\ required = FALSE /\ lost = FALSE /\ ops = m.ops /\ events = m.events

Next ==
    \/ \E t \in Threads :
         \/ \E k \in Requests : Request(t, k)
         \/ BudgetSpace(t) \/ Shrink(t) \/ Shrunk(t) \/ GcFreed(t) \/ GcFailed(t) \/ MkspcRetry(t)
         \/ Convert(t) \/ Release(t)
         \/ Write(t) \/ WriteNode(t) \/ FindFree(t) \/ FindFreeLeb(t) \/ FoundFree(t)
         \/ AddBud(t) \/ GotLeb(t) \/ GotNoLeb(t) \/ ReserveAgain(t) \/ GcEnter(t)
    \/ \E h \in Others : WbufTimer(h)
    \/ GcIter \/ GcPick \/ GcIndex \/ GcMove \/ GcSwitch \/ GcSync \/ GcFree \/ GcEnd
    \/ CommitStart \/ CommitCancelled \/ AllocLeb \/ LayoutInGaps \/ LayoutLeb \/ LayoutDone \/ WriteIndex \/ WriteMaster
    \/ CommitDone
    \/ \E l \in old_buds : ReturnBud(l)
    \/ \E g \in idx_gc : GcEndCommit(g)

Spec == Init /\ [][Next]_vars

-----------------------------------------------------------------------------
(***************************************************************************)
(* Properties.                                                             *)
(***************************************************************************)
\* Who has taken a LEB.
Holders(l) ==
    {<<"head", h>> : h \in {k \in Heads : jh[k].leb = l}}
    \cup {<<"thread", t>> : t \in {u \in Threads : th[u].leb = l}}
    \cup {<<r[1], 0>> : r \in {q \in {<<"reserved", {gc_lnum}>>, <<"index head", {cmt.ihead}>>,
                                     <<"garbage", {gc.leb}>>, <<"erase", {g.lnum : g \in idx_gc}>>,
                                     <<"bud", buds \ {jh[h].leb : h \in Heads}>>,
                                     <<"old bud", old_buds>>, <<"layout", cmt.ilebs>>,
                                     <<"written", cmt.gaps \cup cmt.full>>} : l \in q[2]}}

\* A LEB is taken while, and only while, one and only one has it: also when
\* the log is full, the garbage collector gives up, or a LEB is not needed
\* any more when it has been found (reserve_space(), ubifs_garbage_collect()).
OneHolder ==
    \A l \in LEBs : Cardinality(Holders(l)) = Num(sp.lp[l].taken)

\* The counters are those of the LEB properties, but for an empty LEB counted
\* as taken while it is looked for (ubifs_find_free_space()), and every LEB is
\* in its category, or has fallen off a heap.
CountersExact ==
    LET lst == Counted(sp.lp)
    IN /\ sp.lst = [lst EXCEPT !.taken = @ + Num(lp_mutex.by = "find" /\ lp_mutex.pick),
                               !.idx_gc = Cardinality(idx_gc)]
       /\ \A l \in LEBs : \/ sp.lp[l].cat = Categorize(sp.lp[l])
                           \/ (sp.lp[l].cat = "uncat" /\ OnHeap(Categorize(sp.lp[l])))
       /\ calc_idx_sz = SumFunction([l \in LEBs |->
                            IF sp.lp[l].index THEN LebSize - Spc(sp.lp[l]) ELSE 0])

\* What is budgeted is what is held, and the LEBs to keep for the index are
\* up to date (the assertions of ubifs_get_free_space_nolock() and
\* ubifs_tnc_start_commit()).
BudgetExact ==
    LET Held(f) == SumFunction([t \in Threads |-> th[t].held[f]])
    IN /\ bi.idx = Held("idx") /\ bi.data = Held("data") /\ bi.dd = Held("dd")
       /\ bi.min_idx = MinIdxLebs(bi)

\* LEBs, counters and budgets agree.
SpaceInv == OneHolder /\ CountersExact /\ BudgetExact

\* Nothing is erased that is in use, that a write-buffer is still to replace
\* on flash, or that is of the index on flash.
NothingLost == ~lost

\* The index can always be committed (do_budget_space(): "This guarantees that
\* the 'in-the-gaps' commit method always succeeds").
CommitSucceeds == cmt.pc # "broken" /\ bi.min_idx < Cardinality(LEBs)

\* What is budgeted can be written ("We always have to be able to write to the
\* media, because all operations are budgeted", make_reservation()).
BudgetedIsWritten == \A t \in Threads : th[t].pc = "stuck" => th[t].held = NoGrowth

=============================================================================
