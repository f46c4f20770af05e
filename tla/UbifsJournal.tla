---------------------------- MODULE UbifsJournal ----------------------------
(***************************************************************************)
(* The journal of UBIFS and what a cut of power leaves of it: journal.c,   *)
(* the write-buffers of io.c, the log as far as replay needs it, replay.c, *)
(* scan.c, the recovery of LEBs and of inode sizes in recovery.c, and the  *)
(* file operations of file.c, dir.c and super.c that write to it.          *)
(*                                                                         *)
(* There are two heads.  The base head takes groups of meta-data nodes,    *)
(* which must be replayed together or not at all; the data head takes data *)
(* nodes.  Each has a write-buffer, which is lost when the power is cut.   *)
(*                                                                         *)
(* A node is one unit of flash.  MinIo units make a min. I/O unit, MaxWrite*)
(* units are written at once when they can.  A block of a file is 2 units  *)
(* of its size, so that a truncation may cut a block in half.              *)
(*                                                                         *)
(* The commit is here what makes the index of the moment durable, all at   *)
(* once when the master node is written: UbifsMaster shows that it is.     *)
(* Orphans are a part of it: UbifsOrphan has them.                         *)
(***************************************************************************)
EXTENDS Integers, Sequences, FiniteSets, SequencesExt, FiniteSetsExt

CONSTANTS
    Inos, Names,
    MaxSize,            \* the largest size of a file
    LebCnt, LebSize, MaxWrite, MinIo,
    MaxOps,             \* bound on the operations that write nodes
    MaxDirty,           \* bound on the dirty pages
    MaxCommits, MaxCuts

ASSUME Units ==
    /\ {MinIo, MaxWrite, LebSize, LebCnt} \subseteq Nat \ {0}
    /\ MaxWrite % MinIo = 0 /\ LebSize % MaxWrite = 0
    /\ LebSize >= 4 /\ LebCnt >= 2

VARIABLES
    flash,      \* what each LEB holds
    old,        \* what an un-mapped LEB held and may hold again
    wbuf,       \* what the write-buffer of each head holds, and what an
                \* operation is writing to the head, which may not fit
    wbuf_inos,  \* wbuf->inodes
    head,       \* wbuf->lnum
    next_bud,   \* the bud that is in the log and not sought to yet
    log,        \* the reference nodes the log holds, in order
    new_tail,   \* where in the log the commit that is running has started
    used,       \* the LEBs that lprops do not take for empty
    sqnum,      \* c->max_sqnum
    tnc,        \* the index in memory
    snap,       \* what the running commit writes
    mst,        \* what the last commit has written
    ui_size, synced_i_size,
    dirty_ino,  \* the inodes with ui->dirty
    dirty_pg,   \* the dirty pages
    trunc,      \* the truncation under way
    open,       \* un-linked inodes that are not evicted
    del_now,    \* those un-linked since the last commit: del_cmtno = cmt_no
    unused,     \* inode numbers not given out yet
    life,       \* how far the file system is mounted
    sizes,      \* c->size_tree
    names_ok,   \* history: the directories a cut of power may leave
    files_ok,   \* history: the files a cut of power may leave
    ops, commits, cuts

fvars == <<flash, old, wbuf, wbuf_inos, head, next_bud, log, used>>
cvars == <<new_tail, snap, mst, commits>>
ivars == <<ui_size, synced_i_size, dirty_ino, dirty_pg, trunc, open, del_now,
           unused>>
hvars == <<names_ok, files_ok>>
vars == <<fvars, cvars, ivars, hvars, sqnum, tnc, life, sizes, ops, cuts>>

Heads == {"base", "data"}
Lebs == 1 .. LebCnt
Blocks == 0 .. (MaxSize - 1) \div 2
Pages == Inos \X Blocks

NoBranch == <<0, 0>>
NoIno == 0
NoTrunc == [i |-> NoIno, size |-> 0]
NoSize == [i_size |-> 0, d_size |-> 0, exists |-> FALSE, on |-> FALSE]

(***************************************************************************)
(* Nodes.  The group is "last" for the last node of a group, "in" for the  *)
(* others, "no" for a node that is not in a group.  A deletion entry has   *)
(* no inode, an inode node without links is a deletion.                    *)
(***************************************************************************)
Node(type, key, val, grp, sq) ==
    [type |-> type, key |-> key, val |-> val, grp |-> grp, sqnum |-> sq]

Pad == Node("pad", <<0, 0>>, <<0, 0>>, "no", 0)
Torn == Node("torn", <<0, 0>>, <<0, 0>>, "no", 0)

Dent(n, i) == Node("dent", <<n, 0>>, <<i, 0>>, "in", 0)
Ino(i, size, nlink) == Node("ino", <<i, 0>>, <<size, nlink>>, "in", 0)
DirIno == Node("dir", <<0, 0>>, <<0, 0>>, "in", 0)
Data(i, b, size) == Node("data", <<i, b>>, <<size, 0>>, "in", 0)
Trun(i, from, to) == Node("trun", <<i, 0>>, <<from, to>>, "in", 0)

\* The sequence numbers and group marks ubifs_prep_grp_node() gives.
Group(nodes) ==
    [k \in DOMAIN nodes |->
        [nodes[k] EXCEPT !.sqnum = sqnum + k,
                         !.grp = IF k = Len(nodes) THEN "last" ELSE "in"]]
Single(node) == <<[node EXCEPT !.sqnum = sqnum + 1, !.grp = "no"]>>

-----------------------------------------------------------------------------
(***************************************************************************)
(* The index maps names, inodes and blocks to where their nodes are.       *)
(***************************************************************************)
EmptyTnc == [dent |-> [n \in Names |-> NoBranch],
             ino |-> [i \in Inos |-> NoBranch],
             data |-> [p \in Pages |-> NoBranch]]

RemoveRange(t, i, min, max) ==
    [t EXCEPT !.data = [p \in Pages |->
        IF p[1] = i /\ p[2] \in min .. max THEN NoBranch ELSE @[p]]]

RemoveIno(t, i) ==
    [RemoveRange(t, i, 0, MaxSize) EXCEPT !.ino[i] = NoBranch]

\* The blocks that go when a file is cut from one size to another.
FirstGone(size) == (size + 1) \div 2
LastGone(size) == (size + 1) \div 2 - 1

\* Where the next node of a head goes: behind the flash and the buffer.
HeadOf(l) == {h \in Heads : head[h] = l}
End(h) == Len(flash[head[h]]) + Len(wbuf[h])

NodeAt(at) ==
    LET l == at[1]
        p == at[2]
    IN IF p <= Len(flash[l]) THEN flash[l][p]
       ELSE LET h == CHOOSE g \in HeadOf(l) : TRUE
            IN wbuf[h][p - Len(flash[l])]

NameOf(t, n) == IF t.dent[n] = NoBranch THEN NoIno ELSE NodeAt(t.dent[n]).val[1]
Directory == [n \in Names |-> NameOf(tnc, n)]
SqnumOf(p) == IF tnc.data[p] = NoBranch THEN 0 ELSE NodeAt(tnc.data[p]).sqnum
DiskSize(i) == NodeAt(tnc.ino[i]).val[1]

-----------------------------------------------------------------------------
(***************************************************************************)
(* Write-buffers.                                                          *)
(***************************************************************************)

RoundUp(n, unit) == ((n + unit - 1) \div unit) * unit
RoundDown(n, unit) == (n \div unit) * unit

\* Mutant: the buffer has always the full size.
ChunkEndAny(p) == IF LebSize < p + MaxWrite THEN LebSize ELSE p + MaxWrite

\* Where the write-buffer that starts at a place ends: wbuf->size.
ChunkEnd(p) == RoundDown(p, MaxWrite) + MaxWrite

\* Up to where a stream that ends at e is on flash after a write.
FlushedTo(p, e) ==
    LET first == ChunkEnd(p)
    IN IF e < first THEN p
       ELSE IF e = LebSize THEN e
       ELSE first + RoundDown(e - first, MaxWrite)

Padded(s) == s \o [k \in 1 .. (RoundUp(Len(s), MinIo) - Len(s)) |-> Pad]

\* What ubifs_wbuf_write_nolock() does not keep in the buffer.
Overflow(p, e) == FlushedTo(p, e) - p
IsFull(h) == head[h] # 0 /\ Overflow(Len(flash[head[h]]), End(h)) > 0

InosOf(nodes) ==
    {n.key[1] : n \in {m \in ToSet(nodes) : m.type \in {"ino", "dir", "data"}}}

\* Mutant: the inodes are added before a flush forgets them.
AddInosEarly(h, nodes) ==
    LET p == Len(flash[head[h]])
        e == End(h) + Len(nodes)
    IN IF Overflow(p, e) > 0 THEN {} ELSE wbuf_inos[h] \cup InosOf(nodes)

\* wbuf->inodes once nodes are written: a flush forgets those of before, and
\* ubifs_wbuf_add_ino_nolock() adds none when all is on flash.
AddInos(h, nodes) ==
    LET p == Len(flash[head[h]])
        e == End(h) + Len(nodes)
    IN IF FlushedTo(p, e) = e THEN {}
       ELSE (IF Overflow(p, e) > 0 THEN {} ELSE wbuf_inos[h])
                \cup InosOf(nodes)

\* The flash is written when the buffer is full.
WriteHead(h) ==
    /\ life = "rw" /\ IsFull(h)
    /\ LET l == head[h]
           n == Overflow(Len(flash[l]), End(h))
       IN /\ flash' = [flash EXCEPT ![l] = @ \o SubSeq(wbuf[h], 1, n)]
          /\ wbuf' = [wbuf EXCEPT ![h] = SubSeq(@, n + 1, Len(@))]
    /\ UNCHANGED <<old, wbuf_inos, head, next_bud, log, used, cvars, ivars,
                   hvars, sqnum, tnc, life, sizes, ops, cuts>>

\* What ubifs_wbuf_sync_nolock() makes of heads: min. I/O units only.
Synced(hs) ==
    /\ flash' = [l \in Lebs |->
           IF \E h \in hs : head[h] = l
           THEN flash[l] \o Padded(wbuf[CHOOSE h \in hs : head[h] = l])
           ELSE flash[l]]
    /\ wbuf' = [h \in Heads |-> IF h \in hs THEN <<>> ELSE wbuf[h]]
    /\ wbuf_inos' = [h \in Heads |-> IF h \in hs THEN {} ELSE wbuf_inos[h]]

\* The meta-data is safe when the buffer of the base head is.
NamesSynced(hs) == IF "base" \in hs THEN {Directory} ELSE names_ok

\* By the timer and the background thread, ahead of a new bud, or for a
\* commit or sync.
SyncHead(h) ==
    /\ life = "rw" /\ wbuf[h] # <<>> /\ ~IsFull(h)
    /\ Synced({h})
    /\ names_ok' = NamesSynced({h})
    /\ UNCHANGED <<old, head, next_bud, log, used, cvars, ivars,
                   files_ok, sqnum, tnc, life, sizes, ops, cuts>>

-----------------------------------------------------------------------------
(***************************************************************************)
(* A new bud for a head.                                                   *)
(***************************************************************************)
Ref(l, offs, h) == [leb |-> l, start |-> offs, head |-> h]
Buds == {r.leb : r \in ToSet(log)}
MaxGroup(h) == IF h = "base" THEN 4 ELSE 1

Room(h) == IF head[h] = 0 THEN 0 ELSE LebSize - End(h)

\* The LEBs ubifs_find_free_space() may return: with some room, or empty.
FreeSpace(len) ==
    {l \in used \ Buds : LebSize - Len(flash[l]) >= len}
        \cup (IF used = Lebs THEN {} ELSE {Min(Lebs \ used)})

SyncedFirst(h) == wbuf[h] = <<>>
Erased(l, offs) == IF offs > 0 THEN old[l] ELSE <<>>

(***************************************************************************)
(* reserve_space() up to ubifs_add_bud_to_log().  The buffer is empty by   *)
(* then; ubifs_find_free_space() has un-mapped an empty LEB and the log    *)
(* maps it, so that nothing of what it held can come back.                 *)
(***************************************************************************)
AddBud(h, l) ==
    /\ life = "rw" /\ next_bud[h] = 0 /\ SyncedFirst(h)
    /\ LET offs == IF l \in used THEN Len(flash[l]) ELSE 0
       IN /\ log' = Append(log, Ref(l, offs, h))
          /\ flash' = IF offs > 0 THEN flash ELSE [flash EXCEPT ![l] = <<>>]
          /\ old' = [old EXCEPT ![l] = Erased(l, offs)]
    /\ used' = used \cup {l}
    /\ next_bud' = [next_bud EXCEPT ![h] = l]
    /\ UNCHANGED <<wbuf, wbuf_inos, head, cvars, ivars, hvars, sqnum,
                   tnc, life, sizes, ops, cuts>>

NewBud(h) ==
    /\ ops < MaxOps /\ Room(h) < MaxGroup(h)
    /\ \E l \in FreeSpace(Room(h) + 1) : AddBud(h, l)

\* ubifs_wbuf_seek_nolock(), which asserts that the buffer is empty.
Seek(h) ==
    /\ life = "rw" /\ next_bud[h] # 0 /\ wbuf[h] = <<>>
    /\ head' = [head EXCEPT ![h] = next_bud[h]]
    /\ next_bud' = [next_bud EXCEPT ![h] = 0]
    /\ UNCHANGED <<flash, old, wbuf, wbuf_inos, log, used, cvars, ivars,
                   hvars, sqnum, tnc, life, sizes, ops, cuts>>

-----------------------------------------------------------------------------
(***************************************************************************)
(* The operations.  One prepares its nodes with the head and commit_sem    *)
(* taken, so that the index can be changed in the same step.               *)
(***************************************************************************)

Ready(h, n) ==
    /\ life = "rw" /\ ops < MaxOps
    /\ next_bud[h] = 0 /\ head[h] # 0 /\ ~IsFull(h)
    /\ Room(h) >= n

\* The nodes go to a head, the index is changed as given.
Prepare(h, nodes, index) ==
    /\ Ready(h, Len(nodes))
    /\ wbuf' = [wbuf EXCEPT ![h] = @ \o nodes]
    /\ wbuf_inos' = [wbuf_inos EXCEPT ![h] = AddInos(h, nodes)]
    /\ sqnum' = sqnum + Len(nodes)
    /\ tnc' = index
    /\ ops' = ops + 1
    /\ UNCHANGED <<flash, old, head, next_bud, log, used, cvars, life, sizes,
                   cuts>>

\* Where the nth node that is prepared for a head goes.
Place(h, n) == <<head[h], End(h) + n>>

NoFile == [alive |-> FALSE, lo |-> 0, hi |-> 0, data |-> [b \in Blocks |-> {0}],
           stray |-> FALSE]

Dirs(d) == names_ok' = names_ok \cup {d}

\* i_size; ui_size differs while a file is being cut.
ISize(i) == IF trunc.i = i THEN trunc.size ELSE ui_size[i]
InMemory(i) == tnc.ino[i] # NoBranch
Linked(i) == InMemory(i) /\ i \notin open

\* ubifs_create(): an entry, the inode and its parent, by ubifs_jnl_update().
Create(n, i) ==
    /\ i \in unused /\ tnc.dent[n] = NoBranch
    /\ Prepare("base", Group(<<Dent(n, i), Ino(i, 0, 1), DirIno>>),
               [tnc EXCEPT !.dent[n] = Place("base", 1),
                           !.ino[i] = Place("base", 2)])
    /\ unused' = unused \ {i}
    /\ ui_size' = [ui_size EXCEPT ![i] = 0]
    /\ synced_i_size' = [synced_i_size EXCEPT ![i] = 0]
    /\ Dirs([Directory EXCEPT ![n] = i])
    /\ UNCHANGED <<dirty_ino, dirty_pg, trunc, open, del_now, files_ok>>

\* What ubifs_jnl_update() and ubifs_jnl_rename() do to an inode that loses
\* its last link: it becomes an orphan and need not be there after a cut.
LastReference(is) ==
    /\ open' = open \cup is
    /\ del_now' = del_now \cup is
    /\ synced_i_size' = [i \in Inos |->
           IF i \in is THEN ui_size[i] ELSE synced_i_size[i]]
    /\ dirty_ino' = dirty_ino \ is
    /\ files_ok' = [i \in Inos |->
           IF i \in is THEN [files_ok[i] EXCEPT !.alive = FALSE]
           ELSE files_ok[i]]
    /\ UNCHANGED <<ui_size, dirty_pg, trunc, unused>>

\* ubifs_unlink()
Unlink(n) ==
    LET i == NameOf(tnc, n)
    IN /\ tnc.dent[n] # NoBranch /\ trunc.i # i
       /\ Prepare("base", Group(<<Dent(n, NoIno), Ino(i, ui_size[i], 0),
                                  DirIno>>),
                  [tnc EXCEPT !.dent[n] = NoBranch,
                              !.ino[i] = Place("base", 2)])
       /\ LastReference({i})
       /\ Dirs([Directory EXCEPT ![n] = NoIno])

\* ubifs_rename() in a directory, of a file to a name that may be taken.
Rename(n, m) ==
    LET i == NameOf(tnc, n)
        j == NameOf(tnc, m)
        is == IF j = NoIno THEN {} ELSE {j}
        gone == IF j = NoIno THEN <<>> ELSE <<Ino(j, ui_size[j], 0)>>
        index == [tnc EXCEPT !.dent[m] = Place("base", 1),
                             !.dent[n] = NoBranch]
    IN /\ n # m /\ tnc.dent[n] # NoBranch /\ trunc.i \notin is
       /\ Prepare("base", Group(<<Dent(m, i), Dent(n, NoIno)>> \o gone
                                \o <<DirIno>>),
                  [index EXCEPT !.ino = [k \in Inos |->
                      IF k \in is THEN Place("base", 3) ELSE @[k]]])
       /\ LastReference(is)
       /\ Dirs([Directory EXCEPT ![m] = i, ![n] = NoIno])

\* ubifs_evict_inode() of an un-linked inode, and ubifs_jnl_delete_inode():
\* the deletion is written again when there was a commit since.
Evict(i) ==
    /\ i \in open /\ trunc.i # i
    /\ IF i \in del_now
       THEN /\ life = "rw"
            /\ tnc' = RemoveIno(tnc, i)
            /\ UNCHANGED <<fvars, cvars, life, sizes, sqnum, ops, cuts>>
       ELSE Prepare("base", Group(<<Ino(i, 0, 0)>>), RemoveIno(tnc, i))
    /\ ui_size' = [ui_size EXCEPT ![i] = 0]
    /\ open' = open \ {i} /\ del_now' = del_now \ {i}
    /\ dirty_pg' = {p \in dirty_pg : p[1] # i}
    /\ dirty_ino' = dirty_ino \ {i}
    /\ UNCHANGED <<synced_i_size, trunc, unused, hvars>>

\* ubifs_write_end(): the page is dirty, the size may have grown.
Write(i, b, end) ==
    LET size == Max({ui_size[i], end})
    IN /\ life = "rw" /\ ops < MaxOps /\ InMemory(i) /\ trunc.i # i
       /\ dirty_pg' = dirty_pg \cup {<<i, b>>}
       /\ Cardinality(dirty_pg') =< MaxDirty
       /\ ui_size' = [ui_size EXCEPT ![i] = size]
       /\ dirty_ino' = IF end > ui_size[i] THEN dirty_ino \cup {i}
                                           ELSE dirty_ino
       /\ <<i, b>> \notin dirty_pg \/ end > ui_size[i]
       /\ files_ok' = [files_ok EXCEPT ![i].hi = Max({@, size})]
       /\ UNCHANGED <<fvars, cvars, synced_i_size, trunc, open, del_now, unused,
                      names_ok, sqnum, tnc, life, sizes, ops, cuts>>

\* ubifs_write_inode() and ubifs_jnl_write_inode().
WriteInode(i) ==
    /\ i \in dirty_ino /\ i \notin open
    /\ Prepare("base", Group(<<Ino(i, ui_size[i], 1)>>),
               [tnc EXCEPT !.ino[i] = Place("base", 1)])
    /\ dirty_ino' = dirty_ino \ {i}
    /\ synced_i_size' = [synced_i_size EXCEPT ![i] = ui_size[i]]
    /\ UNCHANGED <<ui_size, dirty_pg, trunc, open, del_now, unused, hvars>>

PageLen(i, b) == Min({2, ISize(i) - 2 * b})

\* do_writepage() and ubifs_jnl_write_data().
DoWritePage(i, b, stray) ==
    /\ Prepare("data", Single(Data(i, b, PageLen(i, b))),
               [tnc EXCEPT !.data[<<i, b>>] = Place("data", 1)])
    /\ dirty_pg' = dirty_pg \ {<<i, b>>}
    /\ files_ok' = [files_ok EXCEPT ![i].data[b] = @ \cup {sqnum + 1},
                                   ![i].stray = @ \/ stray]
    /\ UNCHANGED <<ui_size, synced_i_size, dirty_ino, trunc, open, del_now,
                   unused, names_ok>>

\* A page is written back only within the size that is in the journal.
WithinSynced(i, b) ==
    IF ISize(i) >= 2 * b + 2 THEN b < synced_i_size[i] \div 2
                             ELSE ISize(i) <= synced_i_size[i]

\* ubifs_writepage(); the inode of an un-linked file is not written.
WritePage(i, b) ==
    /\ <<i, b>> \in dirty_pg /\ ISize(i) > 2 * b
    /\ WithinSynced(i, b) \/ i \notin dirty_ino \/ i \in open
    /\ DoWritePage(i, b, FALSE)

(***************************************************************************)
(* do_truncation(): the size is set and the pages behind it are dropped;   *)
(* the page it cuts is written if it is dirty; then ubifs_jnl_truncate()   *)
(* writes the inode, a truncation node, and the last block as it is now.   *)
(***************************************************************************)
Cut(i, b) == trunc.size = 2 * b + 1

Truncate(i, size) ==
    /\ life = "rw" /\ ops < MaxOps /\ trunc = NoTrunc
    /\ Linked(i) /\ size < ui_size[i]
    /\ trunc' = [i |-> i, size |-> size]
    /\ dirty_pg' = {p \in dirty_pg : p[1] # i \/ 2 * p[2] < size}
    /\ files_ok' = [files_ok EXCEPT ![i].lo = Min({@, size})]
    /\ UNCHANGED <<fvars, cvars, ui_size, synced_i_size, dirty_ino, open,
                   del_now, unused, names_ok, sqnum, tnc, life, sizes, ops,
                   cuts>>

TruncatePage(i, b) ==
    /\ trunc.i = i /\ Cut(i, b) /\ <<i, b>> \in dirty_pg
    /\ DoWritePage(i, b, trunc.size > synced_i_size[i])

JnlTruncate(i) ==
    LET size == trunc.size
        last == {b \in Blocks : /\ Cut(i, b) /\ tnc.data[<<i, b>>] # NoBranch
                                /\ NodeAt(tnc.data[<<i, b>>]).val[1] = 2}
        gone == FirstGone(size) .. LastGone(ui_size[i])
        index == [tnc EXCEPT !.ino[i] = Place("base", 1),
                             !.data = [p \in Pages |->
                                 IF p[1] = i /\ p[2] \in last
                                 THEN Place("base", 3) ELSE @[p]]]
    IN /\ trunc.i = i
       /\ \A b \in Blocks : ~(Cut(i, b) /\ <<i, b>> \in dirty_pg)
       /\ Prepare("base",
                  Group(<<Ino(i, size, 1), Trun(i, ui_size[i], size)>>
                        \o SetToSeq({Data(i, b, 1) : b \in last})),
                  RemoveRange(index, i, FirstGone(size),
                              LastGone(ui_size[i])))
       /\ files_ok' = [files_ok EXCEPT ![i].data = [b \in Blocks |->
              IF b \in gone THEN @[b] \cup {0}
              ELSE IF b \in last THEN @[b] \cup {sqnum + 3} ELSE @[b]]]
       /\ ui_size' = [ui_size EXCEPT ![i] = size]
       /\ synced_i_size' = [synced_i_size EXCEPT ![i] = size]
       /\ dirty_ino' = dirty_ino \ {i}
       /\ trunc' = NoTrunc
       /\ UNCHANGED <<dirty_pg, open, del_now, unused, names_ok>>

\* ubifs_fsync(), when pages and inode are written: the write-buffers that
\* hold nodes of the inode are synchronized.
Fsync(i) ==
    LET hs == {h \in Heads : i \in wbuf_inos[h]}
    IN /\ life = "rw" /\ trunc.i # i /\ Linked(i)
       /\ \A b \in Blocks : <<i, b>> \notin dirty_pg
       /\ i \notin dirty_ino
       /\ \A h \in Heads : ~IsFull(h)
       /\ files_ok' = [files_ok EXCEPT ![i] =
              [@ EXCEPT !.alive = TRUE, !.lo = ui_size[i], !.hi = ui_size[i],
                        !.data = [b \in Blocks |-> {SqnumOf(<<i, b>>)}]]]
       /\ files_ok' # files_ok
       /\ Synced(hs)
       /\ names_ok' = NamesSynced(hs)
       /\ UNCHANGED <<old, head, next_bud, log, used, cvars, ivars, sqnum,
                      tnc, life, sizes, ops, cuts>>

-----------------------------------------------------------------------------
(***************************************************************************)
(* The commit.                                                             *)
(***************************************************************************)
HeadRefs ==
    SelectSeq(SetToSeq({Ref(head[h], Len(flash[head[h]]), h) :
                            h \in {g \in Heads : head[g] # 0}}),
              LAMBDA r : r.start < LebSize)

\* do_commit() while commit_sem is taken for writing: the write-buffers are
\* empty, ubifs_log_start_commit() refers to the heads as they are.
CommitStart ==
    /\ \/ life = "rw" /\ commits < MaxCommits
       \/ life = "commit"
    /\ new_tail = 0
    /\ \A h \in Heads : wbuf[h] = <<>> /\ next_bud[h] = 0
    /\ new_tail' = Len(log) + 1
    /\ log' = log \o HeadRefs
    /\ snap' = [index |-> tnc, orphans |-> open]
    /\ del_now' = {}
    /\ commits' = IF life = "rw" THEN commits + 1 ELSE commits
    /\ UNCHANGED <<flash, old, wbuf, wbuf_inos, head, next_bud, used, mst,
                   ui_size, synced_i_size, dirty_ino, dirty_pg, trunc, open,
                   unused, hvars, sqnum, tnc, life, sizes, ops, cuts>>

\* The state of files and directories is certain once it is recovered; a page
\* behind the end stays there.
CertainFile(i) ==
    IF tnc.ino[i] = NoBranch THEN NoFile
    ELSE [alive |-> TRUE, lo |-> DiskSize(i), hi |-> DiskSize(i),
          data |-> [b \in Blocks |-> {SqnumOf(<<i, b>>)}],
          stray |-> \E b \in Blocks : /\ tnc.data[<<i, b>>] # NoBranch
                                      /\ 2 * b >= DiskSize(i)]

\* The master node is written: log and buds of before are not needed.
CommitEnd ==
    /\ life \in {"rw", "commit"} /\ new_tail > 0
    /\ mst' = snap
    /\ log' = SubSeq(log, new_tail, Len(log))
    /\ new_tail' = 0
    /\ IF life = "rw"
       THEN UNCHANGED <<life, ui_size, synced_i_size, hvars>>
       ELSE /\ life' = "rw"
            /\ ui_size' = [i \in Inos |->
                   IF tnc.ino[i] = NoBranch THEN 0 ELSE DiskSize(i)]
            /\ synced_i_size' = ui_size'
            /\ names_ok' = {Directory}
            /\ files_ok' = [i \in Inos |-> CertainFile(i)]
    /\ UNCHANGED <<flash, old, wbuf, wbuf_inos, head, next_bud, used, snap,
                   commits, dirty_ino, dirty_pg, trunc, open, del_now, unused,
                   sqnum, tnc, sizes, ops, cuts>>

-----------------------------------------------------------------------------
(***************************************************************************)
(* A cut of power.                                                         *)
(***************************************************************************)
TornRef == Ref(0, 0, "base")

\* Where the write that a place is in ends, of a stream that starts at p.
WriteEnd(p, at) ==
    LET first == ChunkEnd(p)
    IN IF at < first THEN first
       ELSE first + RoundDown(at - first, MaxWrite) + MaxWrite

\* What may be on the flash of the buffer of a head: some of it, and torn
\* units up to the end of the write that was under way.
Left(h) ==
    LET p == Len(flash[head[h]])
        s == IF IsFull(h) THEN wbuf[h] ELSE Padded(wbuf[h])
        end(m) == Min({WriteEnd(p, p + m) - p, Len(s)})
    IN {SubSeq(s, 1, x[1]) \o [k \in 1 .. x[2] |-> Torn] :
            x \in {y \in (0 .. Len(s)) \X (0 .. MaxWrite) :
                       /\ y[2] \in {0, 1, end(y[1]) - y[1]}
                       /\ y[1] + y[2] <= end(y[1])}}

\* The LEBs that come back with what they held before they were un-mapped.
MayReturn == {l \in Lebs : flash[l] = <<>> /\ old[l] # <<>>}

PowerCut ==
    /\ life # "off" /\ life # "dead" /\ cuts < MaxCuts
    /\ \E b \in IF head["base"] = 0 THEN {<<>>} ELSE Left("base"),
          d \in IF head["data"] = 0 THEN {<<>>} ELSE Left("data"),
          back \in {{}, MayReturn} :
          flash' = [l \in Lebs |->
              IF l = head["base"] THEN flash[l] \o b
              ELSE IF l = head["data"] THEN flash[l] \o d
              ELSE IF l \in back THEN old[l] ELSE flash[l]]
    /\ old' = [l \in Lebs |-> <<>>]
    /\ \/ log' = log
       \/ /\ \E h \in Heads : wbuf[h] = <<>>
          /\ life = "rw" /\ log' = Append(log, TornRef)
    /\ wbuf' = [h \in Heads |-> <<>>]
    /\ wbuf_inos' = [h \in Heads |-> {}]
    /\ head' = [h \in Heads |-> 0] /\ next_bud' = head'
    /\ new_tail' = 0 /\ snap' = mst
    /\ tnc' = EmptyTnc
    /\ ui_size' = [i \in Inos |-> 0] /\ synced_i_size' = ui_size'
    /\ dirty_ino' = {} /\ dirty_pg' = {} /\ trunc' = NoTrunc
    /\ open' = {} /\ del_now' = {}
    /\ sizes' = [i \in Inos |-> NoSize]
    /\ life' = "off"
    /\ cuts' = cuts + 1
    /\ UNCHANGED <<used, mst, commits, unused, hvars, sqnum, ops>>

-----------------------------------------------------------------------------
(***************************************************************************)
(* Scanning the log and the buds.                                          *)
(***************************************************************************)

\* Only the tail of the log may be torn (ubifs_recover_log_leb()).
LogReadable == \A k \in DOMAIN log : log[k] = TornRef => k = Len(log)

\* The buds in the order of their references, each once.
BudList ==
    SelectSeq([k \in DOMAIN log |->
                  IF \E j \in 1 .. k - 1 : log[j].leb = log[k].leb
                  THEN TornRef ELSE log[k]],
              LAMBDA r : r # TornRef)

BudsOf(h) == SelectSeq(BudList, LAMBDA r : r.head = h)

\* is_last_bud(), with its provision for images of older versions.
IsLastBud(r) ==
    LET bs == BudsOf(r.head)
        n == Len(bs)
    IN \/ r = bs[n]
       \/ n > 1 /\ r = bs[n - 1] /\ Len(flash[bs[n].leb]) = bs[n].start

Bad(s, start) == {k \in start + 1 .. Len(s) : s[k] = Torn}

\* Mutant: what is not a whole group at the end is kept.
KeepLastGroup(s, start) == s

\* drop_last_group()
DropLastGroup(s, start) ==
    LET nodes == {k \in start + 1 .. Len(s) : s[k].type # "pad"}
        whole == {k \in nodes : s[k].grp # "in"}
        in == {k \in nodes : whole = {} \/ k > Max(whole)}
    IN IF in = {} THEN s ELSE SubSeq(s, 1, Min(in) - 1)

\* What ubifs_recover_leb() makes of the last bud of a head.
Recovered(r) ==
    LET s == flash[r.leb]
        bad == Bad(s, r.start)
        good == IF bad = {} THEN s ELSE SubSeq(s, 1, Min(bad) - 1)
    IN Padded(IF r.head = "base" THEN DropLastGroup(good, r.start) ELSE good)

\* is_last_write(): nothing follows the write unit of what is torn.
IsLastWrite(r) ==
    LET bad == Bad(flash[r.leb], r.start)
    IN bad = {} \/ Len(flash[r.leb]) <= RoundUp(Min(bad), MaxWrite)

\* A bud that is not the last is expected to be in order.
BudReadable(r) ==
    IF IsLastBud(r) THEN IsLastWrite(r) ELSE Bad(flash[r.leb], r.start) = {}

Unclean == {r \in ToSet(BudList) : IsLastBud(r) /\ Recovered(r) # flash[r.leb]}

Mount ==
    /\ life = "off"
    /\ IF LogReadable /\ \A r \in ToSet(BudList) : BudReadable(r)
       THEN life' = "scan" /\ log' = SelectSeq(log, LAMBDA r : r # TornRef)
       ELSE life' = "dead" /\ UNCHANGED log
    /\ UNCHANGED <<flash, old, wbuf, wbuf_inos, head, next_bud, used,
                   cvars, ivars, hvars, sqnum, tnc, sizes, ops, cuts>>

\* fix_unclean_leb(): an atomic change of the LEB, or it is un-mapped.
FixUncleanLeb(r) ==
    /\ life = "scan" /\ r \in Unclean
    /\ flash' = [flash EXCEPT ![r.leb] = Recovered(r)]
    /\ old' = [old EXCEPT ![r.leb] =
                   IF Recovered(r) = <<>> THEN flash[r.leb] ELSE <<>>]
    /\ UNCHANGED <<wbuf, wbuf_inos, head, next_bud, log, used, cvars,
                   ivars, hvars, sqnum, tnc, life, sizes, ops, cuts>>

-----------------------------------------------------------------------------
(***************************************************************************)
(* Replay.                                                                 *)
(***************************************************************************)

BySqnum(a, b) == a.sqnum < b.sqnum

ReplayList ==
    SetToSortSeq(
        {[at |-> at, sqnum |-> NodeAt(at).sqnum] :
            at \in UNION {{<<r.leb, p>> :
                               p \in {q \in r.start + 1 .. Len(flash[r.leb]) :
                                          flash[r.leb][q].type
                                              \notin {"pad", "dir"}}} :
                              r \in ToSet(BudList)}},
        BySqnum)

\* apply_replay_entry() to the index.
Replayed(t, at) ==
    LET node == NodeAt(at)
        k == node.key[1]
    IN IF node.type = "dent"
       THEN [t EXCEPT !.dent[k] = IF node.val[1] = NoIno THEN NoBranch ELSE at]
       ELSE IF node.type = "ino"
       THEN IF node.val[2] = 0 THEN RemoveIno(t, k)
                               ELSE [t EXCEPT !.ino[k] = at]
       ELSE IF node.type = "data" THEN [t EXCEPT !.data[node.key] = at]
       ELSE RemoveRange(t, k, FirstGone(node.val[2]), LastGone(node.val[1]))

\* ubifs_recover_size_accum()
SizeAccum(e, node) ==
    IF node.type = "ino"
    THEN IF node.val[2] = 0 THEN NoSize
         ELSE [e EXCEPT !.i_size = node.val[1], !.exists = TRUE, !.on = TRUE]
    ELSE IF node.type = "data"
    THEN [e EXCEPT !.d_size = Max({@, 2 * node.key[2] + node.val[1]}),
                   !.on = TRUE]
    ELSE IF e.on THEN [e EXCEPT !.d_size = node.val[2]] ELSE e

\* Orphans of the last commit are deleted once the journal is replayed.
ReplayJournal ==
    /\ life = "scan" /\ Unclean = {}
    /\ LET list == ReplayList
           t == FoldLeft(LAMBDA acc, e : Replayed(acc, e.at), mst.index, list)
       IN /\ tnc' = FoldSet(LAMBDA i, acc : RemoveIno(acc, i), t, mst.orphans)
          /\ sizes' = [i \in Inos |->
                 FoldLeft(LAMBDA acc, e :
                              LET node == NodeAt(e.at)
                              IN IF node.key[1] = i /\ node.type # "dent"
                                 THEN SizeAccum(acc, node) ELSE acc,
                          NoSize, list)]
    /\ head' = [h \in Heads |-> IF BudsOf(h) = <<>> THEN 0
                                ELSE Last(BudsOf(h)).leb]
    /\ life' = "size"
    /\ UNCHANGED <<flash, old, wbuf, wbuf_inos, next_bud, log, used,
                   cvars, ivars, hvars, sqnum, ops, cuts>>

\* Mutant: data without an inode is left where it is.
StrayStays(i) == UNCHANGED tnc
StrayRemoved(i) == tnc' = RemoveIno(tnc, i)

(***************************************************************************)
(* ubifs_recover_size() for an inode the journal says something of: data   *)
(* without an inode is removed, a size that is too small is changed in     *)
(* place, in an atomic change of the LEB.                                  *)
(***************************************************************************)
RecoverInode(i) ==
    LET e == sizes[i]
        at == tnc.ino[i]
    IN IF at = NoBranch /\ ~e.exists
       THEN StrayRemoved(i) /\ UNCHANGED <<flash, life>>
       ELSE IF at = NoBranch
       THEN /\ life' = IF e.i_size < e.d_size THEN "dead" ELSE life
            /\ UNCHANGED <<flash, tnc>>
       ELSE /\ flash' = [flash EXCEPT ![at[1]][at[2]].val[1] =
                            Max({@, e.d_size})]
            /\ UNCHANGED <<tnc, life>>

RecoverSize(i) ==
    /\ life = "size" /\ sizes[i].on
    /\ RecoverInode(i)
    /\ sizes' = [sizes EXCEPT ![i] = NoSize]
    /\ UNCHANGED <<old, wbuf, wbuf_inos, head, next_bud, log, used, cvars,
                   ivars, hvars, sqnum, ops, cuts>>

\* The file system is recovered; a commit follows.
RecoverCommit ==
    /\ life = "size" /\ \A i \in Inos : ~sizes[i].on
    /\ life' = "commit"
    /\ UNCHANGED <<fvars, cvars, ivars, hvars, sqnum, tnc, sizes, ops, cuts>>

-----------------------------------------------------------------------------
\* A committed file of two units that has a name; what the empty LEBs held is
\* there to come back.
File == CHOOSE i \in Inos : TRUE
FileName == CHOOSE n \in Names : TRUE

Init ==
    LET base == Padded(<<[Dent(FileName, File) EXCEPT !.sqnum = 1],
                         [Ino(File, 2, 1) EXCEPT !.sqnum = 2],
                         [DirIno EXCEPT !.sqnum = 3, !.grp = "last"]>>)
        data == Padded(<<[Data(File, 0, 2) EXCEPT !.sqnum = 4, !.grp = "no"]>>)
        stale == <<[Dent(FileName, NoIno) EXCEPT !.sqnum = 0, !.grp = "last"],
                   [Data(File, 0, 1) EXCEPT !.sqnum = 0, !.grp = "no"], Torn>>
        index == [EmptyTnc EXCEPT !.dent[FileName] = <<1, 1>>,
                                  !.ino[File] = <<1, 2>>,
                                  !.data[<<File, 0>>] = <<2, 1>>]
    IN /\ flash = [l \in Lebs |-> IF l = 1 THEN base
                                  ELSE IF l = 2 THEN data ELSE <<>>]
       /\ old = [l \in Lebs |-> IF l > 2 THEN stale ELSE <<>>]
       /\ wbuf = [h \in Heads |-> <<>>]
       /\ wbuf_inos = [h \in Heads |-> {}]
       /\ head = [h \in Heads |-> IF h = "base" THEN 1 ELSE 2]
       /\ next_bud = [h \in Heads |-> 0]
       /\ log = <<Ref(1, Len(base), "base"), Ref(2, Len(data), "data")>>
       /\ new_tail = 0
       /\ used = {1, 2}
       /\ sqnum = 4
       /\ tnc = index
       /\ mst = [index |-> index, orphans |-> {}] /\ snap = mst
       /\ ui_size = [i \in Inos |-> IF i = File THEN 2 ELSE 0]
       /\ synced_i_size = ui_size
       /\ dirty_ino = {} /\ dirty_pg = {} /\ trunc = NoTrunc
       /\ open = {} /\ del_now = {} /\ unused = Inos \ {File}
       /\ life = "rw"
       /\ sizes = [i \in Inos |-> NoSize]
       /\ names_ok = {[n \in Names |-> IF n = FileName THEN File ELSE NoIno]}
       /\ files_ok = [i \in Inos |->
              IF i = File THEN [alive |-> TRUE, lo |-> 2, hi |-> 2,
                                data |-> [b \in Blocks |->
                                              {IF b = 0 THEN 4 ELSE 0}],
                                stray |-> FALSE]
              ELSE NoFile]
       /\ ops = 0 /\ commits = 0 /\ cuts = 0

Operation ==
    \/ \E n \in Names, i \in Inos : Create(n, i)
    \/ \E n \in Names : Unlink(n) \/ \E m \in Names : Rename(n, m)
    \/ \E i \in Inos :
          \/ Evict(i) \/ WriteInode(i) \/ JnlTruncate(i) \/ Fsync(i)
          \/ \E s \in 0 .. MaxSize - 1 : Truncate(i, s)
          \/ \E b \in Blocks :
                \/ WritePage(i, b) \/ TruncatePage(i, b)
                \/ Write(i, b, Min({2 * b + 2, MaxSize}))

Recovery ==
    \/ Mount \/ ReplayJournal \/ RecoverCommit
    \/ \E r \in ToSet(BudList) : FixUncleanLeb(r)
    \/ \E i \in Inos : RecoverSize(i)

Next ==
    \/ Operation
    \/ \E h \in Heads : WriteHead(h) \/ SyncHead(h) \/ NewBud(h) \/ Seek(h)
    \/ CommitStart \/ CommitEnd
    \/ PowerCut \/ Recovery

Spec == Init /\ [][Next]_vars

-----------------------------------------------------------------------------
(***************************************************************************)
(* Properties.                                                             *)
(***************************************************************************)

\* The journal a cut leaves can always be read: buds that are not the last of
\* their head are whole, and what is torn is in the last write (replay_bud(),
\* is_last_write()).
MountSucceeds == life # "dead"

AtCommit == life = "commit"

\* A directory is as it was at some moment since the base head was last
\* synchronized, with every operation done as a whole, and its entries have
\* inodes (groups of nodes, drop_last_group()).
OperationsAtomic ==
    AtCommit =>
        /\ Directory \in names_ok
        /\ \A n \in Names : Directory[n] # NoIno =>
               tnc.ino[Directory[n]] # NoBranch

\* A file that was synchronized is there, no smaller and no larger than it was
\* since, and each block holds what was written since: nothing is lost and
\* nothing comes back (ubifs_fsync(), ubifs_sync_wbufs_by_inode()).
SyncedSurvives ==
    AtCommit =>
        \A i \in Inos :
            IF tnc.ino[i] = NoBranch THEN ~files_ok[i].alive
            ELSE /\ DiskSize(i) \in files_ok[i].lo .. files_ok[i].hi
                 /\ \A b \in Blocks : SqnumOf(<<i, b>>) \in files_ok[i].data[b]

\* What recovery leaves of the journal is in order: there is no data without
\* an inode or behind its end (ubifs_recover_size_accum()), except for the page
\* do_truncation() writes whatever the size in the journal is.
NoStrayData ==
    AtCommit =>
        \A p \in Pages : tnc.data[p] # NoBranch /\ ~files_ok[p[1]].stray =>
            /\ tnc.ino[p[1]] # NoBranch
            /\ 2 * p[2] < DiskSize(p[1])

\* The index, in memory and as committed, refers to nodes that are there.
Refers(t) ==
    /\ \A n \in Names : t.dent[n] # NoBranch =>
           NodeAt(t.dent[n]).type = "dent" /\ NodeAt(t.dent[n]).key[1] = n
    /\ \A i \in Inos : t.ino[i] # NoBranch =>
           NodeAt(t.ino[i]).type = "ino" /\ NodeAt(t.ino[i]).key[1] = i
    /\ \A p \in Pages : t.data[p] # NoBranch =>
           NodeAt(t.data[p]).type = "data" /\ NodeAt(t.data[p]).key = p

IndexRefers == Refers(mst.index) /\ (life \in {"rw", "commit"} => Refers(tnc))

\* The index refers to what is there, and to no data that is behind an end.
IndexInOrder == IndexRefers /\ NoStrayData

=============================================================================
