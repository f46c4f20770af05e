---------------------------- MODULE UbifsOrphan ----------------------------
(***************************************************************************)
(* Orphans (src/modules/ubifs/orphan.c): inodes that are un-linked while   *)
(* they are open.  They are deleted when they are closed, and after a cut  *)
(* of power when the file system is mounted, so every commit records those *)
(* it puts into the index in the orphan area, a few LEBs.                  *)
(*                                                                         *)
(* The module is composed with the master node: the index a mount starts   *)
(* from, the commit number and the mark that there are no orphans are in   *)
(* it.  The journal is a sequence of un-linkings and deletions, the last   *)
(* of which may be lost in a write-buffer.                                 *)
(*                                                                         *)
(* A step is an operation under commit_sem, one write or erasure of a LEB, *)
(* or a phase of mounting.  Space in the area is counted in words: a node  *)
(* is a header of Hdr words and one word for each inode, and is padded to  *)
(* MinIo.                                                                  *)
(***************************************************************************)
EXTENDS UbifsMaster, FiniteSets, FiniteSetsExt

CONSTANTS
    Inos,           \* inodes, all of them linked at first
    OrphLebs,       \* orph_lebs
    LebWords,       \* the size of a LEB
    MinIo, Hdr,
    MaxCommits,     \* bound on the commits
    MaxCuts,        \* bound on the cuts of power
    MaxMounts       \* bound on the mounts, re-mounting read-only included

ASSUME OrphanSizes ==
    /\ {OrphLebs, LebWords, MinIo, Hdr} \subseteq Nat \ {0}
    /\ LebWords % MinIo = 0 /\ Hdr < LebWords
    /\ IsFiniteSet(Inos)

VARIABLES
    tnc,            \* what the index in memory says of an inode
    jnl,            \* un-linkings and deletions written to the journal
    synced,         \* how many of them are on the flash for certain
    orphans,        \* c->orph_tree and c->orph_list
    orph_cnext,     \* the inodes of the list of those being committed
    orph_dnext,     \* the list of those to be freed when the commit ends
    cmt_orphans, no_orphs,
    cmt_no,
    del_cmtno,      \* ui->del_cmtno of the inodes in memory
    oleb, oold,     \* the orphan area, and what its un-mapped LEBs held
    ohead,          \* ohead_lnum and ohead_offs
    onode,          \* the node that is being written
    cpc,            \* how far a commit is
    fresh,          \* the body of the master node the commit will write
    late,           \* history: older orphans closed before a commit lists them
    out_of_space,   \* "out of space in orphan area"
    cuts, mounts    \* cuts and mounts so far

ovars == <<tnc, jnl, synced, orphans, orph_cnext, orph_dnext, cmt_orphans,
           no_orphs, cmt_no, del_cmtno, oleb, oold, ohead, onode, cpc, fresh,
           late, out_of_space, cuts, mounts>>
vars == <<mvars, ovars>>

Lebs == 1 .. OrphLebs

\* Of an inode there are its entry and itself ("linked"), itself alone with no
\* links ("unlinked"), neither ("gone"), or the entry alone ("dangling"), which
\* must not happen.
Orphan(i, new, cnx, dnx) == [i |-> i, new |-> new, cnext |-> cnx, dnext |-> dnx]

Tree == {o.i : o \in ToSet(orphans)}
New == {o.i : o \in {p \in ToSet(orphans) : p.new}}
Without(i) == SelectSeq(orphans, LAMBDA o : o.i # i)

PerLeb == LebWords - Hdr
Aligned(n) == ((n + MinIo - 1) \div MinIo) * MinIo
Gap == LebWords - ohead.offs

\* avail_orphs(), tot_avail_orphs(), and the limit of ubifs_mount_orphans().
AvailOrphs ==
    (OrphLebs - ohead.leb) * PerLeb + (IF Gap > Hdr THEN Gap - Hdr ELSE 0)
TotAvail == (OrphLebs * PerLeb) \div 2
MaxOrphans == TotAvail

\* What ubifs_tnc_remove_ino() makes of an inode.
Removed(s) == IF s \in {"linked", "dangling"} THEN "dangling" ELSE "gone"

\* What replaying an un-linking or a deletion makes of it: both nodes say the
\* inode has no links, the first also removes the entry.
Replayed(s, e) == IF e.unlink THEN "gone" ELSE Removed(s)

Replay(idx, from) ==
    [i \in Inos |->
        FoldLeft(LAMBDA s, e : IF e.i = i THEN Replayed(s, e) ELSE s,
                 idx[i], SubSeq(jnl, from + 1, Len(jnl)))]

-----------------------------------------------------------------------------
OrphNode(inos, cmt, last) == [inos |-> inos, cmt |-> cmt, last |-> last]
NoNode == OrphNode(<<>>, 0, FALSE)

Body(idx, cmt, js, none) ==
    [idx |-> idx, cmt |-> cmt, js |-> js, no_orphs |-> none]

Forget ==
    /\ orphans' = <<>> /\ orph_cnext' = <<>> /\ orph_dnext' = <<>>
    /\ cmt_orphans' = 0 /\ no_orphs' = FALSE /\ cmt_no' = 0
    /\ del_cmtno' = [i \in Inos |-> 0]
    /\ ohead' = [leb |-> 1, offs |-> 0] /\ onode' = NoNode
    /\ cpc' = "none"
    /\ fresh' = mst.body

Init ==
    /\ MasterInit(Body([i \in Inos |-> "linked"], 1, 0, TRUE))
    /\ tnc = [i \in Inos |-> "linked"]
    /\ jnl = <<>> /\ synced = 0
    /\ orphans = <<>> /\ orph_cnext = <<>> /\ orph_dnext = <<>>
    /\ cmt_orphans = 0 /\ no_orphs = FALSE /\ cmt_no = 0
    /\ del_cmtno = [i \in Inos |-> 0]
    /\ oleb = [l \in Lebs |-> <<>>] /\ oold = [l \in Lebs |-> <<>>]
    /\ ohead = [leb |-> 1, offs |-> 0] /\ onode = NoNode
    /\ cpc = "none"
    /\ fresh = mst.body
    /\ late = {} /\ out_of_space = FALSE
    /\ cuts = 0 /\ mounts = 0

Running == life = "rw" /\ goal \notin {"umount", "ro"}
Log(e) == jnl' = Append(jnl, e)

-----------------------------------------------------------------------------
(***************************************************************************)
(* The operations, with commit_sem taken for reading.                      *)
(***************************************************************************)

\* ubifs_jnl_update() removes the last link of an open inode; -ENFILE when
\* ubifs_add_orphan() finds too many.
Unlink(i) ==
    /\ Running /\ tnc[i] = "linked"
    /\ Len(orphans) < MaxOrphans
    /\ tnc' = [tnc EXCEPT ![i] = "unlinked"]
    /\ Log([i |-> i, unlink |-> TRUE])
    /\ orphans' = Append(orphans, Orphan(i, TRUE, FALSE, FALSE))
    /\ del_cmtno' = [del_cmtno EXCEPT ![i] = cmt_no]
    /\ UNCHANGED <<mvars, synced, orph_cnext, orph_dnext, cmt_orphans,
                   no_orphs, cmt_no, oleb, oold, ohead, onode, cpc, fresh,
                   late, out_of_space, cuts, mounts>>

(***************************************************************************)
(* ubifs_delete_orphan().  An orphan that is being committed is freed      *)
(* later; that it is, is told from its cnext pointer.                      *)
(***************************************************************************)
DeleteOrphan(i) ==
    LET o == CHOOSE p \in ToSet(orphans) : p.i = i
    IN IF o.dnext THEN UNCHANGED <<orphans, orph_dnext>>
       ELSE IF o.cnext
       THEN /\ orph_dnext' = <<i>> \o orph_dnext
            /\ orphans' = [k \in DOMAIN orphans |->
                   IF orphans[k].i = i
                   THEN [o EXCEPT !.dnext = orph_dnext # <<>>]
                   ELSE orphans[k]]
       ELSE orphans' = Without(i) /\ UNCHANGED orph_dnext

\* ubifs_jnl_delete_inode() of an open inode: a deletion node is written only
\* when a commit was started since the inode was un-linked.
Evict(i) ==
    /\ Running /\ tnc[i] = "unlinked" /\ i \in Tree
    /\ tnc' = [tnc EXCEPT ![i] = "gone"]
    /\ IF del_cmtno[i] # cmt_no THEN Log([i |-> i, unlink |-> FALSE])
                                ELSE UNCHANGED jnl
    /\ DeleteOrphan(i)
    /\ del_cmtno' = [del_cmtno EXCEPT ![i] = 0]
    /\ late' = IF cpc = "orphans" /\ i \notin ToSet(orph_cnext)
                THEN late \cup {i} ELSE late
    /\ UNCHANGED <<mvars, synced, orph_cnext, cmt_orphans, no_orphs, cmt_no,
                   oleb, oold, ohead, onode, cpc, fresh, out_of_space,
                   cuts, mounts>>

-----------------------------------------------------------------------------
(***************************************************************************)
(* The commit.                                                             *)
(***************************************************************************)

\* The write-buffers are synchronized; a mutant that leaves it for later.
SyncLater == UNCHANGED synced
SyncBuffers == synced' = Len(jnl)

\* c->no_orphs; a mutant that looks at the new ones only.
NoNewOrphs == New = {}
NoOrphs == orphans = <<>>

(***************************************************************************)
(* do_commit() with commit_sem taken for writing: write-buffers are        *)
(* flushed, the commit number grows, and ubifs_orphan_start_commit() lists *)
(* the new orphans.  The cnext of the last of them is set, too: the code   *)
(* reads it through the list head, which orph_cnext follows, the first.    *)
(***************************************************************************)
OrphanStartCommit ==
    LET news == SelectSeq(orphans, LAMBDA o : o.new)
    IN /\ orph_cnext' = [k \in DOMAIN news |-> news[k].i]
       /\ cmt_orphans' = Len(news)
       /\ orphans' = [k \in DOMAIN orphans |->
              IF orphans[k].new
              THEN [orphans[k] EXCEPT !.new = FALSE, !.cnext = TRUE]
              ELSE orphans[k]]
       /\ no_orphs' = NoOrphs

CommitStart ==
    /\ Running \/ life = "recovering"
    /\ cpc = "none" /\ cmt_no < MaxCommits
    /\ SyncBuffers
    /\ cmt_no' = cmt_no + 1
    /\ fresh' = Body(tnc, cmt_no + 1, Len(jnl), NoOrphs)
    /\ OrphanStartCommit
    /\ cpc' = "orphans"
    /\ UNCHANGED <<mvars, tnc, jnl, orph_dnext, del_cmtno, oleb, oold, ohead,
                   onode,
                   late, out_of_space, cuts, mounts>>

\* commit_orphans(): when there is no room, consolidate() lists every orphan
\* that is not new and starts over at the first LEB.
CommitOrphans ==
    /\ cpc = "orphans"
    /\ IF cmt_orphans = 0
       THEN cpc' = "erase" /\ UNCHANGED <<orphans, orph_cnext, cmt_orphans,
                                          ohead, out_of_space>>
       ELSE IF AvailOrphs >= cmt_orphans
       THEN cpc' = "write" /\ UNCHANGED <<orphans, orph_cnext, cmt_orphans,
                                          ohead, out_of_space>>
       ELSE LET olds == SelectSeq(orphans, LAMBDA o : ~o.new)
            IN IF Len(olds) > TotAvail
               THEN /\ out_of_space' = TRUE /\ cpc' = "failed"
                    /\ UNCHANGED <<orphans, orph_cnext, cmt_orphans, ohead>>
               ELSE /\ orph_cnext' = [k \in DOMAIN olds |-> olds[k].i]
                    /\ cmt_orphans' = Len(olds)
                    /\ orphans' = [k \in DOMAIN orphans |->
                           IF orphans[k].new THEN orphans[k]
                           ELSE [orphans[k] EXCEPT !.cnext = TRUE]]
                    /\ ohead' = [leb |-> 1, offs |-> 0]
                    /\ cpc' = "atomic"
                    /\ UNCHANGED out_of_space
    /\ UNCHANGED <<mvars, tnc, jnl, synced, orph_dnext, no_orphs, cmt_no,
                   del_cmtno, oleb, oold, onode, fresh, late, cuts, mounts>>

Size(n) == IF n = Junk THEN MinIo ELSE Aligned(Hdr + Len(n.inos))
EndOf(leb) == FoldLeft(LAMBDA e, n : e + Size(n), 0, leb)

\* Where write_orph_node() writes, and how many orphans.
Place == IF Gap < Hdr + 1 THEN [leb |-> ohead.leb + 1, offs |-> 0] ELSE ohead
Count == Min({LebWords - Place.offs - Hdr, cmt_orphans})
ToWrite == SubSeq(orph_cnext, 1, Count)

OrphansGoOut == cpc \in {"write", "atomic"}

\* write_orph_node() takes the orphans of one node from the list, under
\* orphan_lock.  The limit on orphans should keep it from running out of the
\* area.
FillOrphNode ==
    /\ OrphansGoOut /\ onode = NoNode /\ cmt_orphans > 0
    /\ IF Place.leb \notin Lebs
       THEN /\ out_of_space' = TRUE /\ cpc' = "failed"
            /\ UNCHANGED <<orphans, orph_cnext, cmt_orphans, ohead, onode>>
       ELSE /\ onode' = OrphNode(ToWrite, cmt_no, Count = cmt_orphans)
            /\ ohead' = Place
            /\ orphans' = [k \in DOMAIN orphans |->
                   IF orphans[k].i \in ToSet(ToWrite)
                   THEN [orphans[k] EXCEPT !.cnext = FALSE] ELSE orphans[k]]
            /\ orph_cnext' = SubSeq(orph_cnext, Count + 1, Len(orph_cnext))
            /\ cmt_orphans' = cmt_orphans - Count
            /\ UNCHANGED <<cpc, out_of_space>>
    /\ UNCHANGED <<mvars, tnc, jnl, synced, orph_dnext, no_orphs, cmt_no,
                   del_cmtno, oleb, oold, fresh, late, cuts, mounts>>

HeadLeb == oleb[ohead.leb]
ToUnmap == cpc = "write" /\ ohead.offs = 0 /\ HeadLeb # <<>>

\* do_write_orph_node(): the LEB is changed as a whole, or the node is written
\* to it; a LEB that is started anew is un-mapped first.
WriteOrphNode ==
    /\ OrphansGoOut /\ onode # NoNode
    /\ IF ToUnmap
       THEN /\ oold' = [oold EXCEPT ![ohead.leb] = HeadLeb]
            /\ oleb' = [oleb EXCEPT ![ohead.leb] = <<>>]
            /\ UNCHANGED <<ohead, onode>>
       ELSE /\ oleb' = [oleb EXCEPT ![ohead.leb] =
                            IF cpc = "atomic" THEN <<onode>>
                            ELSE Append(@, onode)]
            /\ oold' = [oold EXCEPT ![ohead.leb] = <<>>]
            /\ ohead' = [ohead EXCEPT !.offs = @ + Size(onode)]
            /\ onode' = NoNode
    /\ UNCHANGED <<mvars, tnc, jnl, synced, orphans, orph_cnext, orph_dnext,
                   cmt_orphans, no_orphs, cmt_no, del_cmtno, cpc, fresh, late,
                   out_of_space, cuts, mounts>>

AllWritten == cmt_orphans = 0 /\ onode = NoNode

\* After a consolidation the LEBs behind the head are un-mapped.
UnmapUnused ==
    /\ cpc = "atomic" /\ AllWritten
    /\ IF \E l \in Lebs : l > ohead.leb /\ oleb[l] # <<>>
       THEN LET l == Min({k \in Lebs : k > ohead.leb /\ oleb[k] # <<>>})
            IN /\ oold' = [oold EXCEPT ![l] = oleb[l]]
               /\ oleb' = [oleb EXCEPT ![l] = <<>>]
               /\ UNCHANGED cpc
       ELSE cpc' = "erase" /\ UNCHANGED <<oleb, oold>>
    /\ UNCHANGED <<mvars, tnc, jnl, synced, orphans, orph_cnext, orph_dnext,
                   cmt_orphans, no_orphs, cmt_no, del_cmtno, ohead, onode,
                   fresh, late, out_of_space, cuts, mounts>>

\* erase_deleted(), and the master node is given to be written.
EraseDeleted ==
    /\ cpc = "erase" \/ (cpc = "write" /\ AllWritten)
    /\ orphans' = SelectSeq(orphans, LAMBDA o : o.i \notin ToSet(orph_dnext))
    /\ orph_dnext' = <<>>
    /\ WriteMaster([mst EXCEPT !.body = [fresh EXCEPT !.no_orphs = no_orphs]],
                   "commit")
    /\ cpc' = "master"
    /\ UNCHANGED <<mleb, mold, life, ro_mount, need_recovery, rcvrd, tnc, jnl,
                   synced, orph_cnext, cmt_orphans, no_orphs, cmt_no,
                   del_cmtno, oleb, oold, ohead, onode, fresh, late,
                   out_of_space, cuts, mounts>>

CommitEnd ==
    /\ cpc = "master" /\ wpc = "idle"
    /\ cpc' = "none"
    /\ goal' = "none"
    /\ life' = "rw"
    /\ need_recovery' = FALSE
    /\ UNCHANGED <<mleb, mold, mst, moffs, wpc, ro_mount, rcvrd, tnc, jnl,
                   synced, orphans, orph_cnext, orph_dnext, cmt_orphans,
                   no_orphs, cmt_no, del_cmtno, oleb, oold, ohead, onode,
                   fresh, late, out_of_space, cuts, mounts>>

-----------------------------------------------------------------------------
(***************************************************************************)
(* Un-mounting, cuts of power, mounting.                                   *)
(***************************************************************************)

\* ubifs_put_super() and ubifs_remount_ro(): open files have been closed.
LeaveClean(for) ==
    /\ Running /\ cpc = "none"
    /\ for = "ro" => mounts < MaxMounts
    /\ \A i \in Inos : tnc[i] = "unlinked" => i \notin Tree
    /\ synced' = Len(jnl)
    /\ MarkClean([mst.body EXCEPT !.no_orphs = TRUE], for)
    /\ UNCHANGED <<tnc, jnl, orphans, orph_cnext, orph_dnext, cmt_orphans,
                   no_orphs, cmt_no, del_cmtno, oleb, oold, ohead, onode,
                   cpc, fresh, late, out_of_space, cuts, mounts>>

\* UBI may or may not have erased what was un-mapped.
Back(old) == old # <<>>
Returned(S) == [l \in Lebs |-> IF l \in S THEN oold[l] ELSE oleb[l]]
MayReturn == {l \in Lebs : oleb[l] = <<>> /\ Back(oold[l])}

Gone ==
    /\ Off
    /\ oold' = [l \in Lebs |-> <<>>]
    /\ Forget
    /\ tnc' = [i \in Inos |-> "linked"]

Unmounted ==
    /\ wpc = "idle"
    /\ \/ goal = "umount" /\ life = "rw"
       \/ life = "ro"
    /\ \E S \in SUBSET MayReturn : oleb' = Returned(S)
    /\ Gone
    /\ UNCHANGED <<mleb, mold, jnl, synced, late, out_of_space, cuts,
                   mounts>>

ReadOnlyNow ==
    /\ wpc = "idle" /\ goal = "ro" /\ life = "rw"
    /\ life' = "ro" /\ ro_mount' = TRUE /\ goal' = "none"
    /\ mounts' = mounts + 1
    /\ UNCHANGED <<mleb, mold, mst, moffs, wpc, need_recovery, rcvrd, tnc, jnl,
                   synced, orphans, orph_cnext, orph_dnext, cmt_orphans,
                   no_orphs, cmt_no, del_cmtno, oleb, oold, ohead, onode,
                   cpc, fresh, late, out_of_space, cuts>>

\* A cut in a write of an orphan node leaves it torn; what was in the
\* write-buffers is lost from some point on.
Tearing == cpc = "write" /\ onode # NoNode /\ ~ToUnmap

PowerCut ==
    /\ life \notin {"off", "dead"} /\ cuts < MaxCuts
    /\ MasterCut
    /\ \E k \in synced .. Len(jnl) : jnl' = SubSeq(jnl, 1, k) /\ synced' = k
    /\ \E S \in SUBSET MayReturn, torn \in {FALSE, Tearing} :
           oleb' = IF ~torn THEN Returned(S)
                   ELSE [Returned(S) EXCEPT ![ohead.leb] =
                            Append(HeadLeb, Junk)]
    /\ oold' = [l \in Lebs |-> <<>>]
    /\ Forget
    /\ tnc' = [i \in Inos |-> "linked"]
    /\ cuts' = cuts + 1
    /\ UNCHANGED <<late, out_of_space, mounts>>

Mount(ro) ==
    /\ mounts < MaxMounts
    /\ ReadMaster(ro)
    /\ mounts' = mounts + 1
    /\ UNCHANGED <<tnc, jnl, synced, orphans, orph_cnext, orph_dnext,
                   cmt_orphans, no_orphs, cmt_no, del_cmtno, oleb, oold, ohead,
                   onode, cpc, fresh, late, out_of_space, cuts>>

MasterOp ==
    /\ life \notin {"off", "dead"}
    /\ WriteStep \/ RecoverStep \/ MarkDirty
    /\ UNCHANGED ovars

(***************************************************************************)
(* do_kill_orphans() over the LEBs in turn.  The scan remembers the last   *)
(* commit number and whether its node was marked the last of that commit;  *)
(* a LEB that begins with an older node is out of date and ends the scan.  *)
(***************************************************************************)
Scan0 == [cmt |-> 0, last |-> FALSE, stop |-> FALSE, ok |-> TRUE,
          kill |-> <<>>, head |-> [leb |-> 1, offs |-> 0], max |-> 0]

ScanNode(a, n, first) ==
    IF a.stop \/ ~a.ok \/ n = Junk THEN a
    ELSE LET b == [a EXCEPT !.max = Max({a.max, n.cmt})]
         IN IF n.cmt < a.cmt /\ a.last
            THEN IF first THEN [b EXCEPT !.stop = TRUE] ELSE [b EXCEPT !.ok = FALSE]
            ELSE [b EXCEPT !.cmt = n.cmt, !.last = n.last,
                           !.kill = a.kill \o n.inos]

ScanLeb(a, l) ==
    LET good == SelectSeq(oleb[l], LAMBDA n : n # Junk)
        b == FoldLeftDomain(LAMBDA r, k : ScanNode(r, good[k], k = 1), a, good)
    IN IF a.stop \/ b.stop \/ ~b.ok \/ good = <<>> THEN b
       ELSE [b EXCEPT !.head = [leb |-> l, offs |-> EndOf(good)]]

ScanArea == FoldLeftDomain(LAMBDA a, l : ScanLeb(a, l), Scan0, oleb)

\* insert_dead_orphan() for all that were found.
DeadList(kill) ==
    LET once == FoldLeft(LAMBDA s, i : IF i \in ToSet(s) THEN s
                                       ELSE Append(s, i), <<>>, kill)
    IN [k \in DOMAIN once |-> Orphan(once[k], FALSE, FALSE, k > 1)]

Trimmed == [l \in Lebs |-> SelectSeq(oleb[l], LAMBDA n : n # Junk)]

\* ubifs_replay_journal() and ubifs_mount_orphans().
MountOrphans ==
    /\ life = "mounting" /\ wpc = "idle" /\ goal = "mount"
    /\ LET idx == Replay(mst.body.idx, mst.body.js)
           scan == IF need_recovery /\ ~mst.body.no_orphs
                   THEN ScanArea ELSE Scan0
           dead == DeadList(scan.kill)
       IN /\ tnc' = [i \in Inos |-> IF i \in ToSet(scan.kill)
                                    THEN Removed(idx[i]) ELSE idx[i]]
          /\ orphans' = dead
          /\ orph_dnext' = Reverse([k \in DOMAIN dead |-> dead[k].i])
          /\ cmt_no' = Max({mst.body.cmt, scan.max})
          /\ ohead' = scan.head
          /\ IF ~scan.ok THEN life' = "dead"
             ELSE life' = IF ro_mount THEN "ro"
                          ELSE IF need_recovery THEN "recovering" ELSE "rw"
          /\ oleb' = IF ro_mount THEN oleb
                     ELSE IF need_recovery
                     THEN IF mst.body.no_orphs THEN oleb ELSE Trimmed
                     ELSE [l \in Lebs |-> <<>>]
          /\ oold' = IF ro_mount \/ need_recovery THEN oold
                     ELSE [l \in Lebs |->
                              IF oleb[l] = <<>> THEN oold[l] ELSE oleb[l]]
    /\ no_orphs' = mst.body.no_orphs
    /\ synced' = Len(jnl)
    /\ goal' = "none"
    /\ UNCHANGED <<mleb, mold, mst, moffs, wpc, ro_mount, need_recovery, rcvrd,
                   jnl, orph_cnext, cmt_orphans, del_cmtno, onode, cpc, fresh,
                   late, out_of_space, cuts, mounts>>

\* ubifs_remount_rw(): what was put off is done, or the area is cleared.
RemountRw ==
    /\ life = "ro" /\ goal = "none"
    /\ ro_mount' = FALSE /\ rcvrd' = FALSE
    /\ IF need_recovery
       THEN /\ oleb' = IF mst.body.no_orphs THEN oleb ELSE Trimmed
            /\ UNCHANGED <<oold, ohead>>
            /\ wpc' = IF rcvrd THEN "rcv1" ELSE "idle"
            /\ mst' = [mst EXCEPT !.dirty = TRUE]
            /\ goal' = "remount"
       ELSE /\ oold' = [l \in Lebs |->
                           IF oleb[l] = <<>> THEN oold[l] ELSE oleb[l]]
            /\ oleb' = [l \in Lebs |-> <<>>]
            /\ ohead' = [leb |-> 1, offs |-> 0]
            /\ mst' = [mst EXCEPT !.dirty = TRUE]
            /\ goal' = "remount"
            /\ wpc' = IF moffs = Slots THEN "unmap1" ELSE "write1"
    /\ moffs' = IF need_recovery THEN moffs
                ELSE IF moffs = Slots THEN 1 ELSE moffs + 1
    /\ UNCHANGED <<mleb, mold, life, need_recovery, tnc, jnl, synced, orphans,
                   orph_cnext, orph_dnext, cmt_orphans, no_orphs, cmt_no,
                   del_cmtno, onode, cpc, fresh, late, out_of_space, cuts,
                   mounts>>

RemountDone ==
    /\ life = "ro" /\ goal = "remount" /\ wpc = "idle"
    /\ life' = IF need_recovery THEN "recovering" ELSE "rw"
    /\ goal' = "none"
    /\ UNCHANGED <<mleb, mold, mst, moffs, wpc, ro_mount, need_recovery, rcvrd,
                   ovars>>

-----------------------------------------------------------------------------
Commit ==
    CommitStart \/ CommitOrphans \/ FillOrphNode \/ WriteOrphNode
        \/ UnmapUnused \/ EraseDeleted \/ CommitEnd

Next ==
    \/ \E i \in Inos : Unlink(i) \/ Evict(i)
    \/ Commit
    \/ \E for \in {"umount", "ro"} : LeaveClean(for)
    \/ Unmounted \/ ReadOnlyNow \/ PowerCut
    \/ \E ro \in BOOLEAN : Mount(ro)
    \/ MasterOp \/ MountOrphans \/ RemountRw \/ RemountDone

Spec == Init /\ [][Next]_vars

-----------------------------------------------------------------------------
(***************************************************************************)
(* Properties.                                                             *)
(***************************************************************************)

Lost(i) ==
    /\ life \in {"rw", "recovering"}
    /\ tnc[i] = "unlinked"
    /\ i \notin Tree \/ i \in ToSet(orph_dnext)

\* Every inode without links that the file system knows of is an orphan of
\* the running session, so that somebody will delete it: no cut leaves one
\* behind that the scan of the orphan area misses.  One that an earlier commit
\* wrote and that is closed when the next has started and has not listed its
\* orphans yet is excepted: it may be left out of a consolidation and its
\* deletion be lost (consolidate()).
OpenAreKilled == \A i \in Inos : Lost(i) => i \in late

\* Only inodes whose un-linking is on the flash are deleted at mount: an
\* orphan node is written after the journal is, so no entry is left dangling.
NoneDangling == \A i \in Inos : tnc[i] # "dangling"

\* The limit on orphans is enough: neither the area nor consolidation runs
\* out of space, and an area left by a cut is always in order.
AreaSuffices == ~out_of_space /\ life # "dead"

\* erase_deleted(): the orphans being committed are not freed before it.
CommittedStay ==
    cpc \in {"write", "atomic"} => ToSet(orph_cnext) \subseteq Tree

\* The orphans of a commit and the area they are written to are in order.
OrphansInOrder == NoneDangling /\ AreaSuffices /\ CommittedStay

=============================================================================
