# TLA+ models of the InfoTM UBI / UBIFS / UFTL modules

The repository holds three Linux 3.0.8 kernel modules for raw NAND flash:

* `src/modules/ubi`: UBI, which maps the logical eraseblocks (LEBs) of volumes
  to physical eraseblocks (PEBs), levels their wear and survives power cuts;
* `src/modules/uftl`: UFTL, InfoTM's block device on a UBI volume;
* `src/modules/ubifs`: UBIFS, the file system on UBI volumes.

There are no tests and no documents beside the comments in the sources, so the
properties below come from those comments, from the assertions and from what
callers rely on.

## Inventory

| Part | State it keeps | Operations | What is hard |
|---|---|---|---|
| UBI WL (`wl.c`) | RB-trees of entries, protection queue, pending works, the move in progress | get, put, scrub, flush; erase and wear-leveling workers; background thread | several threads execute works; the lock is dropped around I/O; errors free entries |
| UBI EBA (`eba.c`) | `eba_tbl` per volume, LEB locks, `global_sqnum` | un-map, map, write, atomic change, copy for WL, recovery of a failing PEB | power cut between the header and the data; retries; a move against writers |
| UBI scan (`scan.c`) | lists of PEBs, one entry per LEB | attach: choose between copies | two or three PEBs of one LEB with torn data |
| UBI volume table (`vtbl.c`), volumes (`vmt.c`), update (`upd.c`) | two copies of the table; reserved and available PEBs; update marker | create, remove, re-size, rename, update | partial failure and power cut between the steps |
| UBI devices (`build.c`, `cdev.c`, `kapi.c`) | device and volume reference counts, open modes | attach, detach, open, close, ioctls, notifiers | open against remove and detach |
| UFTL core (`uftl_core.c`, `uftl_io.c`) | sector index, page states, current block, page buffers | read, write, flush, garbage collection, attach | everything is rebuilt from the pages after a power cut; stale tables after an error |
| UFTL device (`uftl_dev.c`) | the open volume, delayed work | open, release, flush, add, remove | delayed work against removal |
| UBIFS commit, log, journal (`commit.c`, `log.c`, `journal.c`, `replay.c`) | commit state, buds, log head and tail, journal heads | commit in two phases, reserve space, replay | writers continue during a commit; a power cut at any node |
| UBIFS write-buffers (`io.c`), GC (`gc.c`), orphans (`orphan.c`), master (`master.c`), recovery (`recovery.c`) | write-buffers, LEBs reserved, orphan list, two master nodes | synchronise, move nodes, commit orphans, recover | the order of writes that recovery relies on |
| UBIFS budgeting (`budget.c`), LEB properties (`lprops.c`, `lpt*.c`, `find.c`), TNC (`tnc*.c`) | budgets, free and dirty space, the index | budget, release, change, commit copies | concurrent reservations; nodes changed while they are committed |
| UBIFS VFS layer (`dir.c`, `file.c`, `super.c`, `ioctl.c`) | inodes, page flags | file operations, mount | budgets along page states |

How they interact: `kapi.c` calls EBA, which takes PEBs from WL and gives them
back; WL calls EBA to copy a LEB it wants to move; scan fills both when a device
is attached. UFTL and UBIFS use only the calls of `kapi.c`. `debug.c`, `gluebi.c`
and `xattr.c` are not built (see the Makefiles). `PROJECT.json` lists every part
with its status, and every hazard with the line where it bites.

## Plan

The modules were written in this order, the most important behaviour first; each is over
what the one below promises.

1. **`UbiWl`, `PebPool`, `UbiWlProofs`**: the pool of PEBs everything else
   rests on, its abstract promise, the proof that it is kept.
2. **`UbiEba`, `UbiEbaProofs`**: LEBs over `PebPool`, with power cuts and the scan; theorems: everything
   its runs check.
3. **`Uftl`, `UftlProofs`**: the block device over the LEB calls; theorems: everything its runs check
   but the end of recycling.
4. **`UbifsCommit`, `UbifsCommitProofs`**: the commit state machine with
   writers, the background thread and the log; theorems: one commit at a time, writers
   excluded while it starts, a failed commit is the last, the bud bytes are counted.
5. **`UbiVol`, `UbiVolProofs`**: volume operations, open modes, the two copies of the volume
   table and the update marker, with power cuts; theorems: everything its run checks.
6. **`UbifsMaster`, `MasterRegister`, `UbifsOrphan`, `UbifsMasterProofs`**: the master area as an
   atomic register, and the orphans, whose correctness needs it; theorem: it is one.
7. **`UbifsJournal`**: what operations write, the write-buffers, power cuts, replay and
   recovery.
8. **`UbifsTnc`, `SnapshotIndex`**: the index in memory and its commit.
9. **`UbifsSpace`, `UbifsSpaceProofs`**: LEB properties, budgeting, the garbage collector; theorem: LEBs, counters and
   budgets agree.

Composition: `UbiEba` is written over `PebPool`, which `UbiWl` is proved to
implement; `Uftl` and the UBIFS modules are written over LEBs as `UbiEba`
provides them (a LEB that is un-mapped may come back after a power cut, a write that is cut
leaves a torn tail, a change of a LEB is atomic). `UbifsOrphan` extends `UbifsMaster`. The
commit is one flash write in `UbifsJournal`, which is what `UbifsMaster` shows of the
master node and `UbifsTnc` of the index; the order of its phases against writers is in `UbifsCommit`.

## Modules

### `UbiWl` (wl.c)

The variables are the fields of `struct ubi_device` that `wl.c` uses: `free`,
`used`, `scrub`, `erroneous` (the trees, as sets), `pq` and `pqHead`, `works` (a
sequence), `moveFrom`, `moveTo`, `moveToPut`, `wlScheduled`, `moveMutex`, `roMode`,
`bebRsvd`. `job` is where each worker (a client or the background thread) is inside
a work, `pc`, `arg` and `tort` are where each client is. `mapped` is what EBA's
tables point to, `bad` and `freed` record PEBs marked bad and entries given to
`kmem_cache_free()`.

One action is one critical section of `wl_lock`, together with what follows it up
to the next one without touching shared state; a `schedule_erase()` that follows a
section directly is in the same step. Erase counters are abstracted to choice: any
entry may be the one a tree search finds, a move may or may not be needed. The
erasure inside `ubi_wl_get_peb()` may take longer than the protection of the PEB. `Init`
is `ubi_wl_init_scan()` (`InitScan`) for any partition of the PEBs into used and free ones, ones
to scrub, and ones the scan wants erased, which are queued in the order of its list (`Erasures`).
Which clients call `ubi_wl_flush()` is a constant (`Flushers`); that a read finds bit-flips and the
PEB is to be scrubbed is the fault `bitflip`.

What is simplified: in `ensure_wear_leveling()` the critical section that sets `wl_scheduled` and the queueing of the work
after it are one step, and so are the end of a put (`PutUnlink`) and of a move (`WlRelease`) with the erasure they schedule.

### `PebPool`

The promise of WL to EBA: each PEB is `free`, `held`, `dirty` or `bad`; it is handed
out only when free, is free only after an erasure, and is erased only after it was
put or its contents were moved. `KeepsPromise` in `UbiWl` is `PoolSpec` under the
mapping `PoolStatus`.

### `UbiEba` (eba.c, scan.c)

`flash` is what is on each PEB (EC header, VID header, pages), `ebaTbl` the table,
`op[l]` the operation that holds the lock of LEB `l` with its position. Every write to
the flash is an action, so a power cut can fall between any two, and
`PowerCutFlash` adds the results of the write it interrupts: a torn header, or a
prefix of the pages with the last one torn. `PowerCut` is the whole attach:
`Beats` is `compare_lebs()`, `ScanTbl` and `ScanStatus` are what
`ubi_scan_add_used()` and `process_eb()` decide. `want` records what the
completed calls promise.

A move is selected under `wl_lock` (`SelectMove`, the pair of PEBs is in `mv`), before the worker looks at the LEB. In
between the LEB may be written, un-mapped or mapped anew; but a put of the selected PEB waits for `move_mutex`
(`CanPut`), so that it is not erased. `StartMove` gets the lock of the LEB and compares `eba_tbl` with the PEB that was
selected (`eba.c:1044`); every other outcome is `CancelMove`.

What is simplified: `ubi_wl_get_peb()` fails (`GetFails`) when no PEB is free and none waits for erasure, or, with the
fault `get_error`, also when one does and the erasure fails; after a failing `recover_peb()` the retries of the code are one
step to read-only mode or back to the caller; an atomic change to length 0 is an un-map and a write, two calls here.
Writes to static volumes are not modelled.

### `Uftl` (uftl_core.c, uftl_io.c, the entry points of uftl_dev.c)

`leb` is the contents of the LEBs: data pages with their page log (virtual sector and
block id) and the log page of a full block. `index`, `state`, `using`, `cur`,
`blockId`, `logPage`, `fifo`, `checkCount` and `pool` are the static variables of
`uftl_core.c`. `op` is the operation that holds `uftl_mutex`, with its program
counter; its steps are the writes and un-maps of LEBs, so that the power can be cut
between and during them. `Attach` is `create_index()` followed by `init_status()` and
`ftl_rescure()`, in one step: attaching writes nothing but un-maps of unused blocks
and one atomic LEB change, which another attach repeats. The contents of freed
buffers is `Junk`, which also stands for sectors never written.

While blocks are recycled, `op.room` is what could be written without recycling (`Room`: what is left of the
current block and the empty blocks) when the last block was picked; `RecyclingEnds` says that it is more each time.

The delayed work flushes old buffers one after the other; each is an operation of its
own here, which only adds interleavings.

What is simplified: `need_rewrite` and `rewrite_page` (`uftl_core.c:177`) are static and never reset; the model takes them as
new at each attach. That they keep a value matters when a driver attaches a second time without having been loaded
again, or when an unreadable first page sets them before the block that was being written is found: then
`ftl_rescure()` may re-write the wrong block.

### `UbiVol` (vmt.c, vtbl.c, upd.c, the opens of kapi.c, the ioctls of cdev.c)

`vols` is `volumes[]`: each entry has what `struct ubi_volume` keeps of size, name, update
marker and users, and `listed`, which a removal clears before the volume is gone. `vtbl` is the
table in RAM, `lay` the two LEBs of the layout volume, `eba` what is mapped in each volume;
`layPend` and `pend` are the newest contents of each LEB that are un-mapped but perhaps not yet
erased. `avail`, `beb` and `good` count PEBs, `mutex` is who holds `device_mutex`, `stage` how
far it has come in writing the table. `desc` is the mode in which a process has a volume
open, `pc` and `job` the request it executes. `done` and `torn` are history: the table
last written to LEB 0, and the volumes of a re-name that broke off.

A request is taken up to `device_mutex` (`CreateStart`, `Request`, `RenameStart` ...
`RenameOpenNamed`, `UpdateStart`), takes it and changes the table in RAM (`LockRemove`,
`LockResize`, `LockRename`, `LockMark`, `CreateFlush`), writes the table in four steps (`TableStep`)
and does the rest (`CreateEnd` ... `ClearEnd`); or it fails (`GiveUp`, `RenameBusy`,
`TableFails`, `UnmapFails`). `PowerCut` is the cut and the next attach: any of the un-mapped LEBs
may still be there, `AttachTable` is `process_lvol()`, `SaneTable` is `vtbl_check()`, `Fits`
is `check_sv()`, `AttachVols` is `init_volumes()`, `PebsLeft` what `ubi_eba_init_scan()` can reserve. An attach
that is refused leaves the device off.

What is simplified: volumes are dynamic; LEBs hold `"data"`, `"new"` (an update that is not
finished) or `"stale"` contents; only the newest un-mapped contents of a LEB can come back; a
failure of the flash makes the device read-only, as it does in `wl.c` and `eba.c`, and nothing
new is created or re-named then (the code lets a re-name begin, which fails when it writes the table); a re-name that skips a volume opens and closes it in one
step; the LEBs of a volume are un-mapped in one step. After a re-name that broke off (`torn`) no
process begins anything until the next attach, which is a bound.

### `UbifsCommit` (commit.c, log.c, the reservation of journal.c)

`cmtState` is `cmt_state`, `readers` and `writer` are who holds `commit_sem`, `needBgt`
and `roError` the flags of those names. `lhead`, `ltail`, `minLog` and `mstLog` are the log
head and tail, `min_log_bytes` and the log position in the master node on flash. `head`
is the write-buffer of each journal head, `closed` the buds no head points to any
more, `old` the number of buds in `old_buds`, `budBytes` and `cmtBytes` the counters that
`log.c` keeps of them. `pc` is where each thread is, `job` the reservation of a client.

A client reserves space (`Call`, `DownRead`, then one of the outcomes of
`reserve_space()`), writes and leaves; or it runs the commit, for `ubifs_sync_fs()`
or because the reservation got `-EAGAIN` or `-ENOSPC`. `RunCommit`, `DownWrite` and `Recheck`
are the three times `ubifs_run_commit()` looks at the state, `BgtLoop`, `BgtCheck` and
`BgtRecheck` those of the background thread. `CommitStart` is the part of
`do_commit()` under `commit_sem`, `CommitEnd`, `CommitMaster` and `CommitPost` are the
parts that run beside writers, `CommitFails` and `CommitStartFails` their errors.

What is simplified: a node is its length; the number of retries of a reservation
(128) is not counted; `AddBud` sets the state of a background commit in the same step as
it adds the bud, its wake-up is a step of its own; buds that the garbage collector adds
for its own head are reservations on that head; the dump of the state on an error, which takes
`commit_sem`, is left out. That a commit start node with one reference per head is
smaller than a log LEB (`CommitNodes`) and that the log has room for all buds and one
LEB (`LogLargeEnough`) is what `init_constants_sb()` and the superblock guarantee.

### `UbifsMaster`, `MasterRegister` (master.c, the first part of recovery.c)

`mleb` is what the two master LEBs hold, `mold` what an un-mapped one held and may hold again;
`mst`, `moffs`, `ro_mount`, `need_recovery`, `rcvrd` are `c->mst_node` and so on. `wpc` is the next
operation on the flash: `WriteStep` is `ubifs_write_master()`, `RecoverStep` is
`write_rcvrd_mst_node()`, `MasterFound` and `MasterRule` are `get_master_node()` and
`ubifs_recover_master_node()`. The fields of the node are one value, `body`.
`MasterRegister` is a register that is written at one instant or not at all; `Atomic` says
that `UbifsMaster` implements it, its value being what a mount would read if the power were cut now.

### `UbifsOrphan` (orphan.c, with the parts of journal.c and commit.c that use it)

`orphans`, `orph_cnext`, `orph_dnext`, `cmt_orphans`, `no_orphs`, `ohead` are the fields of those
names; `oleb` and `oold` the orphan area; `jnl` the un-linkings and deletions in the journal of
which the last may be lost; `cpc` how far a commit is. `Unlink`, `Evict`, `CommitStart`,
`CommitOrphans`, `FillOrphNode` (the list, under `orphan_lock`), `WriteOrphNode` (the un-mapping and the write of `onode`), `UnmapUnused`,
`EraseDeleted`, `CommitEnd` are the steps of a commit and its surroundings, `Mount`, `MountOrphans`, `RemountRw` what a mount does with the area.
Every inode is un-linked once; `late` records those closed after a commit has started and before
it lists the orphans.

### `UbifsJournal` (journal.c, io.c, replay.c, scan.c, recovery.c, file.c, dir.c)

`flash` and `old` are the LEBs of the main area and what un-mapped ones held, `wbuf`,
`wbuf_inos` and `head` the write-buffers of a base head and a data head, `log` the
reference nodes, `tnc` the index in memory (where the node of each key is), `mst` the index
of the last commit, `ui_size`, `synced_i_size`, `dirty_ino`, `dirty_pg` the inodes and pages of the
VFS. Operations write their nodes as `journal.c` groups them: `Create`, `Unlink`, `Rename`, `Evict`,
`Write`, `WriteInode`, `WritePage`, `Truncate` with `TruncatePage` and `JnlTruncate`, `Fsync`. A
write to the flash is what the code writes at once (`ChunkEnd`), so that a cut falls
between or inside any of them. `Mount` reads the log and scans the buds (`Recovered` is
`ubifs_recover_leb()`), `ReplayJournal` applies the nodes by sequence number, `RecoverInode` and
`RecoverSize` repair sizes and remove stray data, `FixUncleanLeb` is the re-write of LEBs that a
read-only mount had left; each can be cut again.

A node is one unit, a block of a file two units of its size. `names_ok` and `files_ok` are what a cut
at this moment may leave; they are narrowed by `Fsync` and by a commit. Hard links, attributes
and directories besides one are not modelled; a commit is two steps here.

### `UbifsTnc`, `SnapshotIndex` (tnc.c, tnc_commit.c, tnc_misc.c, shrinker.c)

`tnc` is the tree: the znodes with their flags (`dirty`, `cow`, `obs`, `cnext`), the root, the old
index (`old_idx`), the LEB properties of index LEBs, `calc_idx_sz` and the counters of clean and
dirty znodes. An operation on the index is one step, because it holds `tnc_mutex`: the search
(`LookupLevel0`, `ResolveCollision`), the copy of znodes on the path (`DirtyBottomUp`,
`CopyZnode`), `Insert` with splits and a new root, `Delete` with collapses, `RemoveRange`. A commit is
`CommitStart` (list the dirty znodes, allocate LEBs), `GapLeb` for each LEB filled in the gaps
(`layout_leb_in_gaps()`), `LayoutInEmptySpace`, `WriteNode` for each znode, `WriteMaster`,
`CommitEnd` and `EraseIdxLeb`. `GcIndexLeb` dirties the nodes of an index LEB, `Shrink` drops clean
znodes, `PowerCut` mounts what the master node says.

An index node takes one slot of a LEB, so that the condition `len < gap_remains` of `fill_gap()` is
not distinguished from `<=`; index LEBs that have the same dirt are taken in any order; there are
no data LEBs, so that the commit of a small instance may find no LEB, and the file system ends
read-only (in the code the budget of `UbifsSpace` sees to it). The leaf node cache, bulk-read,
`ubifs_tnc_replace()`, the fallible searches during replay and the place of leaves are not modelled.
`SnapshotIndex` is a set of entries that changes while an earlier state of it is saved at one
instant; `SavesSnapshots` says that the tree and the index on the flash implement it.

### `UbifsSpace` (lprops.c, find.c, budget.c, gc.c, with journal.c, log.c and tnc_commit.c)

`sp` has the properties of each LEB (`free`, `dirty`, `index`, `taken`) and the counters `c->lst`; `live`
the nodes in use of each data LEB; `jh` the write-buffers; `bi` is `struct ubifs_budg_info`; `dirty_zn`,
`calc_idx_sz`, `old_idx`, `dirty_idx` and `committed` what the index needs. `th` is where each thread
is between its budget and the release of it, `gc` the state of the garbage collector, `cmt`
that of the commit. One action is one critical section of `space_lock` or of the `lp_mutex`
(`lp_mutex` is a variable where it is held over several), so that budgets are given between the
check for an empty LEB and its taking. `BudgetSpace`, the write-back and commit of
`make_free_space()`, the reservation with `ubifs_garbage_collect()` in it (`GcIter`, `GcPick`, `GcMove`, `GcSync`, `GcFree`), `ubifs_gc_start_commit()`, the layout of the index in empty LEBs and in gaps, and the
return of LEBs at the end of a commit are modelled.

`lost` records whether a node that was needed was erased. Sizes are in units of one index node; an
operation or a moved node dirties one znode; all properties are in memory, so that `scan callbacks'
over the LPT do not occur; of LEBs that cannot be told apart one is taken (`OneOfEach`); a
commit is started by a budget, a full log or in the background (`MaxEvents`); the 128 retries of a reservation
that lets a commit run (`ReserveAgain`) are not counted. Fast budgeting, errors of
the flash and of memory, padding to min. I/O units and `ubifs_get_free_space()` are not modelled.

## Runs

Bounds: three PEBs give a move its source and target beside another PEB, and let two clients, which may own two PEBs
together (`MaxHeld`), run out of free ones and compete for the next; in `wl_threads` one client also flushes.
`wl_faults` has one client, because each failure already has the background thread
to race with.
`PqLen` 1 and 2 (10 in the code) make the protection of an entry end within
a run; 2 also makes the head of the circular queue wrap around. In `UbiEba`, `MaxSq`
bounds the sequence numbers (the number of PEBs written in a run) and `MaxPages` 2
distinguishes a torn tail from a torn whole. In `Uftl`,
two data pages per block and two virtual sectors are the least with which a block is
partly used and must be copied; two buffers (`uftl_pages`) let one keep unwritten sectors while recycling moves the page
below them; `MaxId` bounds the blocks written. `uftl_power` leaves out reads
(`NoReads`), which would only fill buffers that are clean and are lost at a cut; `uftl_pages`
ends (`AllRead`) with the first page taken for read that was not, after which its two properties
claim nothing. In `UbifsCommit`,
buds of two units and nodes of one or two leave a bud partly filled across a commit; three log
LEBs of two references are the least allowed and wrap around after two commits;
`commit_all` has one client, because the background thread is the second committer. For more
clients `CommitInv` and `BrokenIsFinal` are proved.
In `UbiVol`, two volumes and two names are the least with which volumes swap names and with
which a re-name removes a volume; a volume has at most two LEBs, of which the one that a
shrink cuts off (`McLebs`) holds data; two PEBs are
available at first, so that volumes compete for them, and two may go bad (`MaxBad`), after which
the reserve is empty.

In `UbifsOrphan` the area has two LEBs of three words, so that it is full after a few orphans, is
consolidated, and one commit writes two nodes; three inodes are one more than its limit on orphans
allows to be un-linked at once; a master LEB holds two nodes, so that both are started anew within four
commits. Two cuts in `orphan_cuts` and `power` let the second fall into the recovery from the first, or after it. In `UbifsJournal` a LEB holds three writes of two units, so that a group of three nodes
is split between writes and between LEBs, and four LEBs give each head a second bud; files of up to
three units have one whole block and a part of another; two operations that write nodes with a commit and
two cuts are enough for each pair of operations to be re-ordered between the heads. In `UbifsTnc` a
fanout of 3 (8 in the code) and seven entries give a tree of three levels; two of the keys are
hashes shared by two names each; the seeds split and thin it, so that a key in the root is less than the
first below it. Three LEBs of two slots force the second commit into the gaps. In `UbifsSpace` the
mounts are a file system with little data and much dirt, one with several index LEBs, one with no empty LEB,
and a full one; each is near the limit at which a budget is refused. Larger explorations without a
violation: `UbifsTnc` with three operations (1.6 and 2.9 million states), `UbifsSpace` from
`DirtyIndex` and with one event more from all mounts (1.1 and 1.7 million states).

| Run | Shows |
|---|---|
| `wl_threads` | two clients and the background thread: queued PEBs become free; get returns although the other client competes for what becomes free, unless other clients or moves take a PEB again and again; put returns |
| `wl_faults` | from any scan, under failing erasures, writes, copies and allocations, and bit-flips: each entry in one place, live PEBs are never erased, the assertions on the move hold (`WlInv`), and the promise of `PebPool` |
| `eba_power` | one LEB, power cuts everywhere: reads are current, completed writes survive, changes are atomic; sequence numbers are unique and the scan always has one answer (`EbaInv`) |
| `eba_errors` | two LEBs, every failure, and moves selected before the LEB is locked: no PEB is shared, reads are current |
| `vol_ops` | two processes, two volumes, every operation, failures and power cuts: users are counted, exclusive access is exclusive and every PEB is accounted for (`VolInv`), the table changes atomically, RAM and table agree, a volume without update marker never shows old data |
| `uftl_pages` | with failing reads and restarts: the tables agree with the pages, log pages are truthful, only unused blocks are erased (`UftlInv`); reads return the last write, also with a page under an unwritten buffer moved |
| `uftl_power` | what was flushed is found after a power cut, also when un-mapped blocks come back; recycling gains a page with each block, so that it ends, and its `BUG()` is not reached |
| `commit_all` | a client and the background thread with every failure: one commits at a time and starts alone, old buds are released (`CommitInv`), bud bytes are exact, the log head never runs into the log; nobody commits after a failed commit; every request for a commit is served |
| `orphan_cuts` | two cuts at any operations on the flash, also in a recovery: the master area can be read and is an atomic register; un-linked files are deleted at mount, linked ones never, and the orphan area suffices |
| `power` | two files and two names, two cuts, also in a recovery: what a cut leaves can be mounted; the directory is one that existed since the last synchronization; files have what was synchronized; the index refers to what is there and to no stray data |
| `tnc` | the tree is a map with colliding keys; a directory read resumes at the next entry; counters, dirt and the old index are exact (`TncInv`); the saved index is a snapshot, whatever is changed, collected or written in gaps meanwhile |
| `space` | two writers, the collector and the commit: each LEB has one holder and the counters and budgets are exact (`SpaceInv`), nothing needed is erased, a commit finds its LEBs, what was budgeted can be written |

`CHECK_DEADLOCK FALSE` is set where a bound (sequence numbers, block ids, operations, commits or cuts) ends
the behaviours.

### Deviations, and how the runs are restricted

The models also contain the following behaviours. A property of a passing run does
not claim the opposite: either the fault that leads there is not in its `Faults`, or the
property exempts it, as noted.

* `wl.c:274`: `produce_free_peb()` loops for ever when the last pending erasure fails in
  another thread: it returns only if there is a free PEB, or when its own work fails
  (fault `erase_other`). `GetReturns` is checked without it. It excepts a client from which other clients, or moves, take
  a free PEB again and again: nothing in `wl.c` gives the one that waits longest the next PEB.
* `wl.c:1289`: `ubi_wl_flush()` works until it sees the queue empty, not "the number of
  currently pending works", so others can keep it busy. No run claims that flush ends.
* `wl.c:1053`: after a transient erase failure the entry is given to
  `kmem_cache_free()` and then queued again (`EraseTransient`); `wl.c:923`: a failed move frees
  the entry of a PEB that is still mapped (`WlError`). `freed` records these entries;
  `EntryFound` and `NoneLost` exempt them.
* `wl.c:466`: the erasure inside `ubi_wl_get_peb()` changes the erase counter after the
  lock was released and can outlive the protection, when the entry is in the used
  tree, which is ordered by that counter. The model has the interleaving; its trees are sets.
* `wl.c:681`: a wear-leveling worker that gets no memory leaves `wl_scheduled` set
  (`WlNoMem`). `WlScheduledOnce` is proved without allocation failures (`ScheduledOnce`).
* `wl.c:1171`: the torture flag of a PEB that is put while it is the target of a move is
  dropped (`PutMoveTarget`). No property is about the flag.
* `eba.c:690`: after the last retry the result of `ubi_wl_put_peb()` replaces the error
  of the write, and the call returns 0 (`GiveUp`, fault `last_try`). With that fault, `ReadsCurrent` claims
  nothing once the device is read-only.
* `eba.c:1142`: a copy that is complete but cannot be read back stays on the flash with a
  higher sequence number until it is erased; after a power cut it wins against the
  original, to which data may have been appended (`MoveFails`, fault `copy_readback`). `Durable` is
  checked without it.
* `wl.c:466`: the result of the erasure is ignored, so that a PEB without EC header may be
  handed out; the scan drops it with the data written to it (`GetPeb`, fault
  `ec_header`). `Durable` is checked without it.
* `eba.c:526`: `recover_peb()` writes the VID header with a new sequence number before it copies the data. A
  power cut in between makes the scan choose the incomplete copy, and old data is lost, although the comment
  above it (`eba.c:492`) says it "moves all good data" to a good eraseblock (faults `append` and `power_cut` together). `Durable` is checked
  without the pair.
* `eba.c:893`: an atomic change of an un-mapped LEB that is cut may leave part of the
  data, because the scan verifies a CRC only to compare two PEBs. `ChangeAtomic` is
  about mapped LEBs.
* `eba.c:346`: after un-map, write and un-map again the newer PEB may be erased first,
  and a power cut brings the older contents back. `Durable` claims nothing for un-mapped
  LEBs.
* `vmt.c:552`: shrinking writes the new size before the surplus LEBs are un-mapped. After a
  power cut `check_sv()` finds a LEB beyond the volume and refuses the whole device, although
  `eba.c:1258` expects to erase it ("This may happen in case of an unclean reboot during
  re-size"). `eba.c:1262` would then also write beyond `eba_tbl`. The properties are about
  attached devices.
* `cdev.c:787`: a re-name looks for volumes with the new names before it takes
  `device_mutex`. Two re-names, or a re-name and a creation, can give two volumes the same
  name; `vtbl_check()` refuses the next attach. Between the search in
  `ubi_open_volume_nm()` and the open the volume found can also be re-named, and is then
  removed under its new name. No property is about names.
* `vmt.c:421`: a volume whose sysfs file is being read is not removed. When the removal is part of
  a re-name (`vmt.c:626`), the table has already been written without the volume and the re-name
  breaks off before the names in RAM change. `TablesMatch` exempts these volumes (`torn`).
* `vmt.c:602`: when the table cannot be written, growing a volume frees `new_mapping`,
  which `eba_tbl` already points to. `vtbl.c:102`: the record in RAM is changed before it is written
  and not changed back; `TablesMatch` is about devices that are not read-only.
* `vmt.c:438`: a removal, a re-size or a re-name whose un-mapping fails leaves volumes that the
  table no longer describes (`UnmapFails`); the device is read-only then.
* `cdev.c:383`: `changing_leb` is already 0 when `vol_cdev_write()` looks at it after a finished
  atomic change, so that the volume is checked as after an update. Atomic changes through the
  character device are not modelled.
* `uftl_core.c:230`: after a cut before the log page is written, the full block is attached as the last one and never
  gets a log page. The next attach finds it first, skips the block that was being written, which has none either, and un-maps
  it, although the comment (`uftl_core.c:227`) means to "restore info from the last block" (fault `cut_before_log`).
* `uftl_core.c:197`: a torn log page makes attach erase its block with all its readable
  pages (fault `cut_in_log`). `FlushedSurvives` is checked in `uftl_power` without cuts
  between the last data page of a block and the end of its log page.
* `uftl_core.c:329`: `check_count` is reset at every attach, so that many short sessions use
  up the empty blocks without any recycling. `uftl_pages` contains the resulting `NoSpace`.
* `uftl_core.c:648`: a page that garbage collection cannot read is skipped and its index
  keeps pointing into the block, which is then erased. When the block has been written again,
  invalidating that sector counts a live page as unused, and the block may be erased with
  its data.
* `uftl_core.c:651`-`654`: when `scrub_block()` gets no page for a sector it stops with the victim half copied, and the
  pages it has copied stay counted as in use until the next attach. `TablesAgree` leaves the state of such a block
  open (`cur.block = None`).
* `uftl_dev.c:192`: `ubiblock_flush()` ignores the result of `ftl_core_io_all_flush()`, which keeps only that of the last
  buffer (`uftl_core.c:843`-`851`): a flush that ran out of space reports success. In the model a flush makes durable
  what it has written (`LeftDirty`, `Flushed`).
* `uftl_core.c:757`: a failed read leaves a buffer marked as read that serves its old
  memory (`FetchSector`). `misread` records that either has happened; `UftlInv`, `ReadsLatest` and `FlushedSurvives` claim
  nothing after it, `RecyclingEnds` does.
* `commit.c:170`-`206`, `log.c:476`: `ubifs_log_end_commit()` moves the log tail before the master node is written. A
  writer may enter a LEB that the log of the master node on flash still includes, and
  `ubifs_log_post_commit()` (`log.c:521`) unmaps the LEBs from the old tail to the new one although
  the head may have entered one of them again, in spite of `log.c:501` ("because they may be
  needed for recovery"). No property claims more than `LogInOrder`.
* `log.c:113`: `empty_log_bytes()` takes a log that is exactly full for an empty one, and
  `min_log_bytes` is 0 from mount to the first commit. With `Starts = {0, 1}`, when buds with
  little space use many references, the commit start node can enter the LEB of the
  tail. `LogInOrder` is checked with empty LEBs (`Starts = {0}`), where `bud_bytes` is the
  limit that is met first.
* `commit.c:405`: `wait_for_commit()` returns 0 when the commit it waited for failed, and
  `ubifs_sync_fs()` reports success. No property claims more; `BrokenIsFinal` is about the
  commits that would follow.
* `orphan.c:384`: `consolidate()` lists the orphans of the moment, after the start of the commit, and replaces an
  area that belongs to the commit before. An inode that was committed as an orphan earlier and is closed in between is in
  neither: if the power is cut before the commit ends and the deletion was in a write-buffer, the inode stays for
  ever, in spite of `orphan.c:366` ("at no time can orphans be lost by an unclean unmount"). `OpenAreKilled`
  exempts these (`late`).
* `recovery.c:277`: `ubifs_recover_master_node()` takes a first LEB with one node and a second with `offs2 + sz >= leb_size`
  for a first LEB that was started anew. When a LEB is not a multiple of the node, a full LEB does not satisfy this
  (constant `Exact`), and that cut makes the mount fail. The run has `Exact = TRUE`, which holds when a min. I/O unit is not smaller than the node.
* `file.c:1159`: `do_truncation()` writes the last page with `do_writepage()`, without looking at `synced_i_size` as
  `ubifs_writepage()` does (comment at `file.c:969`). The data can be on the flash, and committed, beyond the size of the
  inode there; `IndexInOrder` exempts these pages (`stray`).
* `journal.c:1391`: `ubifs_jnl_change_xattr()` says the host inode is written after the attribute; the code packs it
  first. It is not built.
* `find.c:263`: `ubifs_find_dirty_leb()` decides under `space_lock` whether it may take an empty LEB and takes it after
  dropping the lock, without counting it as taken as `ubifs_find_free_space()` does. A budget given in between
  relies on the same LEB, against `find.c:255` ("this function must avoid picking those reserved LEBs"). The LEBs that remain
  have been enough for the commit in all instances; `CommitSucceeds` claims only that.
* `budget.c:509`: the no-space flags are set without `space_lock` after the last failure, so that a release that
  has just cleared them is forgotten until the next one. No property is about the flags.

Each property of a passing run has a mutant: an operator that differs from a modelled
one as a plausible bug would, and under which the property fails.

## Fairness

`UbiWl!FairSpec`: a thread that is inside a function of `wl.c` and not waiting runs
(weak fairness: the scheduler); clients are not obliged to call. A client that waits for
`move_mutex` gets it eventually although others take it in between, and the retry
after it is not overtaken each time by a new move of the same PEB (strong fairness: the
kernel hands a contended mutex over to a waiter, and a cancelled move
leaves the PEB at the tail of the protection queue). `UbifsCommit!FairSpec`: a thread inside the file system runs
(weak fairness), and so does the background thread once it is woken; nobody has to call.
That readers queue up behind a waiting writer (`DownRead`) is how the kernel's
`rw_semaphore` works; `RequestServed` depends on it.

## Proofs

`UbiWlProofs` proves, for any sets of PEBs and clients, any queue length and any set of
failures, from the named assumptions of `UbiWl` only:

* `TypeCorrect` (`TypeOK`, a part of `WlInv`), `InOnePlace`, `LiveNeverErased`, `EntryAlwaysFound`,
  `MoveAssertsHold`: `Spec => []TypeOK`, and so on for `OnePlace`, `NoLiveErase`,
  `EntryFound` and `MoveAsserts`;
* `Refinement`: `Spec => KeepsPromise`, that is `PebPool!PoolSpec` under the mapping;
* `ScheduledOnce`: `Spec => []WlScheduledOnce`, if `nomem` is not in `Faults`; with it the property is false, as the
  deviation at `wl.c:681` says. `OneWork` states it without cardinalities, and each step does one of three things
  to the work (`WorkSame`, `WorkAdded`, `WorkEnds`) or, in `do_work()`, hands it from the queue to a worker.

The first six rest on `Invariance`, `Spec => []WlInv`. `OnePlace` alone is not inductive: that a
step moves an entry from one structure to another without finding it in a
third needs to know which PEBs the clients own, what a move in progress owns and which
worker is executing what. `WlInv` adds these:

* `OwnInv`: the PEB a client was given, or is about to put, is not mapped and no other
  client has it; owned PEBs are in the used, scrub or erroneous tree, in the protection
  queue or in the move (or were freed), never in the free tree, in an erase work or bad;
* `MoveInv`: a worker is copying, or has copied, exactly if it holds `move_mutex`, and
  `moveFrom` and `moveTo` are set exactly then; the target is not owned before the LEB is
  re-mapped to it, the source is not owned after, and a target that was put is not owned;
* `JobInv`: an erase job has an entry, and a client executes works only inside
  `produce_free_peb()` or `ubi_wl_flush()`.

The proof has lemmas for how each structure changes (`PqAdd` ... `JobErase`),
one lemma per action or group of similar actions that proves the invariant and the step
of the pool together, and `StepInv`, which puts them together over `Next`.

`UbifsCommitProofs` proves, for any number of clients and journal heads, any sizes and
with or without failures:

* `CommitsOneAtATime`, `StartsAlone`, `BudsReleased`: `Spec => []OneCommitter`, and so on
  for `StartAlone` and `OldBudsReleased`;
* `FailureIsFinal`: `Spec => BrokenIsFinal`.

They follow from `Consistent`, `Spec => []CommitInv`. `OneCommitter` is inductive only
together with `SemHeld`: that no second thread passes `Recheck` needs to know that
`commit_sem` is held exactly at the program counters where the code holds it.
`OldHeld` says where buds of an unfinished commit may wait in `old_buds`. Every
step is one of eight kinds (`Stay`, `EnterRead` ... `LeaveCommit`), by how its thread
moves between the regions in which it holds `commit_sem` or is in `do_commit()`; each kind has
one lemma, and each action is shown to be of a kind.

`BudsConsistent`, `Spec => []BudInv`, and with it `BudBytesRight` (`BudBytesExact`): `bud_bytes`
is what the open and the failed commit's buds hold, a sum over the buds. `BudInv` adds that a writer which has
passed the check of the limit has reserved what it then adds (`WritersFit`). Each step changes one
term of the sum (`OpenChange`) or starts it again at a commit (`OpenCut`); `FailedStays` says that nothing is counted
any more once a commit has failed.

`UbiEbaProofs` proves, for any numbers of PEBs, LEBs, pages, retries and sequence numbers, from the named assumptions
of `UbiEba` (`MaxSq` is positive, the model values differ from LEBs and pages):

* `EbaInvariant` (`EbaInv`) and `TablesStayExclusive` (`TablesExclusive`), whatever fails;
* `ReadsStayCurrent` (`ReadsCurrent`), whatever fails; with `last_try` it claims nothing of a read-only device;
* `StaysDurable` (`Durable`) and `ChangesStayAtomic` (`ChangeAtomic`), if `Faults` has none but
  `power_cut`, `first_write`, `copy_target` and `erase` (`SafeFaults`), as `eba_power` has.

The hypotheses leave out only faults with which the properties are false: TLC finds, in the instance of `eba_power`, `Durable` violated as soon as one fault outside `SafeFaults` is added to
`power_cut` and `first_write`. Four of these are the deviations above; with `put_nomem` and `fatal`, a call that has
returned an error leaves a PEB on the flash that a power cut makes effective.

All rest on `EbaAllInvariant`, `Spec => [](EbaAll /\ MoveInv)`. None of the properties is inductive: what the scan makes of the
flash after the next write depends on what unfinished operations and forgotten PEBs have left on it. `EbaAll` has six parts:
`TypeInv`; `OwnInv`, which PEBs each operation keeps from being erased (`Holds`), and that no two operations keep the
same; `FlashInv`, what is on the new PEB of an operation at each step; `SqInv`, that a sequence number that is taken but not
yet written is unique too and above all headers of its LEB; `CurInv`, that the table leads to what was promised; and
`KeepInv`, under `SafeFaults`: every other PEB of a mapped LEB either is older than the mapped one, which is
then complete (`Good`), or is newer and incomplete, so that the scan rejects it. The exception is a retried
atomic change, whose first attempt may be complete (`Retried`).

A step on a LEB is described once, by the operation and the table entry it leaves and by what it does to the PEBs
(`Done`). `DoneKeeps` shows that such a step keeps the six parts; each action of a LEB is then shown to be such a step.
`PoolKeeps` is about erasures, which touch no PEB an operation holds. `PowerCutKeeps` is about the attach: because the
sequence numbers differ, `Beats` has one winner for each LEB (`WinnerExists`), the complete PEB with the highest number or, without any, the
lowest; that the state found keeps `KeepInv` follows from what the winner has beaten. `MoveInv` is what the
worker relies on between the selection of a move and the lock of the LEB: the target is reserved and erased, and no other move
runs (`MoveStays`, `SelectSteps`).

`UftlProofs` proves, for any numbers of blocks, pages, sectors, buffers and ids, from the named assumptions of `Uftl`:
`TablesStayTrue` (`UftlInv`), `ReadsStayLatest` (`ReadsLatest`) and `FlushedStaysDurable` (`FlushedSurvives`). Their hypothesis
is `NoLogCuts`: not `cut_before_log` or `cut_in_log` together with `cut`, the two deviations above, with which TLC finds
`ReadsLatest` and `FlushedSurvives` violated. All rest on `UftlInvariant`, `Spec => []IInv`, which claims `UftlAll` until
`misread`. Neither property is inductive, since a cut throws away the whole state in memory: what is needed is that attach
would find the same index again. The parts of `UftlAll`:

* `FlashInv`, `OrderInv`, `IdInv`: block ids are unique and below the next one, pages were written in the order of the
  ids, all blocks but the current one are full and have a truthful log page;
* `StateInv`, `FifoInv`: the page states, the counts and the empty blocks are those of the index;
* `ControlInv`, `CallInv`, `BufInv`: where the operation is, and what it and the buffers hold at each step;
* `DataInv`, `DurableInv`: the newest page of a sector, in the order of ids and pages, is the one the index leads to,
  holds what was written last, and stays until a newer one is written.

The lemmas `Attach...` are about what attach makes of the flash, `Cut...` about a cut, and each action has a lemma
`...Keeps`. A page is written with the highest id and so replaces the newest page of its
sector, whose block is erased only when it has no newest page left; so what attach finds differs from the
index in memory only by the page of an operation that has not yet entered it (`CutIndex`).

`FiniteSums` has what those proofs, and the PEBs of `UbiVol`, need of sums: the sum of a function over a
finite set changes by the change of one term, of two, and so on. The recursive function behind
`SumFunctionOnSet` is shown to exist and to be unique by taking, of the subsets for which the claim fails, one
with no other inside (well-founded induction, which `WFMin` gives without an operator parameter).

`UbifsMasterProofs` proves, for LEBs of any number of nodes and any numbers of inodes, cuts and mounts:
`MasterInvariant`, `MasterAlwaysReadable` (`MasterReadable`) and `MasterIsAtomic`
(`Atomic`, the refinement of `MasterRegister`). They have the hypothesis `Exact`: without it the first is
false, as the deviation at `recovery.c:277` above says, and the run has the same value.
The invariant is `AreaTypes` (LEBs are nodes with at most one torn
thing at the end), `AreaInv` (at each of the operations that write or recover the area, which pair of contents the
two LEBs have) and `MountInv` (when the master node is written, and for what). Lemmas `Reads...` say what a mount makes
of each such pair, `CutOutcome` that a cut leaves one of them, `ReadNow` that it reads as the old or the new value.

`UbiVolProofs` proves, for any numbers of processes, volumes, names and PEBs, every invariant the run checks, one
on top of the other:

* `Holders`: `HolderInv` and `FlashTypes`. What every process is doing, which descriptor it holds, and that `readers`,
  `writers`, `exclusive` and `ref_count` count the descriptors (the set of those that hold a volume in a mode loses
  or gets one element with each step);
* `VolInvariant`: `VolInv`. `PebInv` adds `Balanced`: the free PEBs and those every volume and every
  process in the middle of a resize has reserved add up to all;
* `TableSurvives`: `TableDurable`. `LayInv` says which of the two copies of the table may be torn or old at each
  step of a write of the table;
* `TablesStayEqual`: `TablesMatch`. `TableInv` says, for each step of a request, whether RAM, the table and what
  completed calls promised agree about its volume, and that no other process is changing that volume;
* `NoStaleDataShown`: `NoStaleData`. `DataInv` says that no LEB beyond the end of a volume has contents (`InBounds`), that
  a volume without update marker has its own (`Clean`), and what an unfinished request still leaves (`Leaves`).

`UbifsSpaceProofs` proves `SpaceAgrees`, `Spec => []SpaceInv`, for any LEBs, heads and threads (finite sets), any sizes,
watermarks and bounds, and any file system a mount may find: a LEB is taken while exactly one place has it
(`OneHolder`), the counters of the LEB properties are sums over the LEBs (`CountersExact`), and the budget is what the threads
hold (`BudgetExact`). It rests on three assumptions of `UbifsSpace`. `SpaceAssumption` names the heads and
requests; `SizeAssumption` says that sizes are numbers and the sets finite; `MountAssumption` is what mounting reads or
establishes: of each data LEB free, dirty and used space add up to the LEB, an index LEB is not empty unless
it is the head of the index, and the LEB reserved for the collector (`c->gc_lnum`) is empty.

`SpaceInv` is far from inductive: it compares two accounts of the LEBs, and whether a step keeps them equal depends on where
each LEB is and on what the thread that acts has found out some critical sections ago. `IInv` has nine parts:

* `OwnInv`: there is a function from LEBs to places (a write-buffer, a thread that has found it, the collector,
  the reserve, the head of the index, the layout of a commit, a bud, the list of LEBs to erase ...) that agrees with all the fields
  these are kept in (`OwnOk`), and the properties of each LEB fit its place and its nodes (`LebOk`): the space of a data LEB
  that is not its nodes is free or dirty, but for what a write-buffer has not yet written; what is
  reserved, to be erased or to be laid out is empty;
* `CountInv`: the counters are the sums, with the LEB that `ubifs_find_free_space()` takes
  after it has dropped `space_lock` counted once more (`Twice`);
* `HeadInv`, `ThreadInv`, `GcInv`, `CmtInv`, `EraseInv`: what each step of a write-buffer, a thread, the collector, the
  commit and `c->idx_gc` still relies on (`found` space is still free, the LEB the collector is freeing is all
  dirt, writers are out while a commit lays the index out ...);
* `DataInv`, `BudgetInv`: types, `BudgetExact`.

TLC has checked `IInv` on the instance of `space` (49 s). The counters are folds, `SumFunction` of the community modules,
which the prover sees as a recursive function: the first lemmas show that it exists and is the sum of `FiniteSums`
(`FoldedExists`, `FoldedAgree`), so that the change of one LEB changes each counter by the difference of that LEB
(`SumChanged`). On this rests a lemma for each way the code changes properties: `ChangeLp`, the
sync of write-buffers, one after the other (`SyncOneIs`), the take and the return of a LEB. Each way a LEB goes from one
place to another has a lemma (`BudsToOld`, `EraseReturns` ...), and each action one named `...Keeps`.

Only model-checked: liveness (outside the prover's reach); `UbifsOrphan` (its own properties),
`UbifsJournal` and `UbifsTnc`, whose invariants rest on folds or searches over sequences and trees;
`NothingLost`, `CommitSucceeds` and `BudgetedIsWritten` of `UbifsSpace`: the last two depend on sizes and watermarks that
fit each other, as those of the instance do and any numbers would not; and
`LogInOrder`, which is inductive only together with "the log is larger than everything a commit can put into it", a
relation between its size, `max_bud_bytes` and the number of heads that `UbifsCommit` does not assume.

## Not modelled

UBI: erase counters and the choice of entries by them; `ubi_wl_close()`; the torture test
itself; static volumes; the byte layout of headers and CRCs (a CRC is "the data it was
calculated for"); allocations and sysfs registrations that fail in `vmt.c`; reads, seeks and user copies of
`cdev.c`; `rsvd_pebs`, which is only reported; the lock tree of `eba.c`, whose locks are taken as locks; `build.c`.

UFTL: failing allocations, writes and un-maps; the life cycle of the device, where `ubiblk_del_locked()`
(`uftl_dev.c:414`) frees the device while its delayed work is queued and re-arms itself.

UBIFS: the LEB properties tree on flash (`lpt.c`, `lpt_commit.c`): the properties are in memory in `UbifsSpace`, and
what the tree must do, keep what it is told through a commit, is `sp` there; extended attributes and debugging, which are not
built; the superblock, keys and compression, which are conversions; hard links, special files, bulk-read,
mount options and ioctls; the consolidation of the log at mount; the recovery of the garbage collection LEB and of the index head;
failing reads and writes of the flash besides cuts of power (in `UbifsCommit` every phase may fail).
